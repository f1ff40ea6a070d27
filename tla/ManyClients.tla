----------------------------- MODULE ManyClients -----------------------------
(***************************************************************************)
(* The load example of tsproto (src/tsproto/examples/many.rs) over the     *)
(* connect and disconnect helpers of src/tsproto/benches/utils/mod.rs.     *)
(*                                                                         *)
(* main makes a stream of Count connection futures with                    *)
(* stream::iter_ok(0..count).map(..): the closure runs create_client and   *)
(* connect when the stream is polled.  .buffered(10000) keeps at most      *)
(* Buffer of them in a FuturesOrdered, whose length counts the futures     *)
(* that finished but were not yet taken, and hands their results to        *)
(* for_each in the order they were pulled.  A connection goes through      *)
(*   connecting    client::connect runs the init exchange;                 *)
(*   clientinit    connect's and_then computes the hash cash (level 8)     *)
(*                 and sends clientinit, then wait_until_connected;        *)
(*   delay         the 5 second Delay;                                     *)
(*   disconnecting disconnect sends clientdisconnect and waits for         *)
(*                 Disconnected;                                           *)
(*   done          drop(c), the future is Ok(()).                          *)
(* In the three exchanges the client waits for the server.  The packet     *)
(* layer (spec 4.4, not in the repository) resends a reliable packet whose *)
(* answer does not come, at most MaxRetries times, and then fails the      *)
(* connection with Timeout; the map_err of main turns any error of connect *)
(* or disconnect into a panic.  The panic unwinds out of the poll of the   *)
(* one task that runs the future given to tokio::run: tokio 0.1 catches    *)
(* it and drops that future with every connection future still in the     *)
(* buffer.  The model ends there.  tokio::run itself returns only when     *)
(* every spawned task has ended as well, among them the stream tasks       *)
(* SimplePacketHandler spawns per connection (utils/mod.rs); those end     *)
(* with the connection's streams, which client.rs (not in the repository)  *)
(* closes, so the model says nothing about the process exiting.            *)
(***************************************************************************)
EXTENDS Naturals, Sequences

CONSTANTS
    Count,       \* args.count: the number of connections
    Buffer,      \* the limit of .buffered(10000)
    MaxRetries   \* the retry cap of the packet layer (30 by default)

ASSUME Count \in Nat /\ Buffer \in Nat \ {0} /\ MaxRetries \in Nat

Conns == 1..Count
\* The stages in which a reliable packet waits for the server's answer.
Exchanges == {"connecting", "clientinit", "disconnecting"}

VARIABLES
    pulled,    \* connections the map closure has made so far
    queue,     \* the FuturesOrdered of buffered: pulled, not yet yielded
    stage,     \* Conns -> the stage of the connection's future
    retries,   \* Conns -> resends of the packet the connection waits on
    yielded,   \* results for_each has taken
    panicked   \* a map_err closure panicked and the main future was dropped

vars == <<pulled, queue, stage, retries, yielded, panicked>>

Init ==
    /\ pulled = 0
    /\ queue = <<>>
    /\ stage = [i \in Conns |-> "idle"]
    /\ retries = [i \in Conns |-> 0]
    /\ yielded = 0
    /\ panicked = FALSE

Pull ==
    /\ ~panicked
    /\ pulled < Count
    /\ Len(queue) < Buffer
    /\ pulled' = pulled + 1
    /\ queue' = Append(queue, pulled + 1)
    /\ stage' = [stage EXCEPT ![pulled + 1] = "connecting"]
    /\ UNCHANGED <<retries, yielded, panicked>>

\* The server's answer to the packet connection i waits on moves it to
\* its next stage, with a fresh retry count for the next packet.
Answered(i, from, to) ==
    /\ ~panicked
    /\ stage[i] = from
    /\ stage' = [stage EXCEPT ![i] = to]
    /\ retries' = [retries EXCEPT ![i] = 0]
    /\ UNCHANGED <<pulled, queue, yielded, panicked>>

\* client::connect resolves: connect's and_then computes the hash cash and
\* sends clientinit.
Handshake(i) == Answered(i, "connecting", "clientinit")

\* wait_until_connected resolves; main logs Connected and starts the Delay.
Connected(i) == Answered(i, "clientinit", "delay")

\* The Delay fires; disconnect sends clientdisconnect (reasonid 8, Bye).
DelayElapsed(i) ==
    /\ ~panicked
    /\ stage[i] = "delay"
    /\ stage' = [stage EXCEPT ![i] = "disconnecting"]
    /\ UNCHANGED <<pulled, queue, retries, yielded, panicked>>

\* wait_for_state sees Disconnected; main drops the client and the future
\* is Ok(()).
Disconnected(i) == Answered(i, "disconnecting", "done")

\* Mutant: the resend ignores the cap.
Resend_uncapped(i) ==
    /\ ~panicked
    /\ stage[i] \in Exchanges
    /\ retries' = [retries EXCEPT ![i] = @ + 1]
    /\ UNCHANGED <<pulled, queue, stage, yielded, panicked>>

\* The retransmit timer fires without an answer and the packet is resent.
Resend(i) ==
    /\ ~panicked
    /\ stage[i] \in Exchanges
    /\ retries[i] < MaxRetries
    /\ retries' = [retries EXCEPT ![i] = @ + 1]
    /\ UNCHANGED <<pulled, queue, stage, yielded, panicked>>

\* The cap is reached: the connection fails with Timeout, the error reaches
\* the map_err of connect or of disconnect, and its panic drops the main
\* future with every connection in it.
Timeout(i) ==
    /\ ~panicked
    /\ stage[i] \in Exchanges
    /\ retries[i] = MaxRetries
    /\ panicked' = TRUE
    /\ UNCHANGED <<pulled, queue, stage, retries, yielded>>

\* FuturesOrdered yields its oldest future once it is done; for_each takes
\* the result.
Yield ==
    /\ ~panicked
    /\ queue # <<>>
    /\ stage[Head(queue)] = "done"
    /\ queue' = Tail(queue)
    /\ yielded' = yielded + 1
    /\ UNCHANGED <<pulled, stage, retries, panicked>>

Next ==
    \/ Pull
    \/ Yield
    \/ \E i \in Conns :
        \/ Handshake(i) \/ Connected(i) \/ DelayElapsed(i) \/ Disconnected(i)
        \/ Resend(i) \/ Timeout(i)

\* The runtime polls every woken task, and the timers of the Delay and of
\* the retransmits fire: weak fairness for them.  The server's answers get
\* none: the network may lose every packet.
Fairness ==
    /\ WF_vars(Pull)
    /\ WF_vars(Yield)
    /\ \A i \in Conns : WF_vars(DelayElapsed(i)) /\ WF_vars(Resend(i)) /\ WF_vars(Timeout(i))

Spec == Init /\ [][Next]_vars /\ Fairness

-----------------------------------------------------------------------------
(* Properties.                                                             *)

\* Every connection's future is in one of the stages of main, and no
\* packet was resent more often than the packet layer allows.
TypeOK ==
    /\ pulled \in 0..Count
    /\ queue \in Seq(Conns)
    /\ stage \in [Conns -> {"idle", "done", "delay"} \cup Exchanges]
    /\ retries \in [Conns -> 0..MaxRetries]
    /\ yielded \in 0..Count
    /\ panicked \in BOOLEAN

=============================================================================
