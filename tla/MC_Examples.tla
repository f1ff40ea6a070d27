----------------------------- MODULE MC_Examples -----------------------------
(***************************************************************************)
(* The many.rs example with the loggers of its connections: ManyClients    *)
(* composed with Logging.  The map closure that pulls a connection calls   *)
(* create_client(.., args.verbose), which registers the loggers of the     *)
(* verbose level on the new connection's Data before connect starts it.    *)
(* Logging follows the Data of the first connection: its CreateClient is   *)
(* part of the Pull of connection 1, and packets pass its taps, and later  *)
(* add_*_logger calls reach it, only while that connection is alive (from  *)
(* its init exchange until drop(c)).  Every other step of one component    *)
(* leaves the other's variables unchanged.                                 *)
(***************************************************************************)
EXTENDS ManyClients

VARIABLES verbose, created, observers, requested, packet, logged

logVars == <<verbose, created, observers, requested, packet, logged>>
allVars == <<vars, logVars>>

\* the levels of many.rs's -v flag and one more occurrence
MCVerbosities == 0..4
\* the two command types, which the command logger prints, and two others
MCPacketTypes == {"Command", "CommandLow", "Voice", "Ack"}

L == INSTANCE Logging WITH IsClient <- TRUE, Verbosities <- MCVerbosities,
                           PacketTypes <- MCPacketTypes

\* Connection 1 has been created and not yet dropped.
Alive == stage[1] \in Exchanges \cup {"delay"}

PullStep == Pull /\ IF pulled = 0 THEN L!CreateClient ELSE UNCHANGED logVars
YieldStep == Yield /\ UNCHANGED logVars
DelayStep(i) == DelayElapsed(i) /\ UNCHANGED logVars
ResendStep(i) == Resend(i) /\ UNCHANGED logVars
TimeoutStep(i) == Timeout(i) /\ UNCHANGED logVars
AnswerStep(i) == (Handshake(i) \/ Connected(i) \/ Disconnected(i)) /\ UNCHANGED logVars
LoggerStep ==
    /\ Alive
    /\ \/ \E f \in {"command", "packet", "udp"} : L!AddLogger(f)
       \/ \E tap \in L!Taps : \E p \in L!TapPackets(tap) : L!Observe(tap, p)
    /\ UNCHANGED vars

ExamplesInit == Init /\ L!Init

ExamplesNext ==
    \/ PullStep
    \/ YieldStep
    \/ \E i \in Conns : AnswerStep(i) \/ DelayStep(i) \/ ResendStep(i) \/ TimeoutStep(i)
    \/ LoggerStep

\* ManyClients's fairness for the same steps: the runtime and the timers.
\* Packets and logger calls get none.
ExamplesFairness ==
    /\ WF_allVars(PullStep)
    /\ WF_allVars(YieldStep)
    /\ \A i \in Conns : WF_allVars(DelayStep(i)) /\ WF_allVars(ResendStep(i)) /\ WF_allVars(TimeoutStep(i))

ExamplesSpec == ExamplesInit /\ [][ExamplesNext]_allVars /\ ExamplesFairness

\* Logging's property for connection 1: every packet passing a tap while the
\* connection runs is logged exactly once by each logger the verbose level of
\* create_client, or a later add_*_logger call, asked for.
LoggedAsRequested == L!LoggedAsRequested

=============================================================================
