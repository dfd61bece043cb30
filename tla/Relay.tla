------------------------------- MODULE Relay -------------------------------
(***************************************************************************)
(* One bridged connection: handle_connection of src/src/bridge.rs, the     *)
(* byte streams it copies and the two peers, the TCP client and the guest. *)
(*                                                                         *)
(* VmHandle sees a connection from outside, as a task that ends; this      *)
(* module looks inside the task, at what has been delivered by then.  A    *)
(* stream is counted in units: how many its peer has sent, how many the    *)
(* copy has read into its buffer, how many it has written to the other     *)
(* side.                                                                   *)
(***************************************************************************)
EXTENDS Naturals

CONSTANTS MaxSent,   \* bound: units a peer sends at most
          BufSize    \* units the buffer of tokio::io::copy holds

ASSUME SizeAssumption == MaxSent \in Nat /\ BufSize \in Nat \ {0}

VARIABLES
  task,     \* the connection task
  cause,    \* which branch of the select! ended it
  signal,   \* the shutdown channel fires (VmHandle, Fires)
  broken,   \* a peer has reset its connection
  sent,     \* units each source has sent
  read,     \* units the copy has read
  written,  \* units the copy has written
  eof,      \* the source has shut down its writing half
  shut      \* the sink has been told the end of the stream

streamVars == <<sent, read, written, eof>>
vars == <<task, cause, signal, broken, streamVars, shut>>

\* "up" is TCP to Unix socket, from the client; "down" is from the guest.
Dirs == {"up", "down"}

Init ==
  /\ task = "connecting"
  /\ cause = "none"
  /\ signal = FALSE
  /\ broken = FALSE
  /\ sent = [d \in Dirs |-> 0]
  /\ read = [d \in Dirs |-> 0]
  /\ written = [d \in Dirs |-> 0]
  /\ eof = [d \in Dirs |-> FALSE]
  /\ shut = [d \in Dirs |-> FALSE]

-----------------------------------------------------------------------------
(* The peers and the handle.                                               *)

\* The client is connected from the start, the guest once the task is.
PeerThere(d) ==
  /\ ~broken
  /\ task # "ended"
  /\ d = "down" => task # "connecting"

PeerSends(d) ==
  /\ PeerThere(d)
  /\ ~eof[d]
  /\ sent[d] < MaxSent
  /\ sent' = [sent EXCEPT ![d] = @ + 1]
  /\ UNCHANGED <<task, cause, signal, broken, read, written, eof, shut>>

\* shutdown(SHUT_WR): the peer has said everything and goes on listening.
PeerShuts(d) ==
  /\ PeerThere(d)
  /\ ~eof[d]
  /\ eof' = [eof EXCEPT ![d] = TRUE]
  /\ UNCHANGED <<task, cause, signal, broken, sent, read, written, shut>>

PeerResets(d) ==
  /\ PeerThere(d)
  /\ broken' = TRUE
  /\ UNCHANGED <<task, cause, signal, streamVars, shut>>

Signal ==
  /\ ~signal
  /\ signal' = TRUE
  /\ UNCHANGED <<task, cause, broken, streamVars, shut>>

-----------------------------------------------------------------------------
(* handle_connection.  An operator named Mutant_... is not part of the     *)
(* model: it is a plausible bug in the definition it precedes.             *)

\* Without the guest the task returns, and drops the stream of the client.
Connect ==
  /\ task = "connecting"
  /\ \/ task' = "relaying" /\ UNCHANGED <<cause, shut>>
     \/ /\ task' = "ended"
        /\ cause' = "connect"
        /\ shut' = [shut EXCEPT !["down"] = TRUE]
  /\ UNCHANGED <<signal, broken, streamVars>>

Mutant_ReadsUnsent(d) ==
  /\ task = "relaying"
  /\ read[d] - written[d] < BufSize
  /\ read' = [read EXCEPT ![d] = @ + 1]
  /\ UNCHANGED <<task, cause, signal, broken, sent, written, eof, shut>>

CopyReads(d) ==
  /\ task = "relaying"
  /\ read[d] < sent[d]
  /\ read[d] - written[d] < BufSize
  /\ read' = [read EXCEPT ![d] = @ + 1]
  /\ UNCHANGED <<task, cause, signal, broken, sent, written, eof, shut>>

Mutant_WritesAfterEnd(d) ==
  /\ task # "connecting"
  /\ written[d] < read[d]
  /\ written' = [written EXCEPT ![d] = @ + 1]
  /\ UNCHANGED <<task, cause, signal, broken, sent, read, eof, shut>>

\* The sink takes a unit; it may refuse to, for any time.
CopyWrites(d) ==
  /\ task = "relaying"
  /\ written[d] < read[d]
  /\ written' = [written EXCEPT ![d] = @ + 1]
  /\ UNCHANGED <<task, cause, signal, broken, sent, read, eof, shut>>

Mutant_EofUnflushed(d) == eof[d] /\ read[d] = sent[d]

\* copy returns Ok: end of file, with the buffer written out.
CopyAtEof(d) == eof[d] /\ read[d] = sent[d] /\ written[d] = read[d]

\* copy returns, with Ok or with an error; the branch goes on to shut down
\* the writer of its direction, and the other copy is dropped.
CopyEnds(d) ==
  /\ task = "relaying"
  /\ CopyAtEof(d) \/ broken
  /\ task' = "shutting"
  /\ cause' = d
  /\ UNCHANGED <<signal, broken, streamVars, shut>>

\* The task returns and drops both streams, what is under way with them: a
\* writer that is dropped is shut down, so that both sinks see an end.
Returns ==
  /\ task' = "ended"
  /\ shut' = [d \in Dirs |-> TRUE]

Mutant_ObservesWhenIdle ==
  /\ task = "relaying"
  /\ signal
  /\ \A d \in Dirs : written[d] = read[d]
  /\ Returns
  /\ cause' = "signal"
  /\ UNCHANGED <<signal, broken, streamVars>>

Observes ==
  /\ task = "relaying"
  /\ signal
  /\ Returns
  /\ cause' = "signal"
  /\ UNCHANGED <<signal, broken, streamVars>>

\* shutdown of the writer whose copy has ended, which its drop would do too.
ShutsWriter ==
  /\ task = "shutting"
  /\ Returns
  /\ UNCHANGED <<cause, signal, broken, streamVars>>

-----------------------------------------------------------------------------
Next ==
  \/ Signal \/ Connect \/ Observes \/ ShutsWriter
  \/ \E d \in Dirs : \/ PeerSends(d) \/ PeerShuts(d) \/ PeerResets(d)
                     \/ CopyReads(d) \/ CopyWrites(d) \/ CopyEnds(d)

Spec == Init /\ [][Next]_vars

\* The runtime polls the task; what the peers do, and whether a sink takes
\* what is written to it, is up to them.
Fairness ==
  /\ WF_vars(Connect)
  /\ WF_vars(Observes)
  /\ WF_vars(ShutsWriter)
  /\ \A d \in Dirs : WF_vars(CopyEnds(d))

FairSpec == Spec /\ Fairness

-----------------------------------------------------------------------------
(* Properties.                                                             *)

TypeOK ==
  /\ task \in {"connecting", "relaying", "shutting", "ended"}
  /\ cause \in Dirs \union {"none", "connect", "signal"}
  /\ signal \in BOOLEAN
  /\ broken \in BOOLEAN
  /\ sent \in [Dirs -> 0 .. MaxSent]
  /\ read \in [Dirs -> 0 .. MaxSent]
  /\ written \in [Dirs -> 0 .. MaxSent]
  /\ eof \in [Dirs -> BOOLEAN]
  /\ shut \in [Dirs -> BOOLEAN]

\* A sink that is told the stream is over has been given all of it, unless a
\* peer has reset its connection, the handle has signalled, the guest was never
\* reached, or the other stream was complete first.
EndHasAReason ==
  \A d \in Dirs :
    shut[d] =>
      \/ eof[d] /\ written[d] = sent[d]
      \/ broken \/ signal \/ cause = "connect"
      \/ cause \in Dirs \ {d} /\ CopyAtEof(cause)

\* What the peers see of the connection is two streams in order that end
\* together, for a reason.
Peers == INSTANCE Duplex WITH
  phase     <- CASE task = "connecting" -> "new"
                 [] task \in {"relaying", "shutting"} -> "open"
                 [] task = "ended" -> "over",
  finished  <- eof,
  delivered <- written,
  cancelled <- signal

DuplexSpec == Peers!Spec

\* The inductive invariant behind them: a copy writes nothing that it has not
\* read and reads nothing that was not sent, its buffer bounds what is under
\* way, and a task that leaves its select! has a reason to.
IInv ==
  /\ \A d \in Dirs :
       /\ written[d] <= read[d] /\ read[d] <= sent[d]
       /\ read[d] - written[d] <= BufSize
       /\ shut[d] => task = "ended"
  /\ task \in {"connecting", "relaying"} => cause = "none"
  /\ task = "shutting" => cause \in Dirs
  /\ task = "ended" => cause # "none"
  /\ cause \in Dirs => CopyAtEof(cause) \/ broken
  /\ cause = "signal" => signal

\* After the signal the connection ends, also with a copy stuck on a sink
\* that takes nothing.
SignalEndsRelay == signal ~> task = "ended"

\* What the doc comment at src/src/bridge.rs:44 says, "bidirectionally copies
\* data between the two streams": unless cut by the signal or by a reset, the
\* connection has carried both streams to the end.  It has not when one side
\* shuts down its writing half before the other has answered.
BothDirectionsDelivered ==
  task = "ended" /\ cause \in Dirs /\ ~broken =>
    \A d \in Dirs : written[d] = sent[d]
=============================================================================
