----------------------------- MODULE Relay_proofs -----------------------------
(***************************************************************************)
(* Proofs about Relay, for streams and buffers of any size.                *)
(***************************************************************************)
EXTENDS Relay, TLAPS

USE SizeAssumption DEF Dirs, streamVars, vars

LEMMA TypeInit == Init => TypeOK
<1> SUFFICES ASSUME Init PROVE TypeOK
  OBVIOUS
<1>1. 0 \in 0 .. MaxSent
  OBVIOUS
<1>2. /\ sent \in [Dirs -> 0 .. MaxSent] /\ read \in [Dirs -> 0 .. MaxSent]
      /\ written \in [Dirs -> 0 .. MaxSent]
  BY <1>1, Zenon DEF Init
<1>3. eof \in [Dirs -> BOOLEAN] /\ shut \in [Dirs -> BOOLEAN]
  BY DEF Init
<1> QED
  BY <1>2, <1>3 DEF Init, TypeOK

LEMMA InductiveInit == Init => IInv
BY DEF Init, IInv

\* IInv bounds the counters that no guard bounds.
LEMMA TypeStep ==
  ASSUME TypeOK, IInv, [Next]_vars
  PROVE  TypeOK'
<1> USE DEF TypeOK
<1>1. CASE Signal
  BY <1>1 DEF Signal
<1>2. CASE Connect
  BY <1>2 DEF Connect
<1>3. CASE Observes
  BY <1>3 DEF Observes, Returns
<1>4. CASE ShutsWriter
  BY <1>4 DEF ShutsWriter, Returns
<1>5. ASSUME NEW d \in Dirs, PeerSends(d) PROVE TypeOK'
  BY <1>5 DEF PeerSends
<1>6. ASSUME NEW d \in Dirs, PeerShuts(d) PROVE TypeOK'
  BY <1>6 DEF PeerShuts
<1>7. ASSUME NEW d \in Dirs, PeerResets(d) PROVE TypeOK'
  BY <1>7 DEF PeerResets
<1>8. ASSUME NEW d \in Dirs, CopyReads(d) PROVE TypeOK'
  BY <1>8 DEF CopyReads
<1>9. ASSUME NEW d \in Dirs, CopyWrites(d) PROVE TypeOK'
  BY <1>9 DEF CopyWrites
<1>10. ASSUME NEW d \in Dirs, CopyEnds(d) PROVE TypeOK'
  BY <1>10 DEF CopyEnds
<1>11. CASE UNCHANGED vars
  BY <1>11
<1> QED
  BY <1>1, <1>2, <1>3, <1>4, <1>5, <1>6, <1>7, <1>8, <1>9, <1>10, <1>11 DEF Next

LEMMA InductiveStep ==
  ASSUME TypeOK, IInv, [Next]_vars
  PROVE  IInv'
<1> USE DEF TypeOK, IInv, CopyAtEof
<1>1. CASE Signal
  BY <1>1 DEF Signal
<1>2. CASE Connect
  BY <1>2 DEF Connect
<1>3. CASE Observes
  BY <1>3 DEF Observes, Returns
<1>4. CASE ShutsWriter
  BY <1>4 DEF ShutsWriter, Returns
<1>5. ASSUME NEW d \in Dirs, PeerSends(d) PROVE IInv'
  \* A source that has shut down its half sends nothing more.
  BY <1>5 DEF PeerSends
<1>6. ASSUME NEW d \in Dirs, PeerShuts(d) PROVE IInv'
  BY <1>6 DEF PeerShuts
<1>7. ASSUME NEW d \in Dirs, PeerResets(d) PROVE IInv'
  BY <1>7 DEF PeerResets
<1>8. ASSUME NEW d \in Dirs, CopyReads(d) PROVE IInv'
  BY <1>8 DEF CopyReads
<1>9. ASSUME NEW d \in Dirs, CopyWrites(d) PROVE IInv'
  BY <1>9 DEF CopyWrites
<1>10. ASSUME NEW d \in Dirs, CopyEnds(d) PROVE IInv'
  BY <1>10 DEF CopyEnds
<1>11. CASE UNCHANGED vars
  BY <1>11
<1> QED
  BY <1>1, <1>2, <1>3, <1>4, <1>5, <1>6, <1>7, <1>8, <1>9, <1>10, <1>11 DEF Next

\* The types, and the invariant that they depend on: no counter overtakes the
\* one before it.
THEOREM TypeCorrect == Spec => []TypeOK
<1>1. Init => TypeOK /\ IInv
  BY TypeInit, InductiveInit
<1>2. TypeOK /\ IInv /\ [Next]_vars => (TypeOK /\ IInv)'
  BY TypeStep, InductiveStep
<1> QED
  BY <1>1, <1>2, PTL DEF Spec

\* The copies, their buffers and the end of the task, for every size.
THEOREM Invariant == Spec => []IInv
<1>1. Init => IInv
  BY InductiveInit
<1>2. TypeOK /\ IInv /\ [Next]_vars => IInv'
  BY InductiveStep
<1> QED
  BY <1>1, <1>2, TypeCorrect, PTL DEF Spec

\* A sink is told the end of a stream that it has been given the whole of, or
\* for one of four reasons, with streams of any length and any buffer.
THEOREM EveryEndHasAReason == Spec => []EndHasAReason
<1>1. TypeOK /\ IInv => EndHasAReason
  BY DEF TypeOK, IInv, EndHasAReason, CopyAtEof
<1> QED
  BY <1>1, TypeCorrect, Invariant, PTL

-----------------------------------------------------------------------------
(* The connection as its peers see it.                                     *)

LEMMA DuplexInit == Init => Peers!Init
BY DEF Init, Peers!Init

\* Each step of the task or of a peer is a step of the abstract connection;
\* reading into a buffer and leaving the select! are not seen.
LEMMA DuplexStep ==
  ASSUME TypeOK, IInv, [Next]_vars
  PROVE  [Peers!Next]_Peers!vars
<1> USE DEF TypeOK, Peers!vars
<1>1. CASE Signal
  BY <1>1 DEF Signal, Peers!Next, Peers!Cancel
<1>2. CASE Connect
  BY <1>2 DEF Connect, Peers!Next, Peers!Connect
<1>3. CASE Observes
  BY <1>3 DEF Observes, Returns, Peers!Next, Peers!Close
<1>4. CASE ShutsWriter
  \* The reason that IInv keeps.
  BY <1>4 DEF IInv, CopyAtEof, ShutsWriter, Returns, Peers!Next, Peers!Close, Peers!Complete
<1>5. ASSUME NEW d \in Dirs, PeerSends(d) PROVE Peers!Next
  BY <1>5 DEF PeerSends, PeerThere, Peers!Next, Peers!Send
<1>6. ASSUME NEW d \in Dirs, PeerShuts(d) PROVE Peers!Next
  BY <1>6 DEF PeerShuts, PeerThere, Peers!Next, Peers!Finish
<1>7. ASSUME NEW d \in Dirs, PeerResets(d) PROVE Peers!Next
  BY <1>7 DEF PeerResets, PeerThere, Peers!Next, Peers!Break
<1>8. ASSUME NEW d \in Dirs, CopyReads(d) PROVE UNCHANGED Peers!vars
  BY <1>8 DEF CopyReads
<1>9. ASSUME NEW d \in Dirs, CopyWrites(d) PROVE Peers!Next
  <2>1. written[d] < sent[d]
    \* What is written has been read, and what was read has been sent.
    BY <1>9 DEF IInv, CopyWrites
  <2>2. Peers!Deliver(d)
    BY <1>9, <2>1 DEF CopyWrites, Peers!Deliver
  <2> QED
    BY <2>2 DEF Peers!Next
<1>10. ASSUME NEW d \in Dirs, CopyEnds(d) PROVE UNCHANGED Peers!vars
  BY <1>10 DEF CopyEnds
<1>11. CASE UNCHANGED vars
  BY <1>11
<1> QED
  BY <1>1, <1>2, <1>3, <1>4, <1>5, <1>6, <1>7, <1>8, <1>9, <1>10, <1>11 DEF Next

\* handle_connection implements two streams that end together for a reason.
THEOREM ImplementsDuplex == Spec => DuplexSpec
<1>1. TypeOK /\ IInv /\ [Next]_vars => [Peers!Next]_Peers!vars
  BY DuplexStep
<1> QED
  BY <1>1, DuplexInit, TypeCorrect, Invariant, PTL DEF Spec, DuplexSpec, Peers!Spec
=============================================================================
