--------------------------- MODULE StreamsProofs ---------------------------
(* Machine-checked theorems about the event streams (Streams.tla), for any     *)
(* number of ids, client records, streams and matches.                         *)
EXTENDS Streams, SequenceTheorems, TLAPS

-----------------------------------------------------------------------------
(* What the buffer holds after sendEv, and after one frame has been read. *)
LEMMA EmitType ==
  ASSUME TypeFrames, NEW r \in Record, NEW f \in Frame, Emit(r, f)
  PROVE  TypeFrames'
<1>1. CASE Len(send[r]) < SendCap
  <2>1. send' = [send EXCEPT ![r] = Append(@, f)] /\ lossy' = lossy
    BY <1>1 DEF Emit
  <2>2. Append(send[r], f) \in Seq(Frame) /\ Len(Append(send[r], f)) = Len(send[r]) + 1
    BY AppendProperties DEF TypeFrames
  <2>3. Len(Append(send[r], f)) <= SendCap
    BY <1>1, <2>2, StreamsAssumption, LenProperties DEF TypeFrames
  <2> QED BY <2>1, <2>2, <2>3 DEF TypeFrames
<1>2. CASE ~(Len(send[r]) < SendCap)
  BY <1>2 DEF Emit, TypeFrames
<1> QED BY <1>1, <1>2

LEMMA ReadType ==
  ASSUME TypeFrames, NEW r \in Record, send[r] # <<>>
  PROVE  /\ Head(send[r]) \in Frame
         /\ [send EXCEPT ![r] = Tail(@)] \in [Record -> Seq(Frame)]
         /\ \A q \in Record : Len([send EXCEPT ![r] = Tail(@)][q]) <= SendCap
<1>1. send[r] \in Seq(Frame)
  BY DEF TypeFrames
<1>2. Head(send[r]) \in Frame /\ Tail(send[r]) \in Seq(Frame)
      /\ Len(Tail(send[r])) = Len(send[r]) - 1
  BY <1>1, HeadTailProperties
<1>3. Len(send[r]) \in Nat
  BY <1>1, LenProperties
<1> QED BY <1>2, <1>3, StreamsAssumption DEF TypeFrames

LEMMA CollectType ==
  ASSUME TypeRecords, TypeFrames, TypePlay, NEW kept, Collect(kept)
  PROVE  /\ id' \in [Record -> Id \union {None}]
         /\ owner' \in [Record -> Stream \union {None}]
         /\ TypeFrames'
         /\ cmatch' \in [Record -> Match \union {None}]
<1>1. <<>> \in Seq(Frame) /\ Len(<<>>) = 0
  BY EmptySeq
<1> QED BY <1>1, StreamsAssumption DEF Collect, TypeRecords, TypeFrames, TypePlay

(* A stream's handler that has been given a record has one, and no other does. *)
HandlersServe ==
    \A s \in Stream : IF at[s] = "free" THEN serves[s] = None ELSE serves[s] \in Record

StreamsType == TypeOK /\ HandlersServe

LEMMA StreamsTypeInit == Init => StreamsType
<1>1. <<>> \in Seq(Frame) /\ Len(<<>>) = 0
  BY EmptySeq
<1> QED BY <1>1, StreamsAssumption DEF Init, StreamsType, TypeOK, TypeRecords, TypeFrames, TypePlay,
     TypeStreams, TypeMatches, HandlersServe, At, Stage

LEMMA CloseType ==
  ASSUME StreamsType, NEW s \in Stream, Close(s), UNCHANGED <<clients, alive, seat>>
  PROVE  TypeRecords' /\ TypeFrames' /\ TypePlay' /\ TypeStreams' /\ HandlersServe'
<1>1. Collect(Kept(serves', sides))
  BY DEF Close
<1>2. /\ id' \in [Record -> Id \union {None}]
      /\ owner' \in [Record -> Stream \union {None}]
      /\ TypeFrames'
      /\ cmatch' \in [Record -> Match \union {None}]
  BY <1>1, CollectType DEF StreamsType, TypeOK
<1>3. TypeStreams' /\ HandlersServe'
  BY DEF StreamsType, TypeOK, TypeStreams, HandlersServe, Close, At
<1> QED BY <1>2, <1>3 DEF StreamsType, TypeOK, TypeRecords, TypePlay

LEMMA MakeMatchType ==
  ASSUME StreamsType, NEW m \in Match, NEW group \in SUBSET Record, MakeMatch(m, group)
  PROVE  StreamsType'
<1> USE DEF StreamsType, TypeOK
<1>1. TypeMatches'
  BY DEF MakeMatch, StartsUnlessDown, streams, TypeMatches, Stage
<1>2. TypePlay'
  BY DEF MakeMatch, TypePlay
<1> QED
  BY <1>1, <1>2 DEF MakeMatch, records, frames, streams, TypeRecords, TypeFrames, TypeStreams,
     HandlersServe

LEMMA StreamsTypeStep == StreamsType /\ [Next]_vars => StreamsType'
<1> SUFFICES ASSUME StreamsType, [Next]_vars PROVE StreamsType'
  OBVIOUS
<1> USE DEF StreamsType, TypeOK
<1>1. ASSUME NEW s \in Stream, Handler(s) PROVE StreamsType'
  <2>1. CASE Begin(s)
    BY <2>1 DEF Begin, frames, play, matches, TypeRecords, TypeFrames, TypePlay, TypeStreams,
       TypeMatches, HandlersServe, At
  <2>2. CASE Snapshot(s)
    BY <2>2 DEF Snapshot, records, play, matches, TypeRecords, TypeFrames, TypePlay, TypeStreams,
       TypeMatches, HandlersServe, At, Frame
  <2>3. CASE Flush(s)
    <3>1. serves[s] \in Record /\ send[serves[s]] # <<>>
      BY <2>3 DEF Flush, HandlersServe
    <3>2. TypeFrames' /\ Head(send[serves[s]]) \in Frame
      BY <2>3, <3>1, ReadType DEF Flush, TypeFrames
    <3>3. TypeStreams'
      BY <2>3, <3>2 DEF Flush, TypeStreams
    <3> QED BY <2>3, <3>2, <3>3 DEF Flush, records, play, matches, TypeRecords, TypePlay,
               TypeMatches, HandlersServe
  <2>4. CASE CheckOwner(s)
    <3>1. CASE Owns(s)
      BY <2>4, <3>1 DEF CheckOwner, frames, matches, TypeRecords, TypeFrames, TypePlay, TypeStreams,
         TypeMatches, HandlersServe, At
    <3>2. CASE ~Owns(s)
      <4>1. Close(s) /\ UNCHANGED <<clients, alive, seat>>
        BY <2>4, <3>2 DEF CheckOwner
      <4> QED BY <2>4, <4>1, CloseType DEF CheckOwner, matches, TypeMatches
    <3> QED BY <3>1, <3>2
  <2>5. CASE Remove(s)
    BY <2>5 DEF Remove, frames, matches, TypeRecords, TypeFrames, TypePlay, TypeStreams,
       TypeMatches, HandlersServe, At
  <2>6. CASE Cancel(s)
    <3>1. /\ id' \in [Record -> Id \union {None}]
          /\ owner' \in [Record -> Stream \union {None}]
          /\ TypeFrames'
          /\ cmatch' \in [Record -> Match \union {None}]
      BY <2>6, CollectType DEF Cancel, Close
    <3>2. TypeStreams' /\ HandlersServe'
      BY <2>6 DEF Cancel, Close, TypeStreams, HandlersServe, At
    <3> QED BY <2>6, <3>1, <3>2 DEF Cancel, matches, TypeRecords, TypePlay, TypeMatches
  <2> QED BY <1>1, <2>1, <2>2, <2>3, <2>4, <2>5, <2>6 DEF Handler
<1>2. ASSUME NEW s \in Stream, PeerGone(s) PROVE StreamsType'
  <2>1. serves[s] \in Record
    BY <1>2 DEF PeerGone, HandlersServe
  <2>2. TypeFrames'
    <3> DEFINE r == serves[s]
    <3>1. \/ send' = send /\ lossy' = lossy
          \/ /\ send[r] # <<>> /\ send' = [send EXCEPT ![r] = Tail(@)]
             /\ lossy' = [lossy EXCEPT ![r] = TRUE]
      BY <1>2 DEF PeerGone, frames
    <3>2. r \in Record /\ TypeFrames
      BY <2>1
    <3> HIDE DEF r
    <3>3. CASE send' = send /\ lossy' = lossy
      BY <3>2, <3>3 DEF TypeFrames
    <3>4. CASE /\ send[r] # <<>> /\ send' = [send EXCEPT ![r] = Tail(@)]
               /\ lossy' = [lossy EXCEPT ![r] = TRUE]
      <4>1. lossy' \in [Record -> BOOLEAN]
        BY <3>2, <3>4 DEF TypeFrames
      <4>2. send' \in [Record -> Seq(Frame)] /\ \A q \in Record : Len(send'[q]) <= SendCap
        BY <3>2, <3>4, ReadType
      <4> QED BY <4>1, <4>2 DEF TypeFrames
    <3> QED BY <3>1, <3>3, <3>4
  <2> QED BY <1>2, <2>2 DEF PeerGone, records, play, matches, TypeRecords, TypePlay, TypeStreams,
             TypeMatches, HandlersServe, At
<1>3. ASSUME NEW s \in Stream, StreamStops(s) PROVE StreamsType'
  BY <1>3 DEF StreamStops, records, frames, play, matches, TypeRecords, TypeFrames, TypePlay,
     TypeStreams, TypeMatches, HandlersServe, At
<1>4. ASSUME NEW s \in Stream, NEW i \in Id, Open(s, i) PROVE StreamsType'
  <2>1. PICK r \in Record : serves' = [serves EXCEPT ![s] = r]
    BY <1>4 DEF Open, TypeRecords
  <2>2. TypeStreams' /\ HandlersServe' /\ TypeMatches'
    BY <1>4, <2>1, StreamsAssumption DEF Open, matches, TypeStreams, TypeMatches, HandlersServe, At
  <2>3. CASE UNCHANGED <<records, frames, play>>
    BY <2>2, <2>3 DEF records, frames, play, TypeRecords, TypeFrames, TypePlay
  <2>4. ASSUME NEW q \in Record, clients' = [clients EXCEPT ![i] = q], Fresh(q, i)
        PROVE  TypeRecords' /\ TypeFrames' /\ TypePlay'
    <3>1. <<>> \in Seq(Frame) /\ Len(<<>>) = 0
      BY EmptySeq
    <3> QED BY <2>4, <3>1, StreamsAssumption DEF Fresh, TypeRecords, TypeFrames, TypePlay
  <2> QED BY <1>4, <2>2, <2>3, <2>4 DEF Open
<1>5. ASSUME NEW r \in Record, TakeSeat(r) PROVE StreamsType'
  BY <1>5 DEF TakeSeat, records, frames, streams, matches, TypeRecords, TypeFrames, TypePlay,
     TypeStreams, TypeMatches, HandlersServe
<1>6. ASSUME NEW m \in Match, NEW r \in Record, Announce(m, r) \/ Tell(m, r) PROVE StreamsType'
  <2>1. TypeFrames'
    BY <1>6, EmitType DEF Announce, Tell, Frame
  <2>2. TypeMatches'
    BY <1>6 DEF Announce, Tell, TypeMatches, Stage
  <2> QED BY <1>6, <2>1, <2>2 DEF Announce, Tell, records, play, streams, TypeRecords, TypePlay,
             TypeStreams, HandlersServe
<1>7. ASSUME NEW m \in Match, NEW r \in Record, Requeue(m, r) PROVE StreamsType'
  BY <1>7 DEF Requeue, records, frames, streams, TypeRecords, TypeFrames, TypePlay, TypeStreams,
     TypeMatches, HandlersServe, Stage
<1>8. ASSUME NEW m \in Match, Finish(m) PROVE StreamsType'
  BY <1>8 DEF Finish, StillIn, records, frames, streams, TypeRecords, TypeFrames, TypePlay,
     TypeStreams, TypeMatches, HandlersServe, Stage
<1>9. ASSUME NEW m \in Match, Gone(m) PROVE StreamsType'
  <2>1. /\ id' \in [Record -> Id \union {None}]
        /\ owner' \in [Record -> Stream \union {None}]
        /\ TypeFrames'
        /\ cmatch' \in [Record -> Match \union {None}]
    BY <1>9, CollectType DEF Gone
  <2> QED BY <1>9, <2>1 DEF Gone, streams, TypeRecords, TypePlay, TypeStreams, TypeMatches,
             HandlersServe, Stage
<1>10. ASSUME NEW m \in Match, Return(m) \/ HandshakeFails(m) PROVE StreamsType'
  <2>1. TypeMatches'
    <3>1. CASE Return(m)
      BY <3>1 DEF Return, TypeMatches, Stage
    <3>2. CASE HandshakeFails(m)
      <4>1. \E offers \in SUBSET Record : due' = [due EXCEPT ![m] = offers]
        BY <3>2 DEF HandshakeFails, TypeMatches
      <4> QED BY <3>2, <4>1 DEF HandshakeFails, TypeMatches, Stage
    <3> QED BY <1>10, <3>1, <3>2
  <2> QED BY <1>10, <2>1 DEF Return, HandshakeFails, records, frames, play, streams, TypeRecords,
             TypeFrames, TypePlay, TypeStreams, HandlersServe
<1>11. ASSUME NEW m \in Match, NEW a \in Record, NEW b \in Record, PlayCPU(m, a) \/ Pair(m, a, b)
       PROVE StreamsType'
  BY <1>11, MakeMatchType DEF PlayCPU, Pair
<1>12. CASE StopHub \/ WakeMatches \/ WaitReturns
  BY <1>12 DEF StopHub, WakeMatches, WaitReturns, records, frames, play, streams, matches,
     TypeRecords, TypeFrames, TypePlay, TypeStreams, TypeMatches, HandlersServe
<1>13. CASE UNCHANGED vars
  BY <1>13 DEF vars, records, frames, play, streams, matches, TypeRecords, TypeFrames, TypePlay,
     TypeStreams, TypeMatches, HandlersServe
<1> QED
  BY <1>1, <1>2, <1>3, <1>4, <1>5, <1>6, <1>7, <1>8, <1>9, <1>10, <1>11, <1>12, <1>13
  DEF Next, Run

(* Every stream serves what the registry gave it, and no buffer outgrows its   *)
(* size (handleEvents, sendEv).                                                *)
THEOREM StreamsTypeCorrect == Spec => []TypeOK
<1>1. StreamsType => TypeOK
  BY DEF StreamsType
<1> QED BY <1>1, StreamsTypeInit, StreamsTypeStep, PTL DEF Spec

-----------------------------------------------------------------------------
(* The stop.                                                                   *)

(* A hub that is down starts nothing, and a match that goes on keeps its sides *)
LEMMA DownStartsNothing ==
  ASSUME StreamsType, Down, [Next]_vars
  PROVE  /\ Joined' \subseteq Joined
         /\ \A m \in Joined' : sides'[m] = sides[m]
<1> USE DEF StreamsType, TypeOK, TypeMatches, Joined
<1>1. CASE UNCHANGED matches
  BY <1>1 DEF matches
<1>2. ASSUME NEW m \in Match, NEW group \in SUBSET Record, MakeMatch(m, group)
      PROVE  UNCHANGED <<stage, sides>> \/ (stage'[m] = "free" /\ UNCHANGED stage)
  BY <1>2 DEF MakeMatch, StartsUnlessDown
<1>3. ASSUME NEW m \in Match, NEW group \in SUBSET Record, MakeMatch(m, group)
      PROVE  /\ Joined' \subseteq Joined
             /\ \A k \in Joined' : sides'[k] = sides[k]
  BY <1>2, <1>3 DEF MakeMatch
<1>4. ASSUME NEW m \in Match, NEW r \in Record, Announce(m, r) \/ Tell(m, r) \/ Requeue(m, r)
      PROVE  Joined' \subseteq Joined /\ sides' = sides
  BY <1>4 DEF Announce, Tell, Requeue
<1>5. ASSUME NEW m \in Match, Return(m) \/ HandshakeFails(m) \/ Finish(m)
      PROVE  Joined' \subseteq Joined /\ sides' = sides
  BY <1>5 DEF Return, HandshakeFails, Finish
<1>6. ASSUME NEW m \in Match, Gone(m)
      PROVE  /\ Joined' \subseteq Joined
             /\ \A k \in Joined' : sides'[k] = sides[k]
  BY <1>6 DEF Gone
<1>7. ASSUME NEW s \in Stream, Handler(s) \/ PeerGone(s) \/ StreamStops(s) \/ \E i \in Id : Open(s, i)
      PROVE  UNCHANGED matches
  BY <1>7 DEF Handler, Begin, Snapshot, Flush, CheckOwner, Remove, Cancel, PeerGone, StreamStops,
     Open, matches
<1>8. ASSUME NEW r \in Record, TakeSeat(r)
      PROVE  UNCHANGED matches
  BY <1>8 DEF TakeSeat
<1>9. StopHub \/ WakeMatches \/ WaitReturns \/ UNCHANGED vars => UNCHANGED matches
  BY DEF StopHub, WakeMatches, WaitReturns, vars
<1> QED
  BY <1>1, <1>3, <1>4, <1>5, <1>6, <1>7, <1>8, <1>9 DEF Next, Run, PlayCPU, Pair

(* A cancelled side stays cancelled: only a record nothing refers to is new *)
LEMMA CancelledStays ==
  ASSUME StreamsType, [Next]_vars, NEW m \in Match, NEW r \in sides[m], ~alive[r]
  PROVE  ~alive'[r]
<1> USE DEF StreamsType, TypeOK, TypeMatches, TypeRecords
<1>1. r \in Record
  OBVIOUS
<1>2. ASSUME NEW s \in Stream, NEW i \in Id, Open(s, i)
      PROVE  ~alive'[r]
  <2>1. r \in Kept(serves, sides)
    BY <1>1 DEF Kept
  <2> QED BY <1>1, <1>2, <2>1 DEF Open, Fresh, records
<1>3. ASSUME NEW s \in Stream, Handler(s) \/ PeerGone(s) \/ StreamStops(s)
      PROVE  ~alive'[r]
  BY <1>1, <1>3 DEF Handler, Begin, Snapshot, Flush, CheckOwner, Remove, Cancel, PeerGone, StreamStops,
     records
<1>4. ASSUME NEW k \in Match,
             \/ Return(k) \/ HandshakeFails(k) \/ Run(k)
             \/ \E a, b \in Record : PlayCPU(k, a) \/ Pair(k, a, b)
      PROVE  ~alive'[r]
  BY <1>1, <1>4 DEF Return, HandshakeFails, Run, Announce, Requeue, Tell, Finish, Gone, PlayCPU, Pair,
     MakeMatch, records
<1>5. ASSUME NEW q \in Record, TakeSeat(q)
      PROVE  ~alive'[r]
  BY <1>1, <1>5 DEF TakeSeat, records
<1>6. StopHub \/ WakeMatches \/ WaitReturns \/ UNCHANGED vars => ~alive'[r]
  BY <1>1 DEF StopHub, WakeMatches, WaitReturns, vars, records
<1> QED
  BY <1>2, <1>3, <1>4, <1>5, <1>6 DEF Next

LEMMA StopOnly ==
  ASSUME [Next]_vars
  PROVE  stop' = stop \/ StopHub \/ WakeMatches \/ WaitReturns
BY DEF Next, Handler, Begin, Snapshot, Flush, CheckOwner, Remove, Cancel, PeerGone, StreamStops, Open,
   Run, Return, HandshakeFails, Announce, Requeue, Tell, Finish, Gone, PlayCPU, Pair, MakeMatch,
   TakeSeat, vars

LEMMA AllWokenStep == StreamsType /\ AllWoken /\ [Next]_vars => AllWoken'
<1> SUFFICES ASSUME StreamsType, AllWoken, [Next]_vars, stop' \in {"waiting", "returned"},
                    NEW m \in Joined', NEW r \in sides'[m]
             PROVE  ~alive'[r]
  BY DEF AllWoken
<1>1. CASE WakeMatches
  <2>1. m \in Running /\ r \in sides[m]
    BY <1>1 DEF WakeMatches, matches, Joined, Running
  <2>2. r \in Woken
    BY <2>1 DEF Woken
  <2>3. r \in Record
    BY <2>1 DEF StreamsType, TypeOK, TypeMatches, Running
  <2> QED BY <1>1, <2>2, <2>3 DEF WakeMatches
<1>2. CASE stop \in {"waiting", "returned"}
  <2>1. m \in Joined /\ r \in sides[m]
    BY <1>2, DownStartsNothing DEF Down
  <2>2. ~alive[r] /\ m \in Match
    BY <1>2, <2>1 DEF AllWoken, Joined
  <2> QED BY <2>1, <2>2, CancelledStays
<1> QED
  BY <1>1, <1>2, StopOnly DEF StopHub, WaitReturns

(* Every match Shutdown waits for has been woken, whatever starts, leaves or   *)
(* reconnects around the stop (Shutdown, startMatchLocked).                    *)
THEOREM ShutdownWakesAll == Spec => []AllWoken
<1>1. Init => AllWoken
  BY DEF Init, AllWoken
<1> QED
  BY <1>1, StreamsTypeInit, StreamsTypeStep, AllWokenStep, PTL DEF Spec

(* The WaitGroup only falls once Shutdown waits for it. *)
THEOREM ShutdownAddsNothing == Spec => NothingStartsUnderWait
<1>1. StreamsType /\ [Next]_vars => [(stop \in {"waiting", "returned"}) => Joined' \subseteq Joined]_vars
  <2> SUFFICES ASSUME StreamsType, [Next]_vars, stop \in {"waiting", "returned"}
               PROVE  Joined' \subseteq Joined
    OBVIOUS
  <2> QED BY DownStartsNothing DEF Down
<1> QED
  BY <1>1, StreamsTypeInit, StreamsTypeStep, PTL DEF Spec, NothingStartsUnderWait

-----------------------------------------------------------------------------
(* Nobody stays online for ever.                                               *)

(* The record of a stream that is about to cancel it is no longer registered *)
CancelledAreOut == \A s \in Stream : at[s] = "cancelling" => ~Registered(serves[s])

GhostInv == NoGhost /\ CancelledAreOut

(* Only a stream that opens registers a record, and only one nobody refers to. *)
LEMMA OnlyOpenRegisters ==
  ASSUME StreamsType, [Next]_vars, NEW r \in Record, Registered(r)', ~Registered(r)
  PROVE  /\ r \notin Kept(serves, sides) /\ send'[r] = <<>>
         /\ \E s \in Stream, i \in Id : Open(s, i) /\ serves'[s] = r
<1> USE DEF StreamsType, TypeOK, TypeRecords
<1>1. ASSUME NEW s \in Stream, NEW i \in Id, Open(s, i)
      PROVE  r \notin Kept(serves, sides) /\ serves'[s] = r /\ send'[r] = <<>>
  <2>1. CASE UNCHANGED records
    BY <2>1 DEF records, Registered
  <2>2. CASE \E q \in Record : /\ q \notin Kept(serves, sides)
                               /\ serves' = [serves EXCEPT ![s] = q]
                               /\ clients' = [clients EXCEPT ![i] = q]
                               /\ Fresh(q, i)
    <3> PICK q \in Record : /\ q \notin Kept(serves, sides)
                            /\ serves' = [serves EXCEPT ![s] = q]
                            /\ clients' = [clients EXCEPT ![i] = q]
                            /\ Fresh(q, i)
      BY <2>2
    <3>1. q = r
      BY DEF Registered, Fresh
    <3> QED BY <3>1 DEF TypeStreams, TypeFrames, Fresh
  <2> QED BY <1>1, <2>1, <2>2 DEF Open
<1>2. ASSUME NEW kept, Collect(kept), UNCHANGED clients PROVE FALSE
  BY <1>2 DEF Collect, Registered
<1>3. ASSUME NEW s \in Stream, Handler(s) \/ PeerGone(s) \/ StreamStops(s) PROVE FALSE
  <2>1. CASE Remove(s)
    BY <2>1, StreamsAssumption DEF Remove, Registered
  <2>2. CASE UNCHANGED <<clients, id>>
    BY <2>2 DEF Registered
  <2>3. CASE Close(s) /\ UNCHANGED clients
    BY <1>2, <2>3 DEF Close
  <2> QED BY <1>3, <2>1, <2>2, <2>3 DEF Handler, Begin, Snapshot, Flush, CheckOwner, Cancel, PeerGone,
             StreamStops, records
<1>4. ASSUME NEW m \in Match,
             \/ Return(m) \/ HandshakeFails(m) \/ Run(m)
             \/ \E a, b \in Record : PlayCPU(m, a) \/ Pair(m, a, b)
      PROVE  FALSE
  <2>1. CASE UNCHANGED records
    BY <2>1 DEF records, Registered
  <2>2. CASE Gone(m)
    BY <1>2, <2>2 DEF Gone
  <2> QED BY <1>4, <2>1, <2>2 DEF Return, HandshakeFails, Run, Announce, Requeue, Tell, Finish, PlayCPU,
             Pair, MakeMatch
<1>5. ASSUME UNCHANGED records PROVE FALSE
  BY <1>5 DEF records, Registered
<1> QED
  BY <1>1, <1>3, <1>4, <1>5 DEF Next, TakeSeat, StopHub, WakeMatches, WaitReturns, vars, records, Registered

(* A handler comes to cancel its record by removing it. *)
LEMMA CancelFollowsRemove ==
  ASSUME StreamsType, [Next]_vars, NEW s \in Stream, at'[s] = "cancelling"
  PROVE  serves'[s] = serves[s] /\ (at[s] = "cancelling" \/ Remove(s))
<1> USE DEF StreamsType, TypeOK, TypeStreams
<1>1. ASSUME NEW t \in Stream, Handler(t)
      PROVE  serves'[s] = serves[s] /\ (at[s] = "cancelling" \/ Remove(s))
  BY <1>1 DEF Handler, Begin, Snapshot, Flush, CheckOwner, Remove, Cancel, Close
<1>2. ASSUME NEW t \in Stream, PeerGone(t) \/ StreamStops(t) \/ \E i \in Id : Open(t, i)
      PROVE  serves'[s] = serves[s] /\ at[s] = "cancelling"
  BY <1>2 DEF PeerGone, StreamStops, Open
<1>3. UNCHANGED streams => serves'[s] = serves[s] /\ at[s] = "cancelling"
  BY DEF streams
<1> QED
  BY <1>1, <1>2, <1>3 DEF Next, Run, Return, HandshakeFails, Announce, Requeue, Tell, Finish, Gone,
     PlayCPU, Pair, MakeMatch, TakeSeat, StopHub, WakeMatches, WaitReturns, vars

LEMMA CancelledAreOutStep == StreamsType /\ CancelledAreOut /\ [Next]_vars => CancelledAreOut'
<1> SUFFICES ASSUME StreamsType, CancelledAreOut, [Next]_vars, NEW s \in Stream, at'[s] = "cancelling",
                    Registered(serves[s])'
             PROVE  FALSE
  BY DEF CancelledAreOut
<1>1. serves'[s] = serves[s] /\ (at[s] = "cancelling" \/ Remove(s))
  BY CancelFollowsRemove
<1>2. PICK r \in Record : r = serves[s] /\ r = serves'[s]
  BY <1>1 DEF StreamsType, HandlersServe, Remove
<1>3. Registered(r)' /\ r \in Kept(serves, sides)
  BY <1>2 DEF Kept, Registered
<1>4. Registered(r)
  BY <1>3, OnlyOpenRegisters
<1>5. Remove(s)
  BY <1>1, <1>2, <1>4 DEF CancelledAreOut
<1> QED
  BY <1>2, <1>3, <1>4, <1>5, StreamsAssumption DEF Remove, Registered, StreamsType, TypeOK, TypeRecords

(* A registered record keeps a stream that will remove it. *)
LEMMA NoGhostStep == StreamsType /\ GhostInv /\ [Next]_vars => NoGhost'
<1> SUFFICES ASSUME StreamsType, GhostInv, [Next]_vars, NEW r \in Record, Registered(r)'
             PROVE  \E t \in Stream : serves'[t] = r /\ (at'[t] = "created" \/ owner'[r] = t)
  BY DEF NoGhost
<1> USE DEF StreamsType, TypeOK, TypeRecords, TypeStreams
<1>1. CASE ~Registered(r)
  <2>1. PICK s \in Stream, i \in Id : Open(s, i) /\ serves'[s] = r
    BY <1>1, OnlyOpenRegisters
  <2>2. at'[s] = "created"
    BY <2>1 DEF Open
  <2> QED BY <2>1, <2>2
<1>2. CASE Registered(r)
  <2>1. PICK t \in Stream : serves[t] = r /\ (at[t] = "created" \/ owner[r] = t)
    BY <1>2 DEF GhostInv, NoGhost
  <2>2. at[t] # "free" /\ at[t] # "cancelling"
    BY <1>2, <2>1, StreamsAssumption DEF HandlersServe, GhostInv, CancelledAreOut
  <2>3. ASSUME NEW given, NEW group, Collect(Kept(given, group)) PROVE owner'[r] = owner[r]
    BY <1>2, <2>3 DEF Collect, Kept
  <2> DEFINE Kept1 == serves'[t] = r /\ (at'[t] = "created" \/ owner'[r] = t)
  <2>4. ASSUME NEW s \in Stream, Begin(s)
        PROVE  \E u \in Stream : serves'[u] = r /\ (at'[u] = "created" \/ owner'[r] = u)
    <3>1. CASE serves[s] = r
      BY <2>4, <3>1 DEF Begin
    <3>2. CASE serves[s] # r
      BY <2>1, <2>4, <3>2 DEF Begin
    <3> QED BY <3>1, <3>2
  <2>5. ASSUME NEW s \in Stream,
               Snapshot(s) \/ Flush(s) \/ Remove(s) \/ PeerGone(s) \/ StreamStops(s)
        PROVE  Kept1
    BY <2>1, <2>5 DEF Snapshot, Flush, Remove, PeerGone, StreamStops, records
  <2>6. ASSUME NEW s \in Stream, s # t, Close(s) PROVE Kept1
    BY <2>1, <2>3, <2>6 DEF Close
  <2>7. ASSUME NEW s \in Stream, CheckOwner(s) PROVE Kept1
    <3>1. CASE Owns(s)
      BY <2>1, <2>7, <3>1 DEF CheckOwner
    <3>2. CASE ~Owns(s)
      <4>1. s # t
        BY <2>1, <2>7, <3>2 DEF CheckOwner, Owns
      <4> QED BY <2>6, <2>7, <3>2, <4>1 DEF CheckOwner
    <3> QED BY <3>1, <3>2
  <2>8. ASSUME NEW s \in Stream, Cancel(s) PROVE Kept1
    BY <2>2, <2>6, <2>8 DEF Cancel
  <2>9. ASSUME NEW s \in Stream, NEW i \in Id, Open(s, i) PROVE Kept1
    <3>1. r \in Kept(serves, sides)
      BY <1>2 DEF Kept
    <3>2. s # t /\ owner'[r] = owner[r]
      BY <2>2, <2>9, <3>1 DEF Open, Fresh, records
    <3> QED BY <2>1, <2>9, <3>2 DEF Open
  <2>10. UNCHANGED <<owner, streams>> => Kept1
    BY <2>1 DEF streams
  <2>11. ASSUME NEW m \in Match, Gone(m) PROVE Kept1
    BY <2>1, <2>3, <2>11 DEF Gone, streams
  <2> HIDE DEF Kept1
  <2>12. (\E s \in Stream : Begin(s)) \/ Kept1
    BY <2>5, <2>7, <2>8, <2>9, <2>10, <2>11 DEF Next, Handler, Run, Return, HandshakeFails, Announce,
       Requeue, Tell, Finish, PlayCPU, Pair, MakeMatch, TakeSeat, StopHub, WakeMatches, WaitReturns,
       vars, records
  <2> QED BY <2>4, <2>12 DEF Kept1
<1> QED BY <1>1, <1>2

(* A registered client always has a stream that will remove it, however many   *)
(* streams of one browser overlap and end in whatever order (beginConn,        *)
(* endConn, removeClient).                                                     *)
THEOREM NobodyStaysForever == Spec => []NoGhost
<1>1. Init => GhostInv
  BY StreamsAssumption DEF Init, GhostInv, NoGhost, CancelledAreOut, Registered
<1>2. StreamsType /\ GhostInv /\ [Next]_vars => GhostInv'
  BY NoGhostStep, CancelledAreOutStep DEF GhostInv
<1>3. GhostInv => NoGhost
  BY DEF GhostInv
<1> QED
  BY <1>1, <1>2, <1>3, StreamsTypeInit, StreamsTypeStep, PTL DEF Spec

-----------------------------------------------------------------------------
(* Nobody is left in a match that is over.                                     *)

DueAreSides == \A m \in Match : due[m] \subseteq sides[m]

(* A match is live for a side until it ends, or offers the side back. *)
Live(m, r) ==
    /\ r \in sides[m]
    /\ stage[m] \in {"started", "playing"} \/ (stage[m] = "failing" /\ r \in due[m])

(* A client plays the match that is live for it, and waits for no other *)
LiveClaims ==
    \A m \in Match, r \in Record : Registered(r) /\ Live(m, r) => cmatch[r] = m /\ ~seat[r]

(* In a match, or its teardown is on its way *)
Placed(r) == cmatch[r] # None \/ \E m \in Match : stage[m] = "telling" /\ r \in due[m]

LastWord(r) == send[r][Len(send[r])]

(* A match announced last in the buffer is a match the client is placed in *)
AnnouncedArePlaced ==
    \A r \in Record : Registered(r) /\ ~lossy[r] /\ send[r] # <<>> /\ LastWord(r) = "matched" => Placed(r)

PlayInv == DueAreSides /\ LiveClaims /\ AnnouncedArePlaced /\ NoStrandedPlayer

LEMMA DueAreSidesStep == StreamsType /\ DueAreSides /\ [Next]_vars => DueAreSides'
<1> SUFFICES ASSUME StreamsType, DueAreSides, [Next]_vars PROVE DueAreSides'
  OBVIOUS
<1> USE DEF StreamsType, TypeOK, TypeMatches, DueAreSides
<1>1. ASSUME NEW m \in Match, NEW group \in SUBSET Record, MakeMatch(m, group) PROVE DueAreSides'
  BY <1>1 DEF MakeMatch
<1>2. ASSUME NEW m \in Match, NEW r \in Record, Announce(m, r) \/ Tell(m, r) \/ Requeue(m, r)
      PROVE  DueAreSides'
  BY <1>2 DEF Announce, Tell, Requeue
<1>3. ASSUME NEW m \in Match, Return(m) \/ Finish(m) \/ Gone(m) PROVE DueAreSides'
  BY <1>3 DEF Return, Finish, StillIn, Gone
<1>4. ASSUME NEW m \in Match, HandshakeFails(m) PROVE DueAreSides'
  <2>1. PICK offers \in SUBSET sides[m] : due' = [due EXCEPT ![m] = offers]
    BY <1>4 DEF HandshakeFails
  <2> QED BY <1>4, <2>1 DEF HandshakeFails
<1>5. UNCHANGED matches => DueAreSides'
  BY DEF matches
<1> QED
  BY <1>1, <1>2, <1>3, <1>4, <1>5 DEF Next, Handler, Begin, Snapshot, Flush, CheckOwner, Remove, Cancel,
     PeerGone, StreamStops, Open, Run, PlayCPU, Pair, TakeSeat, StopHub, WakeMatches, WaitReturns, vars,
     matches

(* What the steps of streams leave a client that stays registered *)
LEMMA StreamsKeepPlay ==
  ASSUME StreamsType, NEW s \in Stream,
         Handler(s) \/ PeerGone(s) \/ StreamStops(s) \/ \E i \in Id : Open(s, i),
         NEW r \in Record, Registered(r), Registered(r)'
  PROVE  UNCHANGED matches /\ cmatch'[r] = cmatch[r] /\ (seat'[r] => seat[r])
<1> USE DEF StreamsType, TypeOK, TypeRecords, TypePlay
<1>1. r \in Kept(serves, sides) /\ \A given : r \in Kept(given, sides)
  BY DEF Kept
<1>2. CASE Remove(s)
  <2>1. r # serves[s]
    BY <1>2, StreamsAssumption DEF Remove, Registered
  <2> QED BY <1>2, <2>1 DEF Remove
<1>3. ASSUME Close(s) PROVE cmatch'[r] = cmatch[r]
  BY <1>1, <1>3 DEF Close, Collect
<1>4. CASE \E i \in Id : Open(s, i)
  BY <1>1, <1>4 DEF Open, Fresh, play
<1> QED
  BY <1>2, <1>3, <1>4 DEF Handler, Begin, Snapshot, Flush, CheckOwner, Cancel, PeerGone, StreamStops, play

LEMMA LiveClaimsStep == StreamsType /\ DueAreSides /\ LiveClaims /\ [Next]_vars => LiveClaims'
<1> SUFFICES ASSUME StreamsType, DueAreSides, LiveClaims, [Next]_vars, NEW k \in Match, NEW r \in Record,
                    Registered(r)', Live(k, r)'
             PROVE  cmatch'[r] = k /\ ~seat'[r]
  BY DEF LiveClaims
<1> USE DEF StreamsType, TypeOK, TypeMatches, TypePlay
<1> DEFINE Goal == cmatch'[r] = k /\ ~seat'[r]
<1>1. CASE ~Registered(r)
  <2>1. r \notin sides'[k]
    BY <1>1, OnlyOpenRegisters DEF Kept, Open, matches
  <2> QED BY <2>1 DEF Live
<1>2. CASE Registered(r)
  <2>1. \A m \in Match : Live(m, r) => cmatch[r] = m /\ ~seat[r]
    BY <1>2 DEF LiveClaims
  <2>2. ASSUME NEW m \in Match, NEW group \in SUBSET Record, MakeMatch(m, group),
               \A q \in group : cmatch[q] = None \/ seat[q]
        PROVE  Goal
    <3>1. CASE k = m
      BY <2>2, <3>1 DEF MakeMatch, Live
    <3>2. CASE k # m
      <4>1. Live(k, r)
        BY <2>2, <3>2 DEF MakeMatch, StartsUnlessDown, Live
      <4>2. r \notin group
        BY <2>1, <2>2, <4>1, StreamsAssumption
      <4> QED BY <2>1, <2>2, <4>1, <4>2 DEF MakeMatch
    <3> QED BY <3>1, <3>2
  <2>3. ASSUME NEW m \in Match, NEW a \in Record, NEW b \in Record, PlayCPU(m, a) \/ Pair(m, a, b)
        PROVE  Goal
    BY <2>2, <2>3 DEF PlayCPU, Pair
  <2>4. ASSUME NEW q \in Record, TakeSeat(q) PROVE Goal
    <3>1. Live(k, r)
      BY <2>4 DEF TakeSeat, matches, Live
    <3> QED BY <2>1, <2>4, <3>1, StreamsAssumption DEF TakeSeat
  <2>5. ASSUME NEW m \in Match, NEW q \in Record, Announce(m, q) \/ Tell(m, q) PROVE Goal
    <3>1. Live(k, r)
      BY <2>5 DEF Announce, Tell, Live
    <3> QED BY <2>1, <2>5, <3>1 DEF Announce, Tell, play
  <2>6. ASSUME NEW m \in Match, NEW q \in Record, Requeue(m, q) PROVE Goal
    <3>1. Live(k, r)
      BY <2>6 DEF Requeue, Live
    <3>2. CASE q = r
      <4>1. Live(m, r)
        BY <2>6, <3>2 DEF Requeue, Live, DueAreSides
      <4>2. m = k
        BY <2>1, <3>1, <4>1
      <4> QED BY <2>6, <3>2, <4>2 DEF Requeue, Live
    <3>3. CASE q # r
      BY <2>1, <2>6, <3>1, <3>3 DEF Requeue
    <3> QED BY <3>2, <3>3
  <2>7. ASSUME NEW m \in Match, Return(m) \/ HandshakeFails(m) PROVE Goal
    <3>1. Live(k, r)
      <4>1. CASE k = m
        <5>1. CASE Return(m)
          BY <4>1, <5>1 DEF Return, Live
        <5>2. CASE HandshakeFails(m)
          <6>1. stage[k] = "playing" /\ sides' = sides
            BY <4>1, <5>2 DEF HandshakeFails
          <6> QED BY <6>1 DEF Live
        <5> QED BY <2>7, <5>1, <5>2
      <4>2. CASE k # m
        <5>1. \E offers : due' = [due EXCEPT ![m] = offers]
          BY <2>7 DEF Return, HandshakeFails
        <5> QED BY <2>7, <4>2, <5>1 DEF Return, HandshakeFails, Live
      <4> QED BY <4>1, <4>2
    <3> QED BY <2>1, <2>7, <3>1 DEF Return, HandshakeFails, play
  <2>8. ASSUME NEW m \in Match, Finish(m) PROVE Goal
    <3>1. Live(k, r) /\ k # m
      BY <2>8 DEF Finish, Live
    <3> QED BY <2>1, <2>8, <3>1 DEF Finish
  <2>9. ASSUME NEW m \in Match, Gone(m) PROVE Goal
    <3>1. Live(k, r) /\ k # m
      BY <2>9 DEF Gone, Live
    <3>2. cmatch'[r] = cmatch[r]
      BY <1>2, <2>9 DEF Gone, Collect, Kept
    <3> QED BY <2>1, <2>9, <3>1, <3>2 DEF Gone
  <2>10. ASSUME NEW s \in Stream, Handler(s) \/ PeerGone(s) \/ StreamStops(s) \/ \E i \in Id : Open(s, i)
         PROVE  Goal
    <3>1. UNCHANGED matches /\ cmatch'[r] = cmatch[r] /\ (seat'[r] => seat[r])
      BY <1>2, <2>10, StreamsKeepPlay
    <3>2. Live(k, r)
      BY <3>1 DEF matches, Live
    <3> QED BY <2>1, <3>1, <3>2
  <2>11. UNCHANGED <<play, matches>> => Goal
    BY <2>1 DEF play, matches, Live
  <2> HIDE DEF Goal
  <2>12. Goal
    BY <2>3, <2>4, <2>5, <2>6, <2>7, <2>8, <2>9, <2>10, <2>11 DEF Next, Run, StopHub, WakeMatches,
       WaitReturns, vars
  <2> QED BY <2>12 DEF Goal
<1> QED BY <1>1, <1>2

Said(r, f) == send'[r] = Append(send[r], f) /\ lossy'[r] = lossy[r]

LEMMA EmitSays ==
  ASSUME TypeFrames, NEW q \in Record, NEW r \in Record, NEW f \in Frame, Emit(q, f)
  PROVE  IF q = r THEN lossy'[r] \/ Said(r, f) ELSE send'[r] = send[r] /\ lossy'[r] = lossy[r]
<1>1. CASE Len(send[q]) < SendCap
  <2>1. send' = [send EXCEPT ![q] = Append(@, f)] /\ lossy' = lossy
    BY <1>1 DEF Emit
  <2> QED BY <2>1 DEF Said, TypeFrames
<1>2. CASE ~(Len(send[q]) < SendCap)
  <2>1. send' = send /\ lossy' = [lossy EXCEPT ![q] = TRUE]
    BY <1>2 DEF Emit
  <2> QED BY <2>1 DEF TypeFrames
<1> QED BY <1>1, <1>2

(* What becomes of a registered client's buffer in a step *)
LEMMA FramesStep ==
  ASSUME StreamsType, [Next]_vars, NEW r \in Record, Registered(r), Registered(r)'
  PROVE  \/ send'[r] = send[r] /\ lossy'[r] = lossy[r]
         \/ lossy'[r]
         \/ \E m \in Match : Announce(m, r) /\ Said(r, "matched")
         \/ Said(r, "idle")
         \/ \E s \in Stream : /\ Flush(s) /\ serves[s] = r /\ owner[r] = s /\ send[r] # <<>>
                              /\ send'[r] = Tail(send[r]) /\ lossy'[r] = lossy[r]
         \/ \E s \in Stream : /\ Snapshot(s) /\ serves[s] = r /\ owner[r] = s /\ send[r] = <<>>
                              /\ send'[r] = <<>>
<1> USE DEF StreamsType, TypeOK, TypeFrames, TypeStreams
<1> DEFINE Stays == send'[r] = send[r] /\ lossy'[r] = lossy[r]
           Read(s) == /\ Flush(s) /\ serves[s] = r /\ owner[r] = s /\ send[r] # <<>>
                      /\ send'[r] = Tail(send[r]) /\ lossy'[r] = lossy[r]
           Anew(s) == /\ Snapshot(s) /\ serves[s] = r /\ owner[r] = s /\ send[r] = <<>>
                      /\ send'[r] = <<>>
<1>1. r \in Kept(serves, sides) /\ \A given : r \in Kept(given, sides)
                                /\ \A group : r \in Kept(serves, group)
  BY DEF Kept
<1>2. ASSUME NEW kept, r \in kept, Collect(kept) PROVE Stays
  BY <1>2 DEF Collect
<1>3. ASSUME NEW s \in Stream, Close(s) PROVE Stays
  BY <1>1, <1>2, <1>3 DEF Close
<1>4. ASSUME NEW s \in Stream, Begin(s) \/ CheckOwner(s) \/ Remove(s) \/ Cancel(s) \/ StreamStops(s)
      PROVE  Stays
  BY <1>3, <1>4 DEF Begin, CheckOwner, Remove, Cancel, StreamStops, frames
<1>5. ASSUME NEW s \in Stream, Snapshot(s) PROVE Stays \/ Anew(s)
  BY <1>5 DEF Snapshot
<1>6. ASSUME NEW s \in Stream, Flush(s) PROVE Stays \/ lossy'[r] \/ Read(s)
  BY <1>6 DEF Flush
<1>7. ASSUME NEW s \in Stream, PeerGone(s) PROVE Stays \/ lossy'[r]
  BY <1>7 DEF PeerGone, frames
<1>8. ASSUME NEW s \in Stream, NEW i \in Id, Open(s, i) PROVE Stays
  BY <1>1, <1>8 DEF Open, Fresh, frames
<1>9. ASSUME NEW q \in Record, NEW f \in Frame, Emit(q, f) PROVE Stays \/ lossy'[r] \/ (q = r /\ Said(r, f))
  BY <1>9, EmitSays
<1>10. ASSUME NEW m \in Match, NEW q \in Record, Announce(m, q)
       PROVE  Stays \/ lossy'[r] \/ (Announce(m, r) /\ Said(r, "matched"))
  <2>1. Stays \/ lossy'[r] \/ (q = r /\ Said(r, "matched"))
    BY <1>9, <1>10 DEF Announce, Frame
  <2> QED BY <1>10, <2>1
<1>11. ASSUME NEW m \in Match, NEW q \in Record, Tell(m, q) PROVE Stays \/ lossy'[r] \/ Said(r, "idle")
  BY <1>9, <1>11 DEF Tell, Frame
<1>12. ASSUME NEW m \in Match, Gone(m) PROVE Stays
  BY <1>1, <1>2, <1>12 DEF Gone
<1>13. UNCHANGED frames => Stays
  BY DEF frames
<1> HIDE DEF Stays, Read, Anew
<1>14. \/ Stays \/ lossy'[r] \/ Said(r, "idle")
       \/ \E m \in Match : Announce(m, r) /\ Said(r, "matched")
       \/ \E s \in Stream : Read(s) \/ Anew(s)
  <2>1. ASSUME NEW s \in Stream, Handler(s) \/ PeerGone(s) \/ StreamStops(s) \/ \E i \in Id : Open(s, i)
        PROVE  Stays \/ lossy'[r] \/ Read(s) \/ Anew(s)
    BY <1>4, <1>5, <1>6, <1>7, <1>8, <2>1 DEF Handler
  <2>2. ASSUME NEW m \in Match, Run(m) PROVE Stays \/ lossy'[r] \/ Said(r, "idle")
                                             \/ (Announce(m, r) /\ Said(r, "matched"))
    <3>1. (\E q \in Record : Requeue(m, q)) \/ Finish(m) => UNCHANGED frames
      BY DEF Requeue, Finish
    <3> QED BY <1>10, <1>11, <1>12, <1>13, <2>2, <3>1 DEF Run
  <2>3. ASSUME NEW m \in Match,
               Return(m) \/ HandshakeFails(m) \/ \E a, b \in Record : PlayCPU(m, a) \/ Pair(m, a, b)
        PROVE  Stays
    BY <1>13, <2>3 DEF Return, HandshakeFails, PlayCPU, Pair, MakeMatch
  <2>4. (\E q \in Record : TakeSeat(q)) \/ StopHub \/ WakeMatches \/ WaitReturns \/ UNCHANGED vars
          => UNCHANGED frames
    BY DEF TakeSeat, StopHub, WakeMatches, WaitReturns, vars
  <2> QED BY <1>13, <2>1, <2>2, <2>3, <2>4 DEF Next
<1> QED BY <1>14 DEF Stays, Read, Anew

(* Who is placed stays placed, until the teardown frame is sent *)
LEMMA PlacedStays ==
  ASSUME StreamsType, [Next]_vars, NEW r \in Record, Registered(r), Registered(r)', Placed(r)
  PROVE  Placed(r)' \/ lossy'[r] \/ Said(r, "idle")
<1> USE DEF StreamsType, TypeOK, TypeMatches, TypePlay
<1> DEFINE Stays == Placed(r)'
<1>1. ASSUME cmatch'[r] = cmatch[r],
             \A m \in Match : stage[m] = "telling" /\ r \in due[m] => stage'[m] = "telling" /\ r \in due'[m]
      PROVE  Stays
  BY <1>1 DEF Placed
<1>2. ASSUME NEW s \in Stream, Handler(s) \/ PeerGone(s) \/ StreamStops(s) \/ \E i \in Id : Open(s, i)
      PROVE  Stays
  BY <1>1, <1>2, StreamsKeepPlay DEF matches
<1>3. ASSUME NEW m \in Match, NEW group \in SUBSET Record, MakeMatch(m, group) PROVE Stays
  <2>1. CASE r \in group
    BY <1>3, <2>1, StreamsAssumption DEF MakeMatch, Placed
  <2>2. CASE r \notin group
    <3>1. \A k \in Match : stage[k] = "telling" => k # m
      BY <1>3 DEF MakeMatch
    <3> QED BY <1>1, <1>3, <2>2, <3>1 DEF MakeMatch, StartsUnlessDown
  <2> QED BY <2>1, <2>2
<1>4. ASSUME NEW m \in Match, NEW q \in Record, Announce(m, q) \/ Requeue(m, q) PROVE Stays
  BY <1>1, <1>4 DEF Announce, Requeue, play
<1>5. ASSUME NEW m \in Match, Return(m) \/ HandshakeFails(m) PROVE Stays
  <2>1. stage[m] # "telling" /\ UNCHANGED play
    BY <1>5 DEF Return, HandshakeFails
  <2>2. \A k \in Match \ {m} : stage'[k] = stage[k] /\ due'[k] = due[k]
    <3>1. (\E offers : due' = [due EXCEPT ![m] = offers]) /\ \E to : stage' = [stage EXCEPT ![m] = to]
      BY <1>5 DEF Return, HandshakeFails
    <3> QED BY <3>1
  <2> QED BY <1>1, <2>1, <2>2 DEF play
<1>6. ASSUME NEW m \in Match, Finish(m) PROVE Stays
  <2>1. CASE r \in sides[m] /\ cmatch[r] = m
    BY <1>6, <2>1 DEF Finish, StillIn, Placed
  <2>2. CASE ~(r \in sides[m] /\ cmatch[r] = m)
    BY <1>1, <1>6, <2>2 DEF Finish
  <2> QED BY <2>1, <2>2
<1>7. ASSUME NEW m \in Match, NEW q \in Record, Tell(m, q)
      PROVE  Stays \/ lossy'[r] \/ Said(r, "idle")
  <2>1. CASE q = r
    BY <1>7, <2>1, EmitSays DEF Tell, Frame
  <2>2. CASE q # r
    BY <1>1, <1>7, <2>2 DEF Tell, play
  <2> QED BY <2>1, <2>2
<1>8. ASSUME NEW m \in Match, Gone(m) PROVE Stays
  <2>1. cmatch'[r] = cmatch[r]
    BY <1>8 DEF Gone, Collect, Kept
  <2> QED BY <1>1, <1>8, <2>1 DEF Gone
<1>9. ASSUME NEW q \in Record, TakeSeat(q) PROVE Stays
  BY <1>1, <1>9 DEF TakeSeat, matches
<1>10. StopHub \/ WakeMatches \/ WaitReturns \/ UNCHANGED vars => Stays
  BY <1>1 DEF StopHub, WakeMatches, WaitReturns, vars, play, matches
<1> HIDE DEF Stays
<1>11. ASSUME NEW m \in Match, \E a, b \in Record : PlayCPU(m, a) \/ Pair(m, a, b) PROVE Stays
  BY <1>3, <1>11 DEF PlayCPU, Pair
<1>12. Stays \/ lossy'[r] \/ Said(r, "idle")
  BY <1>2, <1>4, <1>5, <1>6, <1>7, <1>8, <1>9, <1>10, <1>11 DEF Next, Run
<1> QED BY <1>12 DEF Stays

LEMMA LastWordAppended ==
  ASSUME NEW q \in Seq(Frame), NEW f \in Frame
  PROVE  Append(q, f) # <<>> /\ Append(q, f)[Len(Append(q, f))] = f
<1>1. Len(Append(q, f)) = Len(q) + 1 /\ Append(q, f)[Len(q) + 1] = f
  BY AppendProperties
<1>2. Append(q, f) # <<>>
  BY AppendProperties
<1> QED BY <1>1, <1>2

LEMMA LastWordRead ==
  ASSUME NEW q \in Seq(Frame), q # <<>>
  PROVE  /\ Tail(q) # <<>> => Tail(q)[Len(Tail(q))] = q[Len(q)]
         /\ Tail(q) = <<>> => Head(q) = q[Len(q)]
<1>1. /\ Tail(q) \in Seq(Frame) /\ Len(Tail(q)) = Len(q) - 1 /\ Head(q) = q[1]
      /\ \A i \in 1..Len(Tail(q)) : Tail(q)[i] = q[i + 1]
  BY HeadTailProperties
<1>2. Len(q) \in Nat \ {0} /\ (Tail(q) = <<>> <=> Len(Tail(q)) = 0)
  BY <1>1, EmptySeq, LenProperties
<1> QED BY <1>1, <1>2

LEMMA AnnouncedArePlacedStep == StreamsType /\ PlayInv /\ [Next]_vars => AnnouncedArePlaced'
<1> SUFFICES ASSUME StreamsType, PlayInv, [Next]_vars, NEW r \in Record, Registered(r)', ~lossy'[r],
                    send'[r] # <<>>, send'[r][Len(send'[r])] = "matched"
             PROVE  Placed(r)'
  BY DEF AnnouncedArePlaced, LastWord
<1>1. Registered(r)
  BY OnlyOpenRegisters
<1>2. send[r] \in Seq(Frame)
  BY DEF StreamsType, TypeOK, TypeFrames
<1>3. ~Said(r, "idle")
  BY <1>2, LastWordAppended DEF Said, Frame
<1>4. ASSUME ~lossy[r], send[r] # <<>>, LastWord(r) = "matched" PROVE Placed(r)'
  BY <1>1, <1>3, <1>4, PlacedStays DEF PlayInv, AnnouncedArePlaced
<1>5. CASE send'[r] = send[r] /\ lossy'[r] = lossy[r]
  BY <1>4, <1>5 DEF LastWord
<1>6. ASSUME NEW m \in Match, Announce(m, r) PROVE Placed(r)'
  <2>1. Live(m, r) /\ UNCHANGED play
    BY <1>6 DEF Announce, Live, PlayInv, DueAreSides
  <2> QED BY <1>1, <2>1, StreamsAssumption DEF PlayInv, LiveClaims, Placed, play
<1>7. ASSUME send[r] # <<>>, send'[r] = Tail(send[r]), lossy'[r] = lossy[r] PROVE Placed(r)'
  BY <1>2, <1>4, <1>7, LastWordRead DEF LastWord
<1> QED
  BY <1>1, <1>3, <1>5, <1>6, <1>7, FramesStep

(* How a stream comes to be open, the owner's, and to have heard what it has *)
LEMMA OpenStreamStep ==
  ASSUME StreamsType, [Next]_vars, NEW s \in Stream, at'[s] = "open"
  PROVE  /\ serves'[s] = serves[s] /\ serves[s] \in Record
         /\ Snapshot(s) \/ (at[s] = "open" /\ (Flush(s) \/ view'[s] = view[s]))
<1> USE DEF StreamsType, TypeOK, TypeStreams
<1> DEFINE Goal == /\ serves'[s] = serves[s] /\ at[s] # "free"
                   /\ Snapshot(s) \/ (at[s] = "open" /\ (Flush(s) \/ view'[s] = view[s]))
<1>1. ASSUME NEW t \in Stream, Begin(t) \/ Remove(t) \/ Cancel(t) PROVE Goal
  BY <1>1 DEF Begin, Remove, Cancel, Close
<1>2. ASSUME NEW t \in Stream, Snapshot(t) \/ Flush(t) PROVE Goal
  BY <1>2 DEF Snapshot, Flush
<1>3. ASSUME NEW t \in Stream, CheckOwner(t) PROVE Goal
  BY <1>3 DEF CheckOwner, Close
<1>4. ASSUME NEW t \in Stream, PeerGone(t) \/ StreamStops(t) \/ \E i \in Id : Open(t, i) PROVE Goal
  BY <1>4 DEF PeerGone, StreamStops, Open
<1>5. UNCHANGED streams => Goal
  BY DEF streams
<1> HIDE DEF Goal
<1>6. Goal
  BY <1>1, <1>2, <1>3, <1>4, <1>5 DEF Next, Handler, Run, Return, HandshakeFails, Announce, Requeue, Tell,
     Finish, Gone, PlayCPU, Pair, MakeMatch, TakeSeat, StopHub, WakeMatches, WaitReturns, vars
<1> QED
  BY <1>6 DEF Goal, HandlersServe

LEMMA OwnerStep ==
  ASSUME StreamsType, [Next]_vars, NEW r \in Record, Registered(r), Registered(r)'
  PROVE  owner'[r] = owner[r] \/ at'[owner'[r]] = "begun"
<1> USE DEF StreamsType, TypeOK, TypeStreams, TypeRecords
<1>1. r \in Kept(serves, sides) /\ \A given : r \in Kept(given, sides)
                                /\ \A group : r \in Kept(serves, group)
  BY DEF Kept
<1> DEFINE Stays == owner'[r] = owner[r]
<1>2. ASSUME NEW s \in Stream, Begin(s) PROVE Stays \/ at'[owner'[r]] = "begun"
  BY <1>2 DEF Begin
<1>3. ASSUME NEW kept, r \in kept, Collect(kept) PROVE Stays
  BY <1>3 DEF Collect
<1>4. ASSUME NEW s \in Stream, CheckOwner(s) \/ Cancel(s) PROVE Stays
  <2>1. Close(s) => Stays
    BY <1>1, <1>3 DEF Close
  <2> QED BY <1>4, <2>1 DEF CheckOwner, Cancel
<1>5. ASSUME NEW s \in Stream, NEW i \in Id, Open(s, i) PROVE Stays
  BY <1>1, <1>5 DEF Open, Fresh, records
<1>6. ASSUME NEW m \in Match, Gone(m) PROVE Stays
  BY <1>1, <1>3, <1>6 DEF Gone
<1>7. UNCHANGED owner => Stays
  OBVIOUS
<1> HIDE DEF Stays
<1>8. Stays \/ at'[owner'[r]] = "begun"
  BY <1>2, <1>4, <1>5, <1>6, <1>7 DEF Next, Handler, Snapshot, Flush, Remove, PeerGone, StreamStops, Run,
     Return, HandshakeFails, Announce, Requeue, Tell, Finish, PlayCPU, Pair, MakeMatch, TakeSeat, StopHub,
     WakeMatches, WaitReturns, vars, records
<1> QED BY <1>8 DEF Stays

LEMMA NoStrandedPlayerStep == StreamsType /\ PlayInv /\ [Next]_vars => NoStrandedPlayer'
<1> SUFFICES ASSUME StreamsType, PlayInv, [Next]_vars, NEW s \in Stream, at'[s] = "open",
                    NEW r, r = serves'[s], owner'[r] = s, Registered(r)', ~lossy'[r], send'[r] = <<>>,
                    view'[s] = "matched"
             PROVE  Placed(r)'
  BY DEF NoStrandedPlayer, Placed
<1> USE DEF StreamsType, TypeOK
<1>1. /\ r = serves[s] /\ r \in Record
      /\ Snapshot(s) \/ (at[s] = "open" /\ (Flush(s) \/ view'[s] = view[s]))
  BY OpenStreamStep
<1>2. Registered(r)
  <2>1. at[s] # "free" => r \in Kept(serves, sides)
    BY <1>1 DEF Kept
  <2> QED BY <1>1, <2>1, OnlyOpenRegisters DEF Snapshot
<1>3. owner[r] = s
  BY <1>1, <1>2, OwnerStep
<1>4. send[r] \in Seq(Frame)
  BY <1>1 DEF TypeFrames
<1>5. \A f \in Frame : ~Said(r, f)
  BY <1>4, LastWordAppended DEF Said
<1>6. ASSUME Placed(r) PROVE Placed(r)'
  BY <1>1, <1>2, <1>5, <1>6, PlacedStays DEF Frame
<1>7. CASE Snapshot(s)
  BY <1>1, <1>7 DEF Snapshot, TypeStreams, play, Placed
<1>8. CASE at[s] = "open" /\ Flush(s)
  <2>1. ~lossy[r] /\ send[r] # <<>> /\ Tail(send[r]) = <<>> /\ Head(send[r]) = "matched"
    BY <1>1, <1>8 DEF Flush, TypeFrames, TypeStreams
  <2>2. LastWord(r) = "matched"
    BY <1>4, <2>1, LastWordRead DEF LastWord
  <2> QED BY <1>1, <1>2, <1>6, <2>1, <2>2 DEF PlayInv, AnnouncedArePlaced
<1>9. CASE at[s] = "open" /\ view'[s] = view[s] /\ ~Flush(s)
  <2>1. send[r] = <<>> /\ ~lossy[r]
    <3>1. ~Said(r, "matched") /\ ~Said(r, "idle")
      BY <1>5 DEF Frame
    <3>2. ASSUME NEW t \in Stream, Flush(t) \/ Snapshot(t), owner[r] = t PROVE FALSE
      BY <1>3, <1>9, <3>2 DEF Snapshot
    <3>3. send'[r] = send[r] /\ lossy'[r] = lossy[r]
      BY <1>1, <1>2, <3>1, <3>2, FramesStep
    <3> QED BY <3>3
  <2>2. Placed(r)
    BY <1>1, <1>2, <1>3, <1>9, <2>1 DEF PlayInv, NoStrandedPlayer, Placed
  <2> QED BY <1>6, <2>2
<1> QED BY <1>1, <1>7, <1>8, <1>9

(* No player is left in a match that is over, however matches end, requeue and *)
(* tear down while streams overlap and frames queue up (finishMatch, sendEv,   *)
(* handleEvents).                                                              *)
THEOREM NobodyIsStranded == Spec => []NoStrandedPlayer
<1>1. Init => PlayInv
  BY StreamsAssumption DEF Init, PlayInv, DueAreSides, LiveClaims, Live, AnnouncedArePlaced,
     NoStrandedPlayer, Registered
<1>2. StreamsType /\ PlayInv /\ [Next]_vars => PlayInv'
  BY DueAreSidesStep, LiveClaimsStep, AnnouncedArePlacedStep, NoStrandedPlayerStep DEF PlayInv
<1>3. PlayInv => NoStrandedPlayer
  BY DEF PlayInv
<1> QED
  BY <1>1, <1>2, <1>3, StreamsTypeInit, StreamsTypeStep, PTL DEF Spec
=============================================================================
