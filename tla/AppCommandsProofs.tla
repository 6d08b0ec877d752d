-------------------------- MODULE AppCommandsProofs --------------------------
(***************************************************************************)
(* The commands of the application for any texts, any lengths of the       *)
(* queues, any number of sequence numbers and any retries: the types, and  *)
(* that an ACK means what it says when display_task serves its queue       *)
(* within the wait of comm_task.                                           *)
(***************************************************************************)
EXTENDS AppCommands, TLAPS, SequenceTheorems

Seqs == 0 .. SeqRange - 1
Results == [seq : Seqs, kind : Kinds, ok : BOOLEAN]
Tasks == [frame : Frames, retries : 0 .. Retries]
Elems(q) == {q[i] : i \in DOMAIN q}

\* What is of one command: kind and number are all that a result tells of it.
Match(f, kind, seq) == f.kind = kind /\ f.seq = seq
None(q, kind, seq) == \A i \in DOMAIN q : ~ Match(q[i], kind, seq)
Once(q, kind, seq) == \A i, j \in DOMAIN q :
  Match(q[i], kind, seq) /\ Match(q[j], kind, seq) => i = j

\* Where comm_task is, what it works on, and what storage_task has.
StageInv ==
  /\ comm.at # "idle" => comm.frame \in Frames
  /\ comm.at = "store" => comm.frame.kind = "boot"
  /\ comm.at \in {"store", "disp"} => comm.count = 0
  /\ \A i \in DOMAIN storeQ : storeQ[i].kind = "boot"
  /\ saving # NoFrame => saving \in handled
  /\ \A f \in handled : f.kind = "boot"

\* The frames about: no two of them have one number.
Known == {pending[i].frame : i \in DOMAIN pending} \cup Elems(rx) \cup Elems(dispQ)
  \cup Elems(storeQ) \cup ({comm.frame, saving} \ {NoFrame}) \cup handled
UniqueInv == \A f, g \in Known : f.seq = g.seq => f = g

\* A command that storage_task has not taken up, as no text is, can only have
\* the one result that display_task gives for the one command in its queue; and
\* then comm_task waits for it.
Untold(kind, seq) == kind = "text" \/ \A f \in handled : f.seq # seq
Alone(q, res, c, kind, seq) ==
  /\ Once(q, kind, seq) /\ Once(res, kind, seq)
  /\ None(q, kind, seq) \/ None(res, kind, seq)
  /\ \/ None(q, kind, seq) /\ None(res, kind, seq)
     \/ c.at = "wait" /\ c.count = 0 /\ Match(c.frame, kind, seq)
AloneInv ==
  \A kind \in Kinds, seq \in Seqs :
    Untold(kind, seq) => Alone(dispQ, results, comm, kind, seq)

\* The result of a text is there only while the display manager holds it.
ShownInv ==
  comm.at = "wait" /\ comm.frame.kind = "text"
    /\ ~ None(results, "text", comm.frame.seq) => shown = comm.frame.text

IInv == AppTypeOK /\ StageInv /\ UniqueInv /\ AloneInv /\ ShownInv

-----------------------------------------------------------------------------
(* The operators of the model *)

\* The numbers among the constants.
LEMMA Constants ==
  /\ SeqRange \in Nat \ {0} /\ DispLen \in Nat \ {0} /\ StoreLen \in Nat \ {0}
  /\ ResultLen \in Nat \ {0} /\ Pending \in Nat \ {0} /\ Waiting \in Nat \ {0}
  /\ Retries \in Nat /\ Default \in Texts /\ Lost \notin Texts
  BY CommandAssumption

\* No frame has the kind of NoFrame.
LEMMA NoFrameIsNone == NoFrame \notin Frames
  BY DEF NoFrame, Frames, Kinds

\* The number after one is one again.
LEMMA NextNumber == ASSUME NEW n \in Seqs PROVE (n + 1) % SeqRange \in Seqs
  BY Constants DEF Seqs

\* Putting at the end: what the sequence holds, and of one command how much.
LEMMA Put ==
  ASSUME NEW S, NEW q \in Seq(S), NEW e \in S
  PROVE  /\ Append(q, e) \in Seq(S) /\ Len(Append(q, e)) = Len(q) + 1
         /\ DOMAIN Append(q, e) = 1 .. Len(q) + 1
         /\ \A i \in DOMAIN Append(q, e) :
              Append(q, e)[i] = IF i = Len(q) + 1 THEN e ELSE q[i]
         /\ Elems(Append(q, e)) \subseteq Elems(q) \cup {e}
<1>1. /\ Append(q, e) \in Seq(S) /\ Len(Append(q, e)) = Len(q) + 1
      /\ \A i \in 1 .. Len(q) : Append(q, e)[i] = q[i]
      /\ Append(q, e)[Len(q) + 1] = e
  OBVIOUS
<1>2. DOMAIN Append(q, e) = 1 .. Len(q) + 1 /\ DOMAIN q = 1 .. Len(q) /\ Len(q) \in Nat
  BY <1>1, LenProperties
<1>3. \A i \in DOMAIN Append(q, e) :
        Append(q, e)[i] = IF i = Len(q) + 1 THEN e ELSE q[i]
  BY <1>1, <1>2
<1>4. Elems(Append(q, e)) \subseteq Elems(q) \cup {e}
  BY <1>2, <1>3 DEF Elems
<1>5. QED
  BY <1>1, <1>2, <1>3, <1>4

\* Taking from the front.
LEMMA Take ==
  ASSUME NEW S, NEW q \in Seq(S), q # <<>>
  PROVE  /\ Head(q) \in S /\ Tail(q) \in Seq(S) /\ Len(Tail(q)) = Len(q) - 1
         /\ Len(q) \in Nat \ {0} /\ 1 \in DOMAIN q /\ Head(q) = q[1]
         /\ \A i \in DOMAIN Tail(q) : i + 1 \in DOMAIN q /\ i \in Nat \ {0} /\ Tail(q)[i] = q[i + 1]
         /\ Elems(Tail(q)) \subseteq Elems(q) /\ Head(q) \in Elems(q)
<1>1. /\ Head(q) \in S /\ Tail(q) \in Seq(S) /\ Len(Tail(q)) = Len(q) - 1
      /\ \A i \in 1 .. Len(Tail(q)) : Tail(q)[i] = q[i + 1]
  BY HeadTailProperties
<1>2. Len(q) \in Nat \ {0} /\ DOMAIN q = 1 .. Len(q) /\ DOMAIN Tail(q) = 1 .. Len(q) - 1
  BY <1>1, EmptySeq, LenProperties
<1>3. Head(q) = q[1]
  OBVIOUS
<1>4. \A i \in DOMAIN Tail(q) : i + 1 \in DOMAIN q /\ i \in Nat \ {0} /\ Tail(q)[i] = q[i + 1]
  BY <1>1, <1>2
<1>5. Elems(Tail(q)) \subseteq Elems(q)
  BY <1>4 DEF Elems
<1>6. QED
  BY <1>1, <1>2, <1>3, <1>4, <1>5 DEF Elems

LEMMA PutCounts ==
  ASSUME NEW S, NEW q \in Seq(S), NEW e \in S, NEW kind, NEW seq
  PROVE  /\ None(q, kind, seq) => Once(Append(q, e), kind, seq)
         /\ ~ Match(e, kind, seq) =>
              /\ Once(q, kind, seq) => Once(Append(q, e), kind, seq)
              /\ None(q, kind, seq) => None(Append(q, e), kind, seq)
<1>1. Len(q) \in Nat /\ DOMAIN q = 1 .. Len(q)
  BY LenProperties
<1>2. \A i \in DOMAIN Append(q, e) : i = Len(q) + 1 \/ i \in DOMAIN q
  BY <1>1, Put
<1>3. \A i \in DOMAIN Append(q, e) :
        Match(Append(q, e)[i], kind, seq) =>
          \/ i = Len(q) + 1 /\ Match(e, kind, seq)
          \/ i \in DOMAIN q /\ Match(q[i], kind, seq)
  BY <1>2, Put
<1>4. QED
  BY <1>3 DEF None, Once

LEMMA TakeCounts ==
  ASSUME NEW S, NEW q \in Seq(S), q # <<>>, NEW kind, NEW seq
  PROVE  /\ None(q, kind, seq) => None(Tail(q), kind, seq) /\ ~ Match(Head(q), kind, seq)
         /\ Once(q, kind, seq) => Once(Tail(q), kind, seq)
         /\ Once(q, kind, seq) /\ Match(Head(q), kind, seq) => None(Tail(q), kind, seq)
<1>1. None(q, kind, seq) => None(Tail(q), kind, seq) /\ ~ Match(Head(q), kind, seq)
  BY Take DEF None
<1>2. ASSUME Once(q, kind, seq) PROVE Once(Tail(q), kind, seq)
  <2> SUFFICES ASSUME NEW i \in DOMAIN Tail(q), NEW j \in DOMAIN Tail(q),
                      Match(Tail(q)[i], kind, seq), Match(Tail(q)[j], kind, seq)
               PROVE  i = j
    BY DEF Once
  <2>1. i + 1 = j + 1
    BY <1>2, Take DEF Once
  <2>2. i \in Nat /\ j \in Nat
    BY Take
  <2>3. QED
    BY <2>1, <2>2
<1>3. ASSUME Once(q, kind, seq), Match(Head(q), kind, seq), NEW i \in DOMAIN Tail(q),
             Match(Tail(q)[i], kind, seq)
      PROVE  FALSE
  <2>1. i + 1 = 1
    BY <1>3, Take DEF Once
  <2>2. i \in Nat \ {0}
    BY <1>3, Take
  <2>3. QED
    BY <2>1, <2>2
<1>4. QED
  BY <1>1, <1>2, <1>3 DEF None

\* Leaving one element out.
LEMMA Drop ==
  ASSUME NEW S, NEW q \in Seq(S), NEW i \in DOMAIN q
  PROVE  LET d == SubSeq(q, 1, i - 1) \o SubSeq(q, i + 1, Len(q)) IN
         d \in Seq(S) /\ Elems(d) \subseteq Elems(q)
<1> DEFINE a == SubSeq(q, 1, i - 1)
           b == SubSeq(q, i + 1, Len(q))
<1>1. Len(q) \in Nat /\ DOMAIN q = 1 .. Len(q) /\ i \in 1 .. Len(q)
  BY LenProperties
<1>2. \A k \in 1 .. Len(q) : q[k] \in Elems(q)
  BY <1>1 DEF Elems
<1>3. Elems(q) \subseteq S
  <2>1. \A k \in DOMAIN q : q[k] \in S
    BY <1>1, ElementOfSeq
  <2>2. QED
    BY <2>1 DEF Elems
<1>4. a \in Seq(Elems(q))
  <2>1. \A k \in 1 .. i - 1 : q[k] \in Elems(q)
    BY <1>1, <1>2
  <2>2. QED
    BY <1>1, <2>1, SubSeqProperties
<1>5. b \in Seq(Elems(q))
  <2>1. \A k \in i + 1 .. Len(q) : q[k] \in Elems(q)
    BY <1>1, <1>2
  <2>2. i + 1 \in Int /\ Len(q) \in Int
    BY <1>1
  <2>3. QED
    BY <2>1, <2>2, SubSeqProperties
<1> HIDE DEF a, b
<1>6. a \o b \in Seq(Elems(q))
  BY <1>4, <1>5, ConcatProperties
<1>7. \A k \in DOMAIN (a \o b) : (a \o b)[k] \in Elems(q)
  BY <1>6, LenProperties, ElementOfSeq
<1>8. a \o b \in Seq(S)
  BY <1>3, <1>6, SeqMonotonic
<1>9. QED
  BY <1>7, <1>8 DEF Elems, a, b

-----------------------------------------------------------------------------
(* The types *)

LEMMA InitTypes == AppInit => AppTypeOK
  BY Constants DEF AppInit, AppTypeOK, Idle, Seqs

\* What an action leaves of the host's commands.
LEMMA AckTypes ==
  ASSUME AppTypeOK, NEW n, HostAck(n)
  PROVE  /\ pending' \in Seq(Tasks)
         /\ Elems(pending') \subseteq Elems(pending)
<1>1. pending \in Seq(Tasks)
  BY DEF AppTypeOK, Tasks, Seqs
<1>2. CASE UNCHANGED pending
  BY <1>1, <1>2
<1>3. CASE \E i \in DOMAIN pending :
             pending' = SubSeq(pending, 1, i - 1) \o SubSeq(pending, i + 1, Len(pending))
  BY <1>1, <1>3, Drop
<1>4. QED
  BY <1>2, <1>3 DEF HostAck

LEMMA ReportTypes ==
  ASSUME AppTypeOK, NEW f \in Frames, NEW ok \in BOOLEAN, Report(f, ok)
  PROVE  results' \in Seq(Results) /\ Len(results') <= ResultLen
<1>1. results \in Seq(Results) /\ Len(results) <= ResultLen /\ Len(results) \in Nat
  BY LenProperties DEF AppTypeOK, Results, Seqs
<1>2. [seq |-> f.seq, kind |-> f.kind, ok |-> ok] \in Results
  BY DEF Frames, Results, Seqs
<1>3. QED
  BY <1>1, <1>2, Put, Constants DEF Report

LEMMA StepTypes == AppTypeOK /\ StageInv /\ [AppNext]_appVars => AppTypeOK'
<1> SUFFICES ASSUME AppTypeOK, StageInv, [AppNext]_appVars PROVE AppTypeOK'
  OBVIOUS
<1> USE DEF Seqs, Tasks, Results
<1>a. rx \in Seq(Frames) /\ dispQ \in Seq(Frames) /\ storeQ \in Seq(Frames)
      /\ results \in Seq(Results) /\ pending \in Seq(Tasks)
      /\ Len(dispQ) \in Nat /\ Len(storeQ) \in Nat /\ Len(results) \in Nat /\ Len(rx) \in Nat
  BY LenProperties DEF AppTypeOK
<1>b. Idle \in [at : {"idle", "store", "disp", "wait", "ack"},
                frame : Frames \cup {NoFrame}, count : 0..1]
  BY DEF Idle
<1>c. ASSUME NEW f \in Frames, Transmit(f) PROVE rx' \in Seq(Frames)
  <2>1. Append(rx, f) \in Seq(Frames)
    BY <1>a, <1>c, Put
  <2>2. QED
    BY <1>a, <1>c, <2>1 DEF Transmit
<1>1. ASSUME NEW kind \in Kinds, NEW text \in Texts, SendCommand(kind, text) PROVE AppTypeOK'
  <2>1. [kind |-> kind, seq |-> nextSeq, text |-> text] \in Frames
    BY DEF AppTypeOK, Frames
  <2>2. [frame |-> [kind |-> kind, seq |-> nextSeq, text |-> text], retries |-> 0] \in Tasks
    BY <2>1, Constants
  <2>3. pending' \in Seq(Tasks)
    BY <1>1, <1>a, <2>2, Put DEF SendCommand
  <2>4. rx' \in Seq(Frames)
    BY <1>1, <1>c, <2>1 DEF SendCommand
  <2>5. nextSeq' \in Seqs
    BY <1>1, NextNumber DEF SendCommand, AppTypeOK
  <2>6. QED
    BY <1>1, <2>3, <2>4, <2>5 DEF SendCommand, AppTypeOK
<1>2. CASE CheckRetransmit
  <2> DEFINE t == Head(pending)
             u == [t EXCEPT !.retries = @ + 1]
  <2>1. t \in Tasks /\ Tail(pending) \in Seq(Tasks) /\ 1 \in 1 .. Len(pending)
    <3>1. pending # <<>>
      BY <1>2 DEF CheckRetransmit
    <3>2. DOMAIN pending = 1 .. Len(pending)
      BY <1>a, LenProperties
    <3>3. QED
      BY <1>a, <3>1, <3>2, Take
  <2>2. ASSUME ~ t.retries >= Retries PROVE u \in Tasks
    <3>1. t.frame \in Frames /\ t.retries \in 0 .. Retries /\ t.retries + 1 \in 0 .. Retries
      BY <2>1, <2>2, Constants
    <3>2. u = [frame |-> t.frame, retries |-> t.retries + 1]
      BY <2>1
    <3>3. QED
      BY <3>1, <3>2
  <2>3. pending' \in Seq(Tasks)
    <3>1. CASE t.retries >= Retries
      BY <1>2, <2>1, <3>1 DEF CheckRetransmit
    <3>2. CASE ~ t.retries >= Retries
      <4>1. pending' = [pending EXCEPT ![1] = u]
        BY <1>2, <3>2 DEF CheckRetransmit
      <4> HIDE DEF u
      <4>2. QED
        BY <1>a, <2>1, <2>2, <3>2, <4>1, ExceptSeq
    <3>3. QED
      BY <3>1, <3>2
  <2>4. rx' \in Seq(Frames)
    BY <1>2, <1>a, <1>c, <2>1 DEF CheckRetransmit
  <2>5. QED
    BY <1>2, <2>3, <2>4 DEF CheckRetransmit, AppTypeOK, store
<1>3. CASE CommTake
  BY <1>3, <1>a, Take DEF CommTake, AppTypeOK, host, store
<1>4. CASE CommStore
  <2>1. /\ Append(storeQ, comm.frame) \in Seq(Frames)
        /\ Len(Append(storeQ, comm.frame)) = Len(storeQ) + 1
    BY <1>4, <1>a, Put DEF CommStore, StageInv
  <2>2. storeQ' \in Seq(Frames) /\ Len(storeQ') <= StoreLen
    <3>1. CASE Len(storeQ) < StoreLen
      <4>1. storeQ' = Append(storeQ, comm.frame)
        BY <1>4, <3>1 DEF CommStore
      <4>2. QED
        BY <1>a, <2>1, <3>1, <4>1, Constants
    <3>2. CASE ~ Len(storeQ) < StoreLen
      BY <1>4, <1>a, <3>2 DEF CommStore, AppTypeOK
    <3>3. QED
      BY <3>1, <3>2
  <2>3. QED
    BY <1>4, <1>b, <2>2 DEF CommStore, AppTypeOK, host, store, Nak
<1>5. CASE CommDisp
  <2>1. /\ Append(dispQ, comm.frame) \in Seq(Frames)
        /\ Len(Append(dispQ, comm.frame)) = Len(dispQ) + 1
    BY <1>5, <1>a, Put DEF CommDisp, StageInv
  <2>2. dispQ' \in Seq(Frames) /\ Len(dispQ') <= DispLen
    <3>1. CASE Len(dispQ) < DispLen
      <4>1. dispQ' = Append(dispQ, comm.frame)
        BY <1>5, <3>1 DEF CommDisp
      <4>2. QED
        BY <1>a, <2>1, <3>1, <4>1, Constants
    <3>2. CASE ~ Len(dispQ) < DispLen
      BY <1>5, <1>a, <3>2 DEF CommDisp, AppTypeOK
    <3>3. QED
      BY <3>1, <3>2
  <2>3. QED
    BY <1>5, <1>b, <2>2 DEF CommDisp, AppTypeOK, host, store, Nak
<1>6. CASE CommResult
  <2>1. results' \in Seq(Results) /\ Len(results') <= ResultLen
    BY <1>6, <1>a, Take, Constants DEF CommResult, AppTypeOK
  <2>2. comm' \in [at : {"idle", "store", "disp", "wait", "ack"},
                   frame : Frames \cup {NoFrame}, count : 0..1]
    <3>1. comm' = comm \/ comm' = Idle
          \/ comm' = IF comm.count + 1 >= Expected(comm.frame)
                       THEN [comm EXCEPT !.at = "ack"] ELSE [comm EXCEPT !.count = @ + 1]
      BY <1>6 DEF CommResult, Nak
    <3>2. CASE comm.count + 1 >= Expected(comm.frame)
      BY <1>b, <3>1, <3>2 DEF AppTypeOK
    <3>3. CASE ~ comm.count + 1 >= Expected(comm.frame)
      <4>1. comm.count \in 0..1 /\ Expected(comm.frame) <= 2
        BY DEF Expected, AppTypeOK
      <4>2. comm.count + 1 \in 0..1
        <5>1. Expected(comm.frame) \in {1, 2}
          BY DEF Expected
        <5>2. QED
          BY <3>3, <4>1, <5>1
      <4>3. QED
        BY <1>b, <3>1, <3>3, <4>2 DEF AppTypeOK
    <3>4. QED
      BY <3>2, <3>3
  <2>3. QED
    BY <1>6, <2>1, <2>2 DEF CommResult, AppTypeOK, host, store
<1>7. CASE CommExpire
  BY <1>7, <1>b DEF CommExpire, Nak, AppTypeOK, host, store
<1>8. CASE CommAck
  <2>1. pending' \in Seq(Tasks)
    BY <1>8, AckTypes DEF CommAck
  <2>2. QED
    BY <1>8, <1>b, <2>1 DEF CommAck, AppTypeOK, host, store
<1>9. CASE Display
  <2>1. Head(dispQ) \in Frames /\ Tail(dispQ) \in Seq(Frames) /\ Len(Tail(dispQ)) <= DispLen
    BY <1>9, <1>a, Take, Constants DEF Display, AppTypeOK
  <2>2. results' \in Seq(Results) /\ Len(results') <= ResultLen
    BY <1>9, <2>1, ReportTypes DEF Display
  <2>3. shown' \in Texts
    BY <1>9, <2>1 DEF Display, AppTypeOK, Frames
  <2>4. QED
    BY <1>9, <2>1, <2>2, <2>3 DEF Display, AppTypeOK, host, store
<1>10. CASE StoreSame \/ StoreErase
  <2>1. storeQ # <<>> /\ storeQ' = Tail(storeQ)
    BY <1>10 DEF StoreSame, StoreErase
  <2>2. Head(storeQ) \in Frames /\ Tail(storeQ) \in Seq(Frames) /\ Len(Tail(storeQ)) <= StoreLen
    BY <1>a, <2>1, Take, Constants DEF AppTypeOK
  <2>3. results' \in Seq(Results) /\ Len(results') <= ResultLen
    <3>1. \/ UNCHANGED results
          \/ \E ok \in BOOLEAN : Report(Head(storeQ), ok)
      BY <1>10 DEF StoreSame, StoreErase
    <3>2. QED
      BY <1>a, <2>2, <3>1, ReportTypes DEF AppTypeOK
  <2>4. Head(storeQ).text \in Texts
    BY <2>2 DEF Frames
  <2>5. config' \in Texts /\ flash' \in Texts \cup {Lost} /\ saving' \in Frames \cup {NoFrame}
        /\ handled' \subseteq Frames
    BY <1>10, <2>2, <2>4 DEF StoreSame, StoreErase, AppTypeOK
  <2>6. UNCHANGED <<host, rx, comm, dispQ, shown>>
    BY <1>10 DEF StoreSame, StoreErase
  <2>7. QED
    BY <2>1, <2>2, <2>3, <2>5, <2>6 DEF AppTypeOK, host
<1>11. CASE StoreProgram
  <2>1. results' \in Seq(Results) /\ Len(results') <= ResultLen
    <3>1. saving \in Frames
      BY <1>11 DEF StoreProgram, AppTypeOK
    <3>2. QED
      BY <1>11, <3>1, ReportTypes DEF StoreProgram
  <2>2. QED
    BY <1>11, <2>1 DEF StoreProgram, AppTypeOK, host
<1>12. CASE Reset
  <2>1. config' \in Texts
    BY <1>12, Constants DEF Reset, AppTypeOK
  <2>2. QED
    BY <1>12, <1>b, <2>1, EmptySeq, Constants DEF Reset, AppTypeOK, host
<1>13. CASE UNCHANGED appVars
  BY <1>13 DEF appVars, host, store, AppTypeOK
<1>14. QED
  BY <1>1, <1>2, <1>3, <1>4, <1>5, <1>6, <1>7, <1>8, <1>9, <1>10, <1>11, <1>12, <1>13
  DEF AppNext, Comm, Storage

-----------------------------------------------------------------------------
(* The stages, and one frame for each number *)

\* The sequences of frames, once and for all.
LEMMA Queues ==
  ASSUME AppTypeOK
  PROVE  /\ rx \in Seq(Frames) /\ dispQ \in Seq(Frames) /\ storeQ \in Seq(Frames)
         /\ results \in Seq(Results) /\ pending \in Seq(Tasks)
  BY DEF AppTypeOK, Results, Tasks, Seqs

LEMMA StepStages == AppTypeOK /\ StageInv /\ [AppNext]_appVars => StageInv'
<1> SUFFICES ASSUME AppTypeOK, StageInv, [AppNext]_appVars PROVE StageInv'
  OBVIOUS
<1>1. ASSUME NEW kind \in Kinds, NEW text \in Texts, SendCommand(kind, text) PROVE StageInv'
  <2>1. saving # NoFrame => saving.seq # nextSeq
    BY <1>1 DEF SendCommand, InUse
  <2>2. QED
    BY <1>1, <2>1 DEF SendCommand, StageInv
<1>2. CASE CheckRetransmit
  BY <1>2 DEF CheckRetransmit, StageInv, store
<1>3. CASE CommTake
  <2>1. Head(rx) \in Frames
    BY <1>3, Queues, Take DEF CommTake
  <2>2. QED
    BY <1>3, <2>1 DEF CommTake, StageInv, store
<1>4. CASE CommStore
  <2>1. comm' = Idle \/ (comm'.at = "disp" /\ comm'.frame = comm.frame /\ comm'.count = comm.count)
    BY <1>4 DEF CommStore, Nak, AppTypeOK
  <2>2. \A i \in DOMAIN storeQ' : storeQ'[i].kind = "boot"
    <3>1. CASE storeQ' = Append(storeQ, comm.frame)
      BY <1>4, <3>1, Queues, Put DEF CommStore, StageInv
    <3>2. CASE UNCHANGED storeQ
      BY <3>2 DEF StageInv
    <3>3. QED
      BY <1>4, <3>1, <3>2 DEF CommStore
  <2>3. QED
    BY <1>4, <2>1, <2>2 DEF CommStore, StageInv, Idle, store
<1>5. CASE CommDisp
  <2>1. comm' = Idle \/ (comm'.at = "wait" /\ comm'.frame = comm.frame)
    BY <1>5 DEF CommDisp, Nak, AppTypeOK
  <2>2. QED
    BY <1>5, <2>1 DEF CommDisp, StageInv, Idle, store
<1>6. CASE CommResult
  <2>1. comm' = Idle \/ (comm'.at \in {"wait", "ack"} /\ comm'.frame = comm.frame)
    BY <1>6 DEF CommResult, Nak, AppTypeOK
  <2>2. QED
    BY <1>6, <2>1 DEF CommResult, StageInv, Idle, store
<1>7. CASE CommExpire \/ CommAck
  <2>1. comm' = Idle /\ UNCHANGED <<storeQ, saving, handled>>
    BY <1>7 DEF CommExpire, CommAck, Nak, store
  <2>2. QED
    BY <2>1 DEF StageInv, Idle
<1>8. CASE Display
  BY <1>8 DEF Display, StageInv, store
<1>9. CASE StoreSame \/ StoreErase
  <2>1. /\ storeQ # <<>> /\ storeQ' = Tail(storeQ) /\ UNCHANGED comm
        /\ handled' = handled \cup {Head(storeQ)}
        /\ saving' \in {saving, Head(storeQ)}
    BY <1>9 DEF StoreSame, StoreErase
  <2>2. \A i \in DOMAIN storeQ' : storeQ'[i].kind = "boot"
    BY <2>1, Queues, Take DEF StageInv
  <2>3. Head(storeQ).kind = "boot"
    BY <2>1, Queues, Take DEF StageInv
  <2>4. QED
    BY <2>1, <2>2, <2>3 DEF StageInv
<1>10. CASE StoreProgram
  BY <1>10 DEF StoreProgram, StageInv
<1>11. CASE Reset
  BY <1>11 DEF Reset, StageInv, Idle
<1>12. CASE UNCHANGED appVars
  BY <1>12 DEF appVars, store, StageInv
<1>13. QED
  BY <1>1, <1>2, <1>3, <1>4, <1>5, <1>6, <1>7, <1>8, <1>9, <1>10, <1>11, <1>12
  DEF AppNext, Comm, Storage

\* Every step but a new command leaves a part of the frames about.
LEMMA KnownShrinks ==
  ASSUME AppTypeOK, StageInv,
         CheckRetransmit \/ Comm \/ Display \/ Storage \/ Reset
  PROVE  Known' \subseteq Known
<1>a. /\ Elems(rx) \cup Elems(dispQ) \cup Elems(storeQ) \subseteq Known
      /\ {pending[i].frame : i \in DOMAIN pending} = {e.frame : e \in Elems(pending)}
  BY DEF Known, Elems
<1>b. /\ comm.frame # NoFrame => comm.frame \in Known
      /\ saving # NoFrame => saving \in Known
      /\ handled \subseteq Known
  BY DEF Known
<1>c. ASSUME NEW f \in Known, Transmit(f) PROVE Elems(rx') \subseteq Known
  <2>1. CASE rx' = Append(rx, f)
    <3>1. rx \in Seq(Frames \cup {f})
      BY Queues
    <3>2. Elems(Append(rx, f)) \subseteq Elems(rx) \cup {f}
      BY <3>1, Put
    <3>3. Elems(rx') \subseteq Elems(rx) \cup {f}
      BY <2>1, <3>2 DEF Elems
    <3>4. QED
      BY <1>a, <1>c, <3>3
  <2>2. CASE UNCHANGED rx
    BY <1>a, <2>2 DEF Elems
  <2>3. QED
    BY <1>c, <2>1, <2>2 DEF Transmit
<1>1. CASE CheckRetransmit
  <2> DEFINE t == Head(pending)
  <2>1. pending # <<>> /\ t \in Tasks /\ t \in Elems(pending)
        /\ Elems(Tail(pending)) \subseteq Elems(pending) /\ 1 \in 1 .. Len(pending) /\ t = pending[1]
    <3>1. pending # <<>> /\ DOMAIN pending = 1 .. Len(pending)
      BY <1>1, Queues, LenProperties DEF CheckRetransmit
    <3>2. QED
      BY <3>1, Queues, Take
  <2>2. t.frame \in Known
    BY <1>a, <2>1 DEF Known
  <2>3. Elems(rx') \subseteq Known
    BY <1>1, <1>a, <1>c, <2>2 DEF CheckRetransmit, Elems
  <2>4. {pending'[i].frame : i \in DOMAIN pending'} \subseteq Known
    <3>1. CASE pending' = Tail(pending)
      BY <2>1, <3>1 DEF Known, Elems
    <3>2. CASE pending' = [pending EXCEPT ![1] = [t EXCEPT !.retries = @ + 1]]
      <4>1. [t EXCEPT !.retries = @ + 1].frame = t.frame
        BY <2>1
      <4>2. \A i \in DOMAIN pending' : i \in DOMAIN pending /\ pending'[i].frame = pending[i].frame
        BY <2>1, <3>2, <4>1
      <4>3. QED
        BY <4>2 DEF Known
    <3>3. QED
      BY <1>1, <3>1, <3>2 DEF CheckRetransmit
  <2>5. QED
    BY <1>1, <1>a, <1>b, <2>3, <2>4 DEF CheckRetransmit, store, Known, Elems
<1>2. CASE CommTake
  <2>1. Head(rx) \in Elems(rx) /\ Elems(rx') \subseteq Elems(rx)
    BY <1>2, Queues, Take DEF CommTake
  <2>2. comm'.frame = Head(rx)
    BY <1>2 DEF CommTake
  <2>3. UNCHANGED <<pending, dispQ, storeQ, saving, handled>>
    BY <1>2 DEF CommTake, host, store
  <2>4. QED
    BY <1>a, <2>1, <2>2, <2>3 DEF Known, Elems
<1>3. CASE CommStore \/ CommDisp
  <2>1. comm.frame \in Frames /\ comm.frame \in Known
    BY <1>3, <1>b, NoFrameIsNone DEF CommStore, CommDisp, StageInv
  <2>2. comm'.frame \in {comm.frame, NoFrame}
    BY <1>3 DEF CommStore, CommDisp, Nak, Idle, AppTypeOK
  <2>3. Elems(storeQ') \subseteq Known
    <3>1. CASE storeQ' = Append(storeQ, comm.frame)
      <4>1. Elems(Append(storeQ, comm.frame)) \subseteq Elems(storeQ) \cup {comm.frame}
        BY <2>1, Queues, Put
      <4>2. QED
        BY <1>a, <2>1, <3>1, <4>1 DEF Elems
    <3>2. CASE UNCHANGED storeQ
      BY <1>a, <3>2 DEF Elems
    <3>3. QED
      BY <1>3, <3>1, <3>2 DEF CommStore, CommDisp
  <2>4. Elems(dispQ') \subseteq Known
    <3>1. CASE dispQ' = Append(dispQ, comm.frame)
      <4>1. Elems(Append(dispQ, comm.frame)) \subseteq Elems(dispQ) \cup {comm.frame}
        BY <2>1, Queues, Put
      <4>2. QED
        BY <1>a, <2>1, <3>1, <4>1 DEF Elems
    <3>2. CASE UNCHANGED dispQ
      BY <1>a, <3>2 DEF Elems
    <3>3. QED
      BY <1>3, <3>1, <3>2 DEF CommStore, CommDisp
  <2>5. UNCHANGED <<pending, rx, saving, handled>>
    BY <1>3 DEF CommStore, CommDisp, host, store
  <2>6. QED
    BY <1>a, <2>1, <2>2, <2>3, <2>4, <2>5 DEF Known, Elems
<1>4. CASE CommResult \/ CommExpire
  <2>1. comm'.frame \in {comm.frame, NoFrame}
    BY <1>4 DEF CommResult, CommExpire, Nak, Idle, AppTypeOK
  <2>2. UNCHANGED <<pending, rx, dispQ, storeQ, saving, handled>>
    BY <1>4 DEF CommResult, CommExpire, host, store
  <2>3. QED
    BY <2>1, <2>2 DEF Known, Elems
<1>5. CASE CommAck
  <2>1. Elems(pending') \subseteq Elems(pending)
    BY <1>5, AckTypes DEF CommAck
  <2>2. UNCHANGED <<rx, dispQ, storeQ, saving, handled>> /\ comm'.frame = NoFrame
    BY <1>5 DEF CommAck, store, Idle
  <2>3. {pending'[i].frame : i \in DOMAIN pending'} \subseteq Known
    BY <1>a, <2>1 DEF Known, Elems
  <2>4. QED
    BY <2>2, <2>3 DEF Known, Elems
<1>6. CASE Display
  <2>1. Elems(dispQ') \subseteq Elems(dispQ)
    BY <1>6, Queues, Take DEF Display
  <2>2. UNCHANGED <<pending, rx, comm, storeQ, saving, handled>>
    BY <1>6 DEF Display, host, store
  <2>3. QED
    BY <2>1, <2>2 DEF Known, Elems
<1>7. CASE StoreSame \/ StoreErase
  <2>1. /\ storeQ # <<>> /\ storeQ' = Tail(storeQ) /\ UNCHANGED <<pending, rx, comm, dispQ>>
        /\ handled' = handled \cup {Head(storeQ)}
        /\ saving' \in {saving, Head(storeQ)}
    BY <1>7 DEF StoreSame, StoreErase, host
  <2>2. Elems(storeQ') \subseteq Elems(storeQ) /\ Head(storeQ) \in Known
    BY <1>a, <2>1, Queues, Take
  <2>3. QED
    BY <1>b, <2>1, <2>2 DEF Known, Elems
<1>8. CASE StoreProgram
  BY <1>8 DEF StoreProgram, Known, Elems, host
<1>9. CASE Reset
  <2>1. Elems(<<>>) = {}
    BY DEF Elems
  <2>2. QED
    BY <1>9, <2>1 DEF Reset, Known, Elems, Idle, host
<1>10. QED
  BY <1>1, <1>2, <1>3, <1>4, <1>5, <1>6, <1>7, <1>8, <1>9 DEF Comm, Storage

LEMMA StepUnique ==
  ASSUME AppTypeOK, StageInv, UniqueInv, [AppNext]_appVars
  PROVE  UniqueInv'
<1>1. ASSUME NEW kind \in Kinds, NEW text \in Texts, SendCommand(kind, text) PROVE UniqueInv'
  <2> DEFINE f == [kind |-> kind, seq |-> nextSeq, text |-> text]
             Others == {g \in Known : g.seq # nextSeq}
  <2>1. f.seq = nextSeq /\ f \in Frames
    BY DEF Frames, AppTypeOK
  <2>2. \A g \in {pending[i].frame : i \in DOMAIN pending} \cup Elems(rx) \cup Elems(dispQ)
          \cup Elems(storeQ) \cup ({comm.frame, saving} \ {NoFrame}) : g \in Others
    BY <1>1 DEF SendCommand, InUse, Known, Elems
  <2>3. \A g \in handled' : g \in Others
    BY <1>1 DEF SendCommand, Known
  <2>4. \A i \in DOMAIN pending' : pending'[i].frame = f \/ pending'[i].frame \in Others
    <3> DEFINE e == [frame |-> f, retries |-> 0]
    <3>1. pending' = Append(pending, e) /\ e.frame = f /\ e \in Tasks
      BY <1>1, <2>1, Constants DEF SendCommand, Tasks
    <3>2. DOMAIN pending = 1 .. Len(pending) /\ Len(pending) \in Nat
      BY Queues, LenProperties
    <3> HIDE DEF e
    <3>3. \A i \in DOMAIN pending' : pending'[i] = e \/ (i \in DOMAIN pending /\ pending'[i] = pending[i])
      BY <3>1, <3>2, Queues, Put
    <3>4. QED
      BY <2>2, <3>1, <3>3
  <2>5. \A g \in Elems(rx') : g = f \/ g \in Others
    <3>1. UNCHANGED rx \/ rx' = Append(rx, f)
      BY <1>1 DEF SendCommand, Transmit
    <3>2. DOMAIN rx = 1 .. Len(rx) /\ Len(rx) \in Nat
      BY Queues, LenProperties
    <3> HIDE DEF f
    <3>3. \A i \in DOMAIN rx' : rx'[i] = f \/ (i \in DOMAIN rx /\ rx'[i] = rx[i])
      BY <2>1, <3>1, <3>2, Queues, Put
    <3>4. QED
      BY <2>2, <3>3 DEF Elems
  <2>6. UNCHANGED <<dispQ, storeQ, comm, saving>>
    BY <1>1 DEF SendCommand
  <2> HIDE DEF Others, f
  <2>7. \A g \in Known' : g = f \/ g \in Others
    BY <2>2, <2>3, <2>4, <2>5, <2>6 DEF Known, Elems
  <2>8. \A g \in Known' : (g = f /\ g.seq = nextSeq) \/ (g \in Known /\ g.seq # nextSeq)
    BY <2>1, <2>7 DEF Others
  <2>9. QED
    BY <2>8 DEF UniqueInv
<1>2. CASE CheckRetransmit \/ Comm \/ Display \/ Storage \/ Reset
  BY <1>2, KnownShrinks DEF UniqueInv
<1>3. CASE UNCHANGED appVars
  BY <1>3 DEF appVars, host, store, UniqueInv, Known, Elems
<1>4. QED
  BY <1>1, <1>2, <1>3 DEF AppNext

-----------------------------------------------------------------------------
(* One result for a command *)

\* Where there is none of a command, there is one at the most.
LEMMA NoneAlone ==
  ASSUME NEW q, NEW res, NEW c, NEW kind, NEW seq,
         None(q, kind, seq), None(res, kind, seq)
  PROVE  Alone(q, res, c, kind, seq)
  BY DEF None, Once, Alone

LEMMA ReportCounts ==
  ASSUME AppTypeOK, NEW f \in Frames, NEW ok \in BOOLEAN, Report(f, ok), NEW kind, NEW seq
  PROVE  /\ None(results, kind, seq) => Once(results', kind, seq)
         /\ ~ Match(f, kind, seq) =>
              /\ Once(results, kind, seq) => Once(results', kind, seq)
              /\ None(results, kind, seq) => None(results', kind, seq)
<1> DEFINE e == [seq |-> f.seq, kind |-> f.kind, ok |-> ok]
<1>1. e \in Results /\ (Match(e, kind, seq) <=> Match(f, kind, seq))
  BY DEF Frames, Results, Seqs, Match
<1>2. results' = results \/ results' = Append(results, e)
  BY DEF Report
<1> HIDE DEF e
<1>3. CASE results' = results
  BY <1>3 DEF None, Once
<1>4. CASE results' = Append(results, e)
  BY <1>1, <1>4, Queues, PutCounts
<1>5. QED
  BY <1>2, <1>3, <1>4

LEMMA StepAlone ==
  ASSUME AppTypeOK, StageInv, UniqueInv, AloneInv, ShownInv, Prompt, [AppNext]_appVars,
         NEW kind \in Kinds, NEW seq \in Seqs, Untold(kind, seq)'
  PROVE  Alone(dispQ, results, comm, kind, seq)'
<1>a. (\A f \in handled : f \in handled') => Alone(dispQ, results, comm, kind, seq)
  BY DEF Untold, AloneInv
<1>b. ASSUME UNCHANGED handled, comm.at # "wait"
      PROVE  None(dispQ, kind, seq) /\ None(results, kind, seq)
  BY <1>a, <1>b DEF Alone
<1>1. ASSUME NEW k \in Kinds, NEW text \in Texts, SendCommand(k, text)
      PROVE  Alone(dispQ, results, comm, kind, seq)'
  <2>1. UNCHANGED <<dispQ, results, comm>>
    BY <1>1 DEF SendCommand
  <2>2. CASE seq = nextSeq
    <3>1. None(dispQ, kind, seq) /\ None(results, kind, seq)
      BY <1>1, <2>2 DEF SendCommand, InUse, None, Match
    <3>2. QED
      BY <2>1, <3>1, NoneAlone
  <2>3. CASE seq # nextSeq
    <3>1. Untold(kind, seq)
      BY <1>1, <2>3 DEF SendCommand, Untold
    <3>2. QED
      BY <2>1, <3>1 DEF AloneInv
  <2>4. QED
    BY <2>2, <2>3
<1>2. CASE CheckRetransmit
  BY <1>2, <1>a DEF CheckRetransmit, store
<1>3. CASE CommTake \/ CommStore \/ CommAck
  <2>1. UNCHANGED <<dispQ, results, handled>> /\ comm.at # "wait"
    BY <1>3 DEF CommTake, CommStore, CommAck, store
  <2>2. None(dispQ, kind, seq) /\ None(results, kind, seq)
    BY <1>b, <2>1
  <2>3. QED
    BY <2>1, <2>2, NoneAlone
<1>4. CASE CommDisp
  <2>1. UNCHANGED <<results, handled>> /\ comm.at = "disp"
    BY <1>4 DEF CommDisp, store
  <2>2. None(dispQ, kind, seq) /\ None(results, kind, seq)
    BY <1>b, <2>1
  <2>3. CASE dispQ' = Append(dispQ, comm.frame) /\ comm' = [comm EXCEPT !.at = "wait"]
    <3>1. comm.frame \in Frames
      BY <2>1 DEF StageInv
    <3>2. /\ Once(dispQ', kind, seq)
          /\ ~ Match(comm.frame, kind, seq) => None(dispQ', kind, seq)
      BY <2>2, <2>3, <3>1, Queues, PutCounts
    <3>3. comm'.at = "wait" /\ comm'.count = 0 /\ comm'.frame = comm.frame
      BY <2>1, <2>3 DEF StageInv, AppTypeOK
    <3>4. QED
      BY <2>1, <2>2, <3>2, <3>3 DEF Alone, None, Once
  <2>4. CASE UNCHANGED dispQ
    BY <2>1, <2>2, <2>4, NoneAlone
  <2>5. QED
    BY <1>4, <2>3, <2>4 DEF CommDisp
<1>5. CASE CommResult
  <2> DEFINE r == Head(results)
  <2>1. results # <<>> /\ results' = Tail(results) /\ UNCHANGED <<dispQ, handled>>
    BY <1>5 DEF CommResult, store
  <2>2. Alone(dispQ, results, comm, kind, seq)
    BY <1>a, <2>1
  <2>3. /\ None(results, kind, seq) => None(results', kind, seq) /\ ~ Match(r, kind, seq)
        /\ Once(results, kind, seq) => Once(results', kind, seq)
        /\ Once(results, kind, seq) /\ Match(r, kind, seq) => None(results', kind, seq)
    BY <2>1, Queues, TakeCounts
  <2>4. CASE ~ Ours(r)
    <3>1. UNCHANGED comm
      BY <1>5, <2>4 DEF CommResult
    <3>2. QED
      BY <2>1, <2>2, <2>3, <3>1 DEF Alone
  <2>5. CASE Ours(r)
    <3>1. Match(r, kind, seq) <=> Match(comm.frame, kind, seq)
      BY <2>5 DEF Ours, Match
    <3>2. None(dispQ, kind, seq) /\ None(results', kind, seq)
      BY <2>2, <2>3, <3>1 DEF Alone
    <3>3. QED
      BY <2>1, <3>2, NoneAlone
  <2>6. QED
    BY <2>4, <2>5
<1>6. CASE CommExpire
  <2>1. dispQ' = <<>> /\ results' = <<>>
    BY <1>6 DEF CommExpire
  <2>2. None(<<>>, kind, seq)
    BY DEF None
  <2>3. QED
    BY <2>1, <2>2, NoneAlone
<1>7. CASE Display
  <2> DEFINE f == Head(dispQ)
  <2>1. /\ dispQ # <<>> /\ dispQ' = Tail(dispQ) /\ UNCHANGED <<comm, handled>>
        /\ Report(f, TRUE) /\ f \in Frames
    BY <1>7, Queues, Take DEF Display, store
  <2>2. Alone(dispQ, results, comm, kind, seq)
    BY <1>a, <2>1
  <2>3. /\ None(dispQ, kind, seq) => None(dispQ', kind, seq) /\ ~ Match(f, kind, seq)
        /\ Once(dispQ, kind, seq) => Once(dispQ', kind, seq)
        /\ Once(dispQ, kind, seq) /\ Match(f, kind, seq) => None(dispQ', kind, seq)
    BY <2>1, Queues, TakeCounts
  <2>4. /\ None(results, kind, seq) => Once(results', kind, seq)
        /\ ~ Match(f, kind, seq) =>
              /\ Once(results, kind, seq) => Once(results', kind, seq)
              /\ None(results, kind, seq) => None(results', kind, seq)
    BY <2>1, ReportCounts
  <2>5. QED
    BY <2>1, <2>2, <2>3, <2>4 DEF Alone
<1>8. CASE StoreSame \/ StoreErase
  <2> DEFINE f == Head(storeQ)
  <2>1. /\ storeQ # <<>> /\ UNCHANGED <<dispQ, comm>> /\ handled' = handled \cup {f}
        /\ \/ UNCHANGED results
           \/ \E ok \in BOOLEAN : Report(f, ok)
    BY <1>8 DEF StoreSame, StoreErase
  <2>2. f \in Frames /\ f.kind = "boot"
    BY <2>1, Queues, Take DEF StageInv
  <2>3. ~ Match(f, kind, seq)
    BY <2>1, <2>2 DEF Untold, Match
  <2>4. Alone(dispQ, results, comm, kind, seq)
    BY <1>a, <2>1
  <2>5. /\ Once(results, kind, seq) => Once(results', kind, seq)
        /\ None(results, kind, seq) => None(results', kind, seq)
    BY <2>1, <2>2, <2>3, ReportCounts DEF None, Once
  <2>6. QED
    BY <2>1, <2>4, <2>5 DEF Alone
<1>9. CASE StoreProgram
  <2>1. /\ UNCHANGED <<dispQ, comm, handled>> /\ saving \in handled /\ saving \in Frames
        /\ \E ok \in BOOLEAN : Report(saving, ok)
    BY <1>9 DEF StoreProgram, StageInv, AppTypeOK
  <2>2. ~ Match(saving, kind, seq)
    BY <2>1 DEF Untold, Match, StageInv
  <2>3. Alone(dispQ, results, comm, kind, seq)
    BY <1>a, <2>1
  <2>4. /\ Once(results, kind, seq) => Once(results', kind, seq)
        /\ None(results, kind, seq) => None(results', kind, seq)
    BY <2>1, <2>2, ReportCounts
  <2>5. QED
    BY <2>1, <2>3, <2>4 DEF Alone
<1>10. CASE Reset
  <2>1. dispQ' = <<>> /\ results' = <<>>
    BY <1>10 DEF Reset
  <2>2. None(<<>>, kind, seq)
    BY DEF None
  <2>3. QED
    BY <2>1, <2>2, NoneAlone
<1>11. CASE UNCHANGED appVars
  BY <1>11, <1>a DEF appVars, store
<1>12. QED
  BY <1>1, <1>2, <1>3, <1>4, <1>5, <1>6, <1>7, <1>8, <1>9, <1>10, <1>11
  DEF AppNext, Comm, Storage

LEMMA StepShown ==
  ASSUME AppTypeOK, StageInv, UniqueInv, AloneInv, ShownInv, [AppNext]_appVars
  PROVE  ShownInv'
<1> SUFFICES ASSUME comm'.at = "wait", comm'.frame.kind = "text",
                    ~ None(results', "text", comm'.frame.seq)
             PROVE  shown' = comm'.frame.text
  BY DEF ShownInv
<1>1. CASE UNCHANGED <<comm, results, shown>>
  BY <1>1 DEF ShownInv
<1>2. CASE CommTake \/ CommStore \/ CommExpire \/ CommAck \/ Reset
  BY <1>2 DEF CommTake, CommStore, CommExpire, CommAck, Reset, Nak, Idle, AppTypeOK
<1>3. CASE CommDisp
  <2>1. UNCHANGED results /\ comm.at = "disp"
        /\ comm'.frame = comm.frame /\ comm.frame \in Frames
    BY <1>3 DEF CommDisp, Nak, Idle, AppTypeOK, StageInv
  <2>2. Untold("text", comm.frame.seq) /\ comm.frame.seq \in Seqs /\ "text" \in Kinds
    BY <2>1 DEF Untold, Kinds, Frames, Seqs
  <2>3. None(results, "text", comm.frame.seq)
    BY <2>1, <2>2 DEF AloneInv, Alone
  <2>4. QED
    BY <2>1, <2>3
<1>4. CASE CommResult
  <2>1. results # <<>> /\ results' = Tail(results) /\ UNCHANGED shown
    BY <1>4 DEF CommResult
  <2>2. UNCHANGED comm
    BY <1>4 DEF CommResult, Nak, Idle, Expected, AppTypeOK
  <2>3. ~ None(results, "text", comm.frame.seq)
    BY <2>1, <2>2, Queues, TakeCounts
  <2>4. QED
    BY <2>1, <2>2, <2>3 DEF ShownInv
<1>5. CASE Display
  <2> DEFINE f == Head(dispQ)
             n == comm.frame.seq
  <2>1. /\ dispQ # <<>> /\ dispQ' = Tail(dispQ) /\ UNCHANGED comm /\ f \in Frames
        /\ Report(f, TRUE) /\ f \in Elems(dispQ)
        /\ shown' = IF f.kind = "text" THEN f.text ELSE shown
    BY <1>5, Queues, Take DEF Display
  <2>2. CASE f.kind = "text"
    <3>1. Untold("text", f.seq) /\ f.seq \in Seqs /\ "text" \in Kinds /\ Match(f, "text", f.seq)
      BY <2>1, <2>2 DEF Untold, Kinds, Frames, Seqs, Match
    <3>2. ~ None(dispQ, "text", f.seq)
      BY <2>1, <3>1, Queues, TakeCounts
    <3>3. comm.frame.seq = f.seq
      BY <3>1, <3>2 DEF AloneInv, Alone, Match
    <3>4. comm.frame \in Known /\ f \in Known
      BY <2>1, NoFrameIsNone DEF StageInv, Known
    <3>5. comm.frame = f
      BY <3>3, <3>4 DEF UniqueInv
    <3>6. QED
      BY <2>1, <2>2, <3>5
  <2>3. CASE f.kind # "text"
    <3>1. ~ Match(f, "text", n)
      BY <2>3 DEF Match
    <3>2. ~ None(results, "text", n)
      BY <2>1, <3>1, ReportCounts
    <3>3. QED
      BY <2>1, <2>3, <3>2 DEF ShownInv
  <2>4. QED
    BY <2>2, <2>3
<1>6. CASE Storage
  <2> DEFINE n == comm.frame.seq
  <2>1. PICK f \in Frames : /\ f.kind = "boot"
                            /\ UNCHANGED results \/ \E ok \in BOOLEAN : Report(f, ok)
    <3>1. CASE StoreSame \/ StoreErase
      <4>1. storeQ # <<>> /\ (UNCHANGED results \/ \E ok \in BOOLEAN : Report(Head(storeQ), ok))
        BY <3>1 DEF StoreSame, StoreErase
      <4>2. Head(storeQ) \in Frames /\ Head(storeQ).kind = "boot"
        BY <4>1, Queues, Take DEF StageInv
      <4>3. QED
        BY <4>1, <4>2
    <3>2. CASE StoreProgram
      <4>1. saving \in Frames /\ saving.kind = "boot" /\ \E ok \in BOOLEAN : Report(saving, ok)
        BY <3>2 DEF StoreProgram, StageInv, AppTypeOK
      <4>2. QED
        BY <4>1
    <3>3. QED
      BY <1>6, <3>1, <3>2 DEF Storage
  <2>2. UNCHANGED <<comm, shown>>
    BY <1>6 DEF Storage, StoreSame, StoreErase, StoreProgram
  <2>3. ~ Match(f, "text", n)
    BY <2>1 DEF Match
  <2>4. ~ None(results, "text", n)
    BY <2>1, <2>2, <2>3, ReportCounts DEF None
  <2>5. QED
    BY <2>2, <2>4 DEF ShownInv
<1>7. ASSUME NEW k \in Kinds, NEW text \in Texts, SendCommand(k, text)
      PROVE  UNCHANGED <<comm, results, shown>>
  BY <1>7 DEF SendCommand
<1>8. CASE CheckRetransmit
  BY <1>1, <1>8 DEF CheckRetransmit
<1>9. CASE UNCHANGED appVars
  BY <1>1, <1>9 DEF appVars
<1>10. QED
  BY <1>1, <1>2, <1>3, <1>4, <1>5, <1>6, <1>7, <1>8, <1>9 DEF AppNext, Comm

-----------------------------------------------------------------------------
(* The theorems *)

LEMMA InitHolds == AppInit => IInv
<1> SUFFICES ASSUME AppInit PROVE IInv
  OBVIOUS
<1>1. AppTypeOK
  BY InitTypes
<1>2. StageInv /\ UniqueInv /\ ShownInv
  BY DEF AppInit, Idle, StageInv, UniqueInv, ShownInv, Known, Elems
<1>3. AloneInv
  BY DEF AppInit, AloneInv, Alone, None, Once
<1>4. QED
  BY <1>1, <1>2, <1>3 DEF IInv

\* Without any assumption: types, stages, and one frame for each number.
LEMMA Basics == AppSpec => [](AppTypeOK /\ StageInv /\ UniqueInv)
<1>1. AppTypeOK /\ StageInv /\ UniqueInv /\ [AppNext]_appVars
        => (AppTypeOK /\ StageInv /\ UniqueInv)'
  BY StepTypes, StepStages, StepUnique
<1>2. AppInit => AppTypeOK /\ StageInv /\ UniqueInv
  BY InitHolds DEF IInv
<1>3. QED
  BY <1>1, <1>2, PTL DEF AppSpec

\* Every variable keeps its type and every queue its length.
THEOREM AppTypes == AppSpec => []AppTypeOK
  BY Basics, PTL

LEMMA StepHolds == Prompt /\ IInv /\ [AppNext]_appVars => IInv'
<1> SUFFICES ASSUME Prompt, IInv, [AppNext]_appVars PROVE IInv'
  OBVIOUS
<1>1. AppTypeOK' /\ StageInv' /\ UniqueInv' /\ ShownInv'
  BY StepTypes, StepStages, StepUnique, StepShown DEF IInv
<1>2. AloneInv'
  <2> SUFFICES ASSUME NEW kind \in Kinds, NEW seq \in Seqs, Untold(kind, seq)'
               PROVE  Alone(dispQ, results, comm, kind, seq)'
    BY DEF AloneInv
  <2>1. QED
    BY StepAlone DEF IInv
<1>3. QED
  BY <1>1, <1>2 DEF IInv

LEMMA Invariant == Prompt /\ AppSpec => []IInv
<1>1. CASE Prompt
  <2>1. IInv /\ [AppNext]_appVars => IInv'
    BY <1>1, StepHolds
  <2>2. QED
    BY InitHolds, <2>1, PTL DEF AppSpec
<1>2. CASE ~ Prompt
  BY <1>2
<1>3. QED
  BY <1>1, <1>2

\* An ACK is decided on nothing but the last result of the frame in work.
LEMMA AckStep ==
  ASSUME AppTypeOK, AppNext, AckDecided
  PROVE  /\ results # <<>> /\ Match(Head(results), comm.frame.kind, comm.frame.seq)
         /\ comm.count + 1 >= Expected(comm.frame)
<1>a. comm.at = "wait" /\ comm'.at = "ack"
  BY DEF AckDecided
<1>1. ASSUME NEW k \in Kinds, NEW text \in Texts PROVE ~ SendCommand(k, text)
  BY <1>a DEF SendCommand
<1>2. ~ CheckRetransmit /\ ~ Display
  BY <1>a DEF CheckRetransmit, Display
<1>3. ~ CommTake /\ ~ CommStore /\ ~ CommDisp /\ ~ CommAck
  BY <1>a DEF CommTake, CommStore, CommDisp, CommAck
<1>4. ~ CommExpire /\ ~ Reset
  BY <1>a DEF CommExpire, Reset, Nak, Idle
<1>5. ~ Storage
  BY <1>a DEF Storage, StoreSame, StoreErase, StoreProgram
<1>6. CommResult
  BY <1>1, <1>2, <1>3, <1>4, <1>5 DEF AppNext, Comm
<1>7. results # <<>> /\ Ours(Head(results))
  BY <1>6, <1>a DEF CommResult
<1>8. comm.count + 1 >= Expected(comm.frame)
  <2>1. [comm EXCEPT !.count = @ + 1].at = comm.at
    BY DEF AppTypeOK
  <2>2. comm' # [comm EXCEPT !.count = @ + 1]
    BY <1>a, <2>1
  <2>3. comm' # Idle
    BY <1>a DEF Idle
  <2>4. QED
    BY <1>6, <1>7, <2>2, <2>3 DEF CommResult, Nak
<1>9. QED
  BY <1>7, <1>8 DEF Ours, Match

\* If display_task serves its queue within the wait of comm_task, an ACK to a
\* text means that the display manager holds that text.
THEOREM TextAckIsTrue == Prompt /\ AppSpec => TextAckMeansShown
<1>1. IInv /\ [AppNext]_appVars =>
        [AckDecided /\ comm.frame.kind = "text" => shown = comm.frame.text]_appVars
  <2> SUFFICES ASSUME IInv, AppNext, AckDecided, comm.frame.kind = "text"
               PROVE  shown = comm.frame.text
    BY DEF appVars, host, store
  <2>2. results # <<>> /\ Match(Head(results), "text", comm.frame.seq)
    BY AckStep DEF IInv
  <2>3. ~ None(results, "text", comm.frame.seq)
    BY <2>2, Queues, TakeCounts DEF IInv
  <2>4. QED
    BY <2>3 DEF IInv, ShownInv, AckDecided
<1>2. QED
  BY <1>1, Invariant, PTL DEF AppSpec, TextAckMeansShown

\* Under the same condition an ACK to a boot text means that storage_task has
\* put that text in RAM.
THEOREM BootAckIsTrue == Prompt /\ AppSpec => BootAckMeansHandled
<1>1. IInv /\ [AppNext]_appVars =>
        [AckDecided /\ comm.frame.kind = "boot" => comm.frame \in handled]_appVars
  <2> SUFFICES ASSUME IInv, AppNext, AckDecided, comm.frame.kind = "boot"
               PROVE  comm.frame \in handled
    BY DEF appVars, host, store
  <2> DEFINE n == comm.frame.seq
  <2>2. /\ results # <<>> /\ Match(Head(results), "boot", n)
        /\ comm.count + 1 >= Expected(comm.frame)
    BY AckStep DEF IInv
  <2>3. comm.count # 0
    BY <2>2 DEF Expected
  <2>4. ~ None(results, "boot", n)
    BY <2>2, Queues, TakeCounts DEF IInv
  <2>5. comm.frame \in Frames /\ "boot" \in Kinds /\ n \in Seqs
    BY DEF IInv, StageInv, AckDecided, Kinds, Frames, Seqs
  <2>6. ~ Untold("boot", n)
    BY <2>3, <2>4, <2>5 DEF IInv, AloneInv, Alone
  <2>7. PICK f \in handled : f.seq = n
    BY <2>6 DEF Untold
  <2>8. f \in Known /\ comm.frame \in Known
    BY <2>5, NoFrameIsNone DEF Known
  <2>9. QED
    BY <2>7, <2>8 DEF IInv, UniqueInv
<1>2. QED
  BY <1>1, Invariant, PTL DEF AppSpec, BootAckMeansHandled
=============================================================================
