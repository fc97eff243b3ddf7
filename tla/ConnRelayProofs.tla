-------------------------- MODULE ConnRelayProofs --------------------------
(***************************************************************************)
(* Theorems about ConnRelay, for every buffer size, socket size and peer   *)
(* behaviour.  The inductive invariant adds to the properties of the runs  *)
(* what the kernel guarantees of a socket (Flow).                          *)
(***************************************************************************)
EXTENDS ConnRelay, TLAPS, SequenceTheorems

Inv ==
    /\ TypeOK
    /\ \A e \in End : Flow(e) /\ InOrder(e)
    /\ BufferIsGap

\* The other end of an end is an end, and not the same.
LEMMA OtherEnd == \A e \in End : Other(e) \in End /\ Other(e) # e /\ Other(Other(e)) = e
BY DEF End, Other

\* What the invariant says of one end, in the terms of arithmetic.
LEMMA EndFacts ==
    ASSUME Inv, NEW e \in End
    PROVE  /\ BUF_SIZE \in Nat /\ SockBuf \in Nat
           /\ readIdx[e] \in Nat /\ readIdx[e] <= BUF_SIZE
           /\ writeIdx[e] \in Nat /\ writeIdx[e] <= BUF_SIZE
           /\ sent[e] \in Nat /\ rcvd[e] \in Nat /\ drained[e] \in Nat
           /\ delivered[e] \in Seq(Nat) /\ Len(delivered[e]) \in Nat
           /\ rcvd[e] <= sent[e] /\ Len(delivered[Other(e)]) <= sent[e]
           /\ drained[e] <= Len(delivered[e])
           /\ Len(delivered[e]) - drained[e] <= SockBuf
           /\ bound => Gap(e)
<1>1. BUF_SIZE \in Nat /\ SockBuf \in Nat  BY RelayAssumption DEF RelayAssumption
<1>2. Flow(e)  BY DEF Inv
<1>3. delivered[e] \in Seq(Nat) /\ Len(delivered[e]) \in Nat  BY DEF Inv, TypeOK
<1>4. readIdx[e] \in 0..BUF_SIZE /\ writeIdx[e] \in 0..BUF_SIZE  BY DEF Inv, TypeOK
<1>5. sent[e] \in Nat /\ rcvd[e] \in Nat /\ drained[e] \in Nat  BY DEF Inv, TypeOK
<1>6. bound => Gap(e)  BY DEF Inv, BufferIsGap
<1> QED  BY <1>1, <1>2, <1>3, <1>4, <1>5, <1>6 DEF Flow

\* recv takes bytes that were sent and leaves the streams written as they are.
LEMMA RecvKeepsFlow ==
    ASSUME Inv, NEW e \in End, Recv(e)
    PROVE  /\ ReadCount(e) \in Nat /\ readIdx[e] + ReadCount(e) <= BUF_SIZE
           /\ rcvd' \in [End -> Nat]
           /\ \A d \in End : Flow(d)' /\ InOrder(d)'
<1> DEFINE n == ReadCount(e)
<1>1. n \in Nat /\ readIdx[e] + n <= BUF_SIZE /\ rcvd[e] + n <= sent[e]
  BY EndFacts DEF ReadCount, Least, Avail
<1>2. /\ rcvd' = [rcvd EXCEPT ![e] = rcvd[e] + n]
      /\ sent' = sent /\ delivered' = delivered /\ drained' = drained
  BY DEF Recv
<1>3. rcvd \in [End -> Nat]  BY DEF Inv, TypeOK
<1> HIDE DEF n
<1>4. rcvd' \in [End -> Nat]
  <2>1. rcvd[e] + n \in Nat  BY <1>1, EndFacts
  <2> QED  BY <1>2, <1>3, <2>1
<1>5. ASSUME NEW d \in End PROVE Flow(d)' /\ InOrder(d)'
  <2>1. rcvd'[d] <= sent'[d]
    BY <1>1, <1>2, <1>3, EndFacts
  <2>2. Flow(d)'  BY <1>2, <2>1, EndFacts DEF Flow
  <2>3. InOrder(d)'  BY <1>2 DEF InOrder, Inv
  <2> QED  BY <2>2, <2>3
<1> QED  BY <1>1, <1>4, <1>5 DEF n

\* recv and the buffer store keep the type and the gap of their direction.
LEMMA StoreKeepsGap ==
    ASSUME Inv, bound, NEW e \in End, Recv(e), Store(e)
    PROVE  /\ readIdx' \in [End -> 0..BUF_SIZE] /\ writeIdx' \in [End -> 0..BUF_SIZE]
           /\ buf' \in [End -> [0..BUF_SIZE-1 -> Nat]]
           /\ \A d \in End : Gap(d)'
<1> DEFINE n == ReadCount(e)
           cell(i) == IF i \in readIdx[e]..readIdx[e] + n - 1
                      THEN rcvd[e] + (i - readIdx[e]) + 1 ELSE buf[e][i]
<1>1. n \in Nat /\ readIdx[e] + n <= BUF_SIZE  BY RecvKeepsFlow
<1>2. /\ rcvd' = [rcvd EXCEPT ![e] = rcvd[e] + n]
      /\ readIdx' = [readIdx EXCEPT ![e] = readIdx[e] + n]
      /\ buf' = [buf EXCEPT ![e] = [i \in 0..BUF_SIZE-1 |-> cell(i)]]
      /\ sent' = sent /\ delivered' = delivered /\ drained' = drained /\ writeIdx' = writeIdx
  BY DEF Recv, Store
<1>3. /\ readIdx \in [End -> 0..BUF_SIZE] /\ writeIdx \in [End -> 0..BUF_SIZE]
      /\ rcvd \in [End -> Nat] /\ buf \in [End -> [0..BUF_SIZE-1 -> Nat]]
  BY DEF Inv, TypeOK
<1> HIDE DEF n
<1>4. readIdx' \in [End -> 0..BUF_SIZE] /\ writeIdx' \in [End -> 0..BUF_SIZE]
  <2>1. readIdx[e] + n \in 0..BUF_SIZE  BY <1>1, EndFacts
  <2> QED  BY <1>2, <1>3, <2>1
<1>6. buf' \in [End -> [0..BUF_SIZE-1 -> Nat]]
  <2>1. \A i \in 0..BUF_SIZE-1 : cell(i) \in Nat
    <3> SUFFICES ASSUME NEW i \in 0..BUF_SIZE-1 PROVE cell(i) \in Nat
      OBVIOUS
    <3>1. buf[e][i] \in Nat  BY <1>3
    <3> QED  BY <3>1, EndFacts
  <2>2. [i \in 0..BUF_SIZE-1 |-> cell(i)] \in [0..BUF_SIZE-1 -> Nat]  BY <2>1
  <2> HIDE DEF cell
  <2> QED  BY <1>2, <1>3, <2>2
<1>7. ASSUME NEW d \in End PROVE Gap(d)'
  <2>4. CASE d = e
    <3>1. Gap(e) /\ Len(delivered[Other(e)]) \in Nat  BY EndFacts, OtherEnd
    <3>2. /\ writeIdx[e] <= readIdx[e]
          /\ rcvd[e] = Len(delivered[Other(e)]) + (readIdx[e] - writeIdx[e])
      BY <3>1 DEF Gap, Pending
    <3>3. readIdx'[e] = readIdx[e] + n /\ rcvd'[e] = rcvd[e] + n
          /\ \A i \in 0..BUF_SIZE-1 : buf'[e][i] = cell(i)
      BY <1>2, <1>3
    <3>4. ASSUME NEW i \in 0..BUF_SIZE-1, writeIdx[e] <= i, i < readIdx[e] + n
          PROVE  buf'[e][i] = Len(delivered[Other(e)]) + (i - writeIdx[e]) + 1
      <4>1. CASE i < readIdx[e]
        <5>1. buf[e][i] = Len(delivered[Other(e)]) + (i - writeIdx[e]) + 1
          BY <3>1, <3>4, <4>1 DEF Gap
        <5> QED  BY <3>3, <4>1, <5>1, EndFacts
      <4>2. CASE ~(i < readIdx[e])
        <5>1. i \in readIdx[e]..readIdx[e] + n - 1  BY <1>1, <3>4, <4>2, EndFacts
        <5>2. buf'[e][i] = rcvd[e] + (i - readIdx[e]) + 1  BY <3>3, <5>1
        <5>3. PICK r \in Nat, l \in Nat, a \in Nat, b \in Nat :
                 r = rcvd[e] /\ l = Len(delivered[Other(e)]) /\ a = readIdx[e] /\ b = writeIdx[e]
          BY <3>1, EndFacts
        <5>4. r = l + (a - b)  BY <3>1, <3>2, <5>3
        <5>5. r + (i - a) + 1 = l + (i - b) + 1
          <6>1. PICK x \in Int : x = i  OBVIOUS
          <6>2. r + (x - a) + 1 = l + (x - b) + 1  BY <5>4
          <6> QED  BY <6>1, <6>2
        <5> QED  BY <5>2, <5>3, <5>5
      <4> QED  BY <4>1, <4>2
    <3>5. writeIdx[e] <= readIdx[e] + n
          /\ rcvd[e] + n = Len(delivered[Other(e)]) + (readIdx[e] + n - writeIdx[e])
      BY <1>1, <3>1, <3>2, EndFacts
    <3>6. writeIdx' = writeIdx /\ delivered' = delivered  BY <1>2
    <3>7. /\ writeIdx'[e] <= readIdx'[e]
          /\ rcvd'[e] = Len(delivered'[Other(e)]) + (readIdx'[e] - writeIdx'[e])
      <4>1. readIdx'[e] = readIdx[e] + n /\ rcvd'[e] = rcvd[e] + n  BY <3>3
      <4>2. writeIdx'[e] = writeIdx[e]  BY <3>6
      <4>3. delivered'[Other(e)] = delivered[Other(e)]  BY <3>6
      <4> HIDE DEF cell
      <4> QED  BY <1>1, <3>1, <3>5, <4>1, <4>2, <4>3, EndFacts
    <3>8. \A i \in 0..BUF_SIZE-1 : writeIdx'[e] <= i /\ i < readIdx'[e] =>
             buf'[e][i] = Len(delivered'[Other(e)]) + (i - writeIdx'[e]) + 1
      <4> SUFFICES ASSUME NEW i \in 0..BUF_SIZE-1, writeIdx'[e] <= i, i < readIdx'[e]
                   PROVE  buf'[e][i] = Len(delivered'[Other(e)]) + (i - writeIdx'[e]) + 1
        OBVIOUS
      <4>1. writeIdx[e] <= i /\ i < readIdx[e] + n  BY <3>3, <3>6
      <4>2. buf'[e][i] = Len(delivered[Other(e)]) + (i - writeIdx[e]) + 1  BY <3>4, <4>1
      <4> QED  BY <3>6, <4>2
    <3>9. Gap(e)'  BY <3>7, <3>8 DEF Gap, Pending
    <3> QED  BY <2>4, <3>9
  <2>5. CASE d # e
    <3>1. Gap(d)  BY EndFacts
    <3>2. readIdx'[d] = readIdx[d] /\ rcvd'[d] = rcvd[d] /\ buf'[d] = buf[d]
      BY <1>2, <1>3, <2>5
    <3>3. Gap(d)'  BY <1>2, <3>1, <3>2 DEF Gap, Pending
    <3> QED  BY <3>3
  <2> QED  BY <2>4, <2>5
<1> QED  BY <1>4, <1>6, <1>7

\* send appends the next bytes of the stream, no more than the socket takes.
LEMMA SendKeepsOrder ==
    ASSUME Inv, bound, NEW e \in End, Send(e)
    PROVE  /\ SendCount(e) \in Nat /\ SendCount(e) <= Pending(e)
           /\ delivered' \in [End -> Seq(Nat)]
           /\ Len(delivered'[Other(e)]) = Len(delivered[Other(e)]) + SendCount(e)
           /\ delivered'[e] = delivered[e]
           /\ \A d \in End : Flow(d)' /\ InOrder(d)'
<1> DEFINE f == Other(e)
           n == SendCount(e)
           old == delivered[f]
           new == [i \in 1..n |-> buf[e][writeIdx[e] + i - 1]]
<1>0. f \in End /\ f # e /\ Other(f) = e  BY OtherEnd
<1>1. Gap(e)  BY EndFacts
<1>2. /\ Len(old) \in Nat /\ old \in Seq(Nat) /\ drained[f] \in Nat
      /\ drained[f] <= Len(old) /\ Len(old) - drained[f] <= SockBuf
  BY <1>0, EndFacts
<1>3. n \in Nat /\ n <= Pending(e) /\ Len(old) + n - drained[f] <= SockBuf
  <2>1. Pending(e) \in Nat  BY <1>1, EndFacts DEF Gap, Pending
  <2>2. Room(f) \in Nat /\ Room(f) = SockBuf - (Len(old) - drained[f])
    BY <1>2, EndFacts DEF Room
  <2>3. n = IF peer[f] = "rst" THEN 0
            ELSE IF Pending(e) < Room(f) THEN Pending(e) ELSE Room(f)
    BY DEF SendCount, Least
  <2> QED  BY <1>2, <2>1, <2>2, <2>3, EndFacts
<1> HIDE DEF n
<1>4. \A i \in 1..n : buf[e][writeIdx[e] + i - 1] = Len(old) + i
  <2> SUFFICES ASSUME NEW i \in 1..n PROVE buf[e][writeIdx[e] + i - 1] = Len(old) + i
    OBVIOUS
  <2> DEFINE j == writeIdx[e] + i - 1
  <2>1. j \in 0..BUF_SIZE-1 /\ writeIdx[e] <= j /\ j < readIdx[e]
    BY <1>3, EndFacts DEF Pending
  <2>2. buf[e][j] = Len(old) + (j - writeIdx[e]) + 1  BY <1>1, <2>1 DEF Gap
  <2>3. writeIdx[e] \in Nat /\ i \in Nat /\ Len(old) \in Nat  BY <1>2, <1>3, EndFacts
  <2>4. Len(old) + (j - writeIdx[e]) + 1 = Len(old) + i
    <3> HIDE DEF old
    <3> QED  BY <2>3
  <2> QED  BY <2>2, <2>4
<1>5. new \in Seq(Nat) /\ Len(new) = n
  <2>1. \A i \in 1..n : buf[e][writeIdx[e] + i - 1] \in Nat  BY <1>2, <1>3, <1>4
  <2> QED  BY <1>3, <2>1
<1>6. /\ old \o new \in Seq(Nat) /\ Len(old \o new) = Len(old) + n
      /\ \A i \in 1..Len(old) + n : (old \o new)[i] =
             IF i <= Len(old) THEN old[i] ELSE new[i - Len(old)]
  BY <1>2, <1>3, <1>5, ConcatProperties
<1>7. delivered' = [delivered EXCEPT ![f] = old \o new]  BY DEF Send, n
<1>8. delivered' \in [End -> Seq(Nat)] /\ delivered'[f] = old \o new /\ delivered'[e] = delivered[e]
  BY <1>0, <1>6, <1>7 DEF Inv, TypeOK
<1>9. InOrder(e)'
  <2>1. \A i \in 1..Len(old) : old[i] = i  BY <1>0 DEF Inv, InOrder
  <2> SUFFICES ASSUME NEW i \in 1..Len(old) + n PROVE (old \o new)[i] = i
    BY <1>6, <1>8 DEF InOrder
  <2>2. CASE i <= Len(old)  BY <1>2, <1>3, <1>6, <2>1, <2>2
  <2>3. CASE ~(i <= Len(old))
    <3>1. i - Len(old) \in 1..n  BY <1>2, <1>3, <2>3
    <3>2. new[i - Len(old)] = Len(old) + (i - Len(old))  BY <1>4, <3>1
    <3>3. (old \o new)[i] = new[i - Len(old)]  BY <1>6, <2>3
    <3>4. i \in Nat  BY <1>2, <1>3
    <3> HIDE DEF old, new
    <3> QED  BY <1>2, <3>2, <3>3, <3>4
  <2> QED  BY <2>2, <2>3
<1>10. InOrder(f)'  BY <1>0, <1>8 DEF Inv, InOrder
<1>11. sent' = sent /\ rcvd' = rcvd /\ drained' = drained  BY DEF Send
<1>12. Flow(e)'
  <2>1. rcvd[e] = Len(old) + Pending(e)  BY <1>1 DEF Gap
  <2>2. Pending(e) \in Int  BY EndFacts DEF Pending
  <2>3. rcvd[e] \in Nat /\ sent[e] \in Nat /\ rcvd[e] <= sent[e]  BY EndFacts DEF Flow
  <2>4. Len(old) + n <= sent[e]
    <3> HIDE DEF old
    <3> QED  BY <1>2, <1>3, <2>1, <2>2, <2>3
  <2> QED  BY <1>6, <1>8, <1>11, <2>4, EndFacts DEF Flow
<1>13. Flow(f)'
  <2>1. drained[f] <= Len(old) + n  BY <1>2, <1>3
  <2>2. rcvd[f] <= sent[f] /\ Len(delivered[e]) <= sent[f]  BY <1>0, EndFacts
  <2>3. Len(delivered'[f]) = Len(old) + n  BY <1>6, <1>8
  <2>4. Len(delivered'[Other(f)]) = Len(delivered[e])  BY <1>0, <1>8
  <2>5. Len(delivered'[f]) - drained[f] <= SockBuf  BY <1>2, <1>3, <2>3
  <2> HIDE DEF f, old
  <2> QED  BY <1>11, <2>1, <2>2, <2>3, <2>4, <2>5 DEF Flow
<1>14. \A d \in End : d = e \/ d = f  BY DEF End, Other
<1>15. Len(delivered'[f]) = Len(old) + n  BY <1>6, <1>8
<1> QED  BY <1>3, <1>8, <1>9, <1>10, <1>12, <1>13, <1>14, <1>15 DEF n

\* send followed by the update of the indices keeps the gap.
LEMMA AdvanceKeepsGap ==
    ASSUME Inv, bound, NEW e \in End, Send(e), Advance(e)
    PROVE  /\ readIdx' \in [End -> 0..BUF_SIZE] /\ writeIdx' \in [End -> 0..BUF_SIZE]
           /\ buf' \in [End -> [0..BUF_SIZE-1 -> Nat]]
           /\ \A d \in End : Gap(d)'
<1> DEFINE n == SendCount(e)
           g == Other(e)
           done == WriteResult(e) = "BUFFER_EMPTY"
<1>0. /\ n \in Nat /\ n <= Pending(e)
      /\ Len(delivered'[g]) = Len(delivered[g]) + n
      /\ delivered'[e] = delivered[e]
  BY SendKeepsOrder
<1>1. g \in End /\ g # e /\ Other(g) = e /\ rcvd' = rcvd  BY OtherEnd DEF Send
<1>2. Gap(e) /\ Gap(g) /\ Len(delivered[g]) \in Nat  BY <1>1, EndFacts
<1>3. /\ readIdx' = [readIdx EXCEPT ![e] = IF done THEN 0 ELSE readIdx[e]]
      /\ writeIdx' = [writeIdx EXCEPT ![e] = IF done THEN 0 ELSE writeIdx[e] + n]
      /\ buf' = buf
  BY DEF Advance
<1>4. /\ readIdx \in [End -> 0..BUF_SIZE] /\ writeIdx \in [End -> 0..BUF_SIZE]
      /\ buf \in [End -> [0..BUF_SIZE-1 -> Nat]]
  BY DEF Inv, TypeOK
<1>5. done => n = Pending(e)
  <2>1. Pending(e) \in Int  BY EndFacts DEF Pending
  <2> QED  BY <1>0, <2>1 DEF WriteResult
<1> HIDE DEF n, done
<1>6. /\ readIdx' \in [End -> 0..BUF_SIZE] /\ writeIdx' \in [End -> 0..BUF_SIZE]
      /\ buf' \in [End -> [0..BUF_SIZE-1 -> Nat]]
  <2>1. readIdx[e] \in 0..BUF_SIZE /\ writeIdx[e] \in 0..BUF_SIZE /\ BUF_SIZE \in Nat
    BY <1>4, RelayAssumption
  <2>2. n \in Nat /\ n <= readIdx[e] - writeIdx[e]  BY <1>0 DEF Pending
  <2>3. writeIdx[e] + n \in 0..BUF_SIZE /\ 0 \in 0..BUF_SIZE  BY <2>1, <2>2
  <2> QED  BY <1>3, <1>4, <2>1, <2>3
<1>7. Gap(e)'
  <2>1. /\ writeIdx[e] <= readIdx[e]
        /\ rcvd[e] = Len(delivered[g]) + (readIdx[e] - writeIdx[e])
        /\ \A i \in 0..BUF_SIZE-1 : writeIdx[e] <= i /\ i < readIdx[e] =>
               buf[e][i] = Len(delivered[g]) + (i - writeIdx[e]) + 1
    BY <1>2 DEF Gap, Pending
  <2>2. CASE done
    <3>1. readIdx'[e] = 0 /\ writeIdx'[e] = 0  BY <1>3, <1>4, <2>2
    <3>2. rcvd'[e] = Len(delivered'[g]) + (0 - 0)
      BY <1>0, <1>1, <1>2, <1>5, <2>1, <2>2, EndFacts DEF Pending
    <3>3. \A i \in 0..BUF_SIZE-1 : ~(i < 0)  BY EndFacts
    <3> QED  BY <3>1, <3>2, <3>3 DEF Gap, Pending
  <2>3. CASE ~done
    <3>1. readIdx'[e] = readIdx[e] /\ writeIdx'[e] = writeIdx[e] + n  BY <1>3, <1>4, <2>3
    <3>2. writeIdx[e] + n <= readIdx[e]  BY <1>0, EndFacts DEF Pending
    <3>3. rcvd'[e] = Len(delivered'[g]) + (readIdx[e] - (writeIdx[e] + n))
      BY <1>0, <1>1, <1>2, <2>1, EndFacts
    <3>4. ASSUME NEW i \in 0..BUF_SIZE-1, writeIdx[e] + n <= i, i < readIdx[e]
          PROVE  buf'[e][i] = Len(delivered'[g]) + (i - (writeIdx[e] + n)) + 1
      <4>1. writeIdx[e] <= i  BY <1>0, <3>4, EndFacts
      <4>2. buf[e][i] = Len(delivered[g]) + (i - writeIdx[e]) + 1  BY <2>1, <3>4, <4>1
      <4> QED  BY <1>0, <1>2, <1>3, <4>2, EndFacts
    <3> QED  BY <3>1, <3>2, <3>3, <3>4 DEF Gap, Pending
  <2> QED  BY <2>2, <2>3
<1>8. Gap(g)'
  <2>1. readIdx'[g] = readIdx[g] /\ writeIdx'[g] = writeIdx[g]  BY <1>1, <1>3, <1>4
  <2> QED  BY <1>0, <1>1, <1>2, <1>3, <2>1 DEF Gap, Pending
<1>9. \A d \in End : d = e \/ d = g  BY DEF End, Other
<1> QED  BY <1>6, <1>7, <1>8, <1>9

\* modfd keeps the types of the epoll set.
LEMMA ModfdType ==
    ASSUME TypeOK, NEW ins, NEW outs, Modfd(ins, outs)
    PROVE  interest' \in [End -> {"IN", "OUT"}] /\ ready' \in [End -> BOOLEAN]
<1>1. interest' \in [End -> {"IN", "OUT"}]  BY DEF TypeOK, Modfd
<1>2. ready' \in [End -> BOOLEAN]  BY DEF TypeOK, Modfd
<1> QED  BY <1>1, <1>2

\* free_conn leaves an empty, unbound conn.
LEMMA FreeType ==
    ASSUME TypeOK, Free
    PROVE  /\ readIdx' \in [End -> 0..BUF_SIZE] /\ writeIdx' \in [End -> 0..BUF_SIZE]
           /\ buf' \in [End -> [0..BUF_SIZE-1 -> Nat]]
           /\ srvClosed' \in BOOLEAN /\ bound' \in BOOLEAN /\ ~bound'
           /\ interest' \in [End -> {"IN", "OUT"}] /\ ready' \in [End -> BOOLEAN]
<1>1. 0 \in 0..BUF_SIZE  BY RelayAssumption DEF RelayAssumption
<1>2. Cleared \in [0..BUF_SIZE-1 -> Nat]  BY DEF Cleared
<1> QED  BY <1>1, <1>2 DEF Free

\* Taking an event leaves a sequence of events.
LEMMA EventType_ ==
    ASSUME TypeOK, NEW e, NEW type, Event(e, type)
    PROVE  bound /\ batch' \in Seq(EventType)
BY DEF TypeOK, Event

\* A step of the kernel or of a peer that leaves the conn, what was received
\* and what was written alone keeps the invariant if it keeps the types and
\* the flow.
LEMMA QuietStep ==
    ASSUME Inv, UNCHANGED <<connVars, rcvd, delivered>>, TypeOK', \A e \in End : Flow(e)'
    PROVE  Inv'
<1>1. \A e \in End : InOrder(e)'  BY DEF Inv, InOrder
<1>2. BufferIsGap'  BY DEF Inv, BufferIsGap, Gap, Pending, connVars
<1> QED  BY <1>1, <1>2 DEF Inv

\* A session starts with empty buffers and nothing sent.
LEMMA InitInv == Init => Inv
<1> SUFFICES ASSUME Init PROVE Inv
  OBVIOUS
<1>1. BUF_SIZE \in Nat /\ SockBuf \in Nat /\ 0 \in 0..BUF_SIZE
  BY RelayAssumption DEF RelayAssumption
<1>2. Cleared \in [0..BUF_SIZE-1 -> Nat]  BY DEF Cleared
<1>3. TypeOK
  <2>1. <<>> \in Seq(EventType) /\ <<>> \in Seq(Nat)  OBVIOUS
  <2>2. batch \in Seq(EventType) /\ delivered \in [End -> Seq(Nat)]  BY <2>1 DEF Init
  <2>3. peer \in [End -> {"open", "fin", "rst"}]  BY DEF Init
  <2> QED  BY <1>1, <1>2, <2>2, <2>3 DEF Init, TypeOK
<1>4. \A e \in End : delivered[e] = <<>> /\ delivered[Other(e)] = <<>>
  BY OtherEnd DEF Init
<1>5. ASSUME NEW e \in End PROVE Flow(e) /\ InOrder(e) /\ Gap(e)
  <2>1. Len(<<>>) = 0  OBVIOUS
  <2>2. rcvd[e] = 0 /\ sent[e] = 0 /\ drained[e] = 0 /\ readIdx[e] = 0 /\ writeIdx[e] = 0
    BY DEF Init
  <2>3. Flow(e)  BY <1>1, <1>4, <2>1, <2>2 DEF Flow
  <2>4. InOrder(e)  BY <1>4, <2>1 DEF InOrder
  <2>5. Gap(e)  BY <1>1, <1>4, <2>1, <2>2 DEF Gap, Pending
  <2> QED  BY <2>3, <2>4, <2>5
<1> QED  BY <1>3, <1>5 DEF Inv, BufferIsGap

\* mgr::process on EPOLLIN of the client socket keeps the invariant.
LEMMA CltReadInv == Inv /\ CltRead => Inv'
<1> SUFFICES ASSUME Inv, CltRead PROVE Inv'
  OBVIOUS
<1> USE DEF End
<1>1. bound /\ batch' \in Seq(EventType) /\ Recv("clt") /\ TypeOK
  BY EventType_ DEF CltRead, Inv
<1>2. rcvd' \in [End -> Nat] /\ \A d \in End : Flow(d)' /\ InOrder(d)'
  BY <1>1, RecvKeepsFlow
<1>3. UNCHANGED <<peer, sent, delivered, drained>>  BY <1>1 DEF Recv
<1>4. CASE Free
  <2>1. TypeOK'  BY <1>1, <1>2, <1>3, <1>4, FreeType DEF TypeOK
  <2> QED  BY <1>1, <1>2, <1>4, <2>1, FreeType DEF Inv, BufferIsGap
<1>5. CASE Store("clt") /\ UNCHANGED <<bound, srvClosed>>
           /\ (Modfd({}, {"srv"}) \/ UNCHANGED <<interest, ready>>)
  <2>1. /\ readIdx' \in [End -> 0..BUF_SIZE] /\ writeIdx' \in [End -> 0..BUF_SIZE]
        /\ buf' \in [End -> [0..BUF_SIZE-1 -> Nat]] /\ \A d \in End : Gap(d)'
    BY <1>1, <1>5, StoreKeepsGap
  <2>2. interest' \in [End -> {"IN", "OUT"}] /\ ready' \in [End -> BOOLEAN]
    BY <1>1, <1>5, ModfdType DEF TypeOK
  <2>3. TypeOK'  BY <1>1, <1>2, <1>3, <1>5, <2>1, <2>2 DEF TypeOK
  <2> QED  BY <1>2, <2>1, <2>3 DEF Inv, BufferIsGap
<1> QED  BY <1>4, <1>5 DEF CltRead

\* mgr::process on EPOLLIN of the server socket keeps the invariant.
LEMMA SrvReadInv == Inv /\ SrvRead => Inv'
<1> SUFFICES ASSUME Inv, SrvRead PROVE Inv'
  OBVIOUS
<1> USE DEF End
<1>1. bound /\ batch' \in Seq(EventType) /\ Recv("srv") /\ Store("srv") /\ TypeOK
  BY EventType_ DEF SrvRead, Inv
<1>2. rcvd' \in [End -> Nat] /\ \A d \in End : Flow(d)' /\ InOrder(d)'
  BY <1>1, RecvKeepsFlow
<1>3. UNCHANGED <<peer, sent, delivered, drained, bound>>  BY <1>1 DEF Recv, SrvRead
<1>4. /\ readIdx' \in [End -> 0..BUF_SIZE] /\ writeIdx' \in [End -> 0..BUF_SIZE]
      /\ buf' \in [End -> [0..BUF_SIZE-1 -> Nat]] /\ \A d \in End : Gap(d)'
  BY <1>1, StoreKeepsGap
<1>5. interest' \in [End -> {"IN", "OUT"}] /\ ready' \in [End -> BOOLEAN]
  BY <1>1, ModfdType DEF TypeOK, SrvRead
<1>6. srvClosed' \in BOOLEAN  BY <1>1 DEF SrvRead, TypeOK
<1>7. TypeOK'  BY <1>1, <1>2, <1>3, <1>4, <1>5, <1>6 DEF TypeOK
<1> QED  BY <1>2, <1>4, <1>7 DEF Inv, BufferIsGap

\* mgr::process on EPOLLOUT of the client socket keeps the invariant.
LEMMA CltWriteInv == Inv /\ CltWrite => Inv'
<1> SUFFICES ASSUME Inv, CltWrite PROVE Inv'
  OBVIOUS
<1> USE DEF End
<1>1. bound /\ batch' \in Seq(EventType) /\ Send("srv") /\ TypeOK
  BY EventType_ DEF CltWrite, Inv
<1>2. delivered' \in [End -> Seq(Nat)] /\ \A d \in End : Flow(d)' /\ InOrder(d)'
  BY <1>1, SendKeepsOrder
<1>3. UNCHANGED <<peer, sent, rcvd, drained>>  BY <1>1 DEF Send
<1>4. CASE Free
  <2>1. TypeOK'  BY <1>1, <1>2, <1>3, <1>4, FreeType DEF TypeOK
  <2> QED  BY <1>1, <1>2, <1>4, <2>1, FreeType DEF Inv, BufferIsGap
<1>5. CASE /\ Advance("srv") /\ UNCHANGED <<bound, srvClosed>>
           /\ (Modfd({}, {"clt"}) \/ Modfd({"srv", "clt"}, {}))
  <2>1. /\ readIdx' \in [End -> 0..BUF_SIZE] /\ writeIdx' \in [End -> 0..BUF_SIZE]
        /\ buf' \in [End -> [0..BUF_SIZE-1 -> Nat]] /\ \A d \in End : Gap(d)'
    BY <1>1, <1>5, AdvanceKeepsGap
  <2>2. interest' \in [End -> {"IN", "OUT"}] /\ ready' \in [End -> BOOLEAN]
    BY <1>1, <1>5, ModfdType
  <2>3. TypeOK'  BY <1>1, <1>2, <1>3, <1>5, <2>1, <2>2 DEF TypeOK
  <2> QED  BY <1>2, <2>1, <2>3 DEF Inv, BufferIsGap
<1> QED  BY <1>4, <1>5 DEF CltWrite

\* mgr::process on EPOLLOUT of the server socket keeps the invariant.
LEMMA SrvWriteInv == Inv /\ SrvWrite => Inv'
<1> SUFFICES ASSUME Inv, SrvWrite PROVE Inv'
  OBVIOUS
<1> USE DEF End
<1>1. bound /\ batch' \in Seq(EventType) /\ Send("clt") /\ Advance("clt") /\ TypeOK
  BY EventType_ DEF SrvWrite, Inv
<1>2. delivered' \in [End -> Seq(Nat)] /\ \A d \in End : Flow(d)' /\ InOrder(d)'
  BY <1>1, SendKeepsOrder
<1>3. UNCHANGED <<peer, sent, rcvd, drained, bound>>  BY <1>1 DEF Send, SrvWrite
<1>4. /\ readIdx' \in [End -> 0..BUF_SIZE] /\ writeIdx' \in [End -> 0..BUF_SIZE]
      /\ buf' \in [End -> [0..BUF_SIZE-1 -> Nat]] /\ \A d \in End : Gap(d)'
  BY <1>1, AdvanceKeepsGap
<1>5. interest' \in [End -> {"IN", "OUT"}] /\ ready' \in [End -> BOOLEAN]
  BY <1>1, ModfdType DEF SrvWrite
<1>6. srvClosed' \in BOOLEAN  BY <1>1 DEF SrvWrite, TypeOK
<1>7. TypeOK'  BY <1>1, <1>2, <1>3, <1>4, <1>5, <1>6 DEF TypeOK
<1> QED  BY <1>2, <1>4, <1>7 DEF Inv, BufferIsGap

\* epoll_wait, and the events of a freed session, touch only the epoll set.
LEMMA EpollInv == Inv /\ (EpollWait \/ Stale) => Inv'
<1> SUFFICES ASSUME Inv, EpollWait \/ Stale PROVE Inv'
  OBVIOUS
<1>1. UNCHANGED <<connVars, netVars, interest>>  BY DEF EpollWait, Stale
<1>2. batch' \in Seq(EventType) /\ ready' \in [End -> BOOLEAN]
  <2>1. CASE Stale  BY <2>1 DEF Stale, Inv, TypeOK
  <2>2. CASE EpollWait
    <3>1. ready' \in [End -> BOOLEAN]  BY <2>2 DEF EpollWait
    <3>2. PICK order \in {<<>>, <<"clt">>, <<"srv">>, <<"clt", "srv">>, <<"srv", "clt">>} :
             batch' = [i \in 1..Len(order) |->
                          [end |-> order[i], type |-> interest[order[i]]]]
      BY <2>2 DEF EpollWait
    <3>3. order \in Seq(End)
      <4>1. <<>> \in Seq(End)  OBVIOUS
      <4>2. \A a \in End : <<a>> \in Seq(End)  OBVIOUS
      <4>3. \A a, b \in End : <<a, b>> \in Seq(End)  OBVIOUS
      <4>4. "clt" \in End /\ "srv" \in End  BY DEF End
      <4> QED  BY <3>2, <4>1, <4>2, <4>3, <4>4
    <3>4. \A i \in 1..Len(order) : order[i] \in End  BY <3>3
    <3>5. \A i \in 1..Len(order) :
             [end |-> order[i], type |-> interest[order[i]]] \in EventType
      BY <3>4 DEF EventType, Inv, TypeOK
    <3>6. Len(order) \in Nat  BY <3>3
    <3> QED  BY <3>1, <3>2, <3>5, <3>6
  <2> QED  BY <2>1, <2>2
<1>3. TypeOK'  BY <1>1, <1>2 DEF Inv, TypeOK, connVars, netVars
<1>4. \A e \in End : Flow(e)'  BY <1>1 DEF Inv, Flow, netVars
<1> QED  BY <1>1, <1>3, <1>4, QuietStep DEF netVars

\* The remote ends may send, take and stop without disturbing the invariant.
LEMMA PeersInv == Inv /\ Peers => Inv'
<1> SUFFICES ASSUME Inv, NEW e \in End, PeerSend(e) \/ PeerDrain(e) \/ PeerStop(e)
             PROVE  Inv'
  BY DEF Peers
<1>1. UNCHANGED <<connVars, interest, batch, rcvd, delivered>>
  BY DEF PeerSend, PeerDrain, PeerStop
<1>2. ready' \in [End -> BOOLEAN]  BY DEF PeerSend, PeerDrain, PeerStop, Inv, TypeOK
<1>3. peer' \in [End -> {"open", "fin", "rst"}]
  BY DEF PeerSend, PeerDrain, PeerStop, Inv, TypeOK
<1>4. /\ sent \in [End -> Nat] /\ sent[e] + 1 \in Nat
      /\ sent' = [sent EXCEPT ![e] = sent[e] + 1] \/ sent' = sent
  <2>1. sent \in [End -> Nat] /\ sent[e] + 1 \in Nat  BY DEF Inv, TypeOK
  <2>2. sent' = [sent EXCEPT ![e] = sent[e] + 1] \/ sent' = sent
    BY DEF PeerSend, PeerDrain, PeerStop
  <2> QED  BY <2>1, <2>2
<1>5. /\ drained \in [End -> Nat] /\ drained[e] + 1 \in Nat
      /\ \/ drained' = [drained EXCEPT ![e] = drained[e] + 1] /\ drained[e] < Len(delivered[e])
         \/ drained' = drained
  <2>1. drained \in [End -> Nat] /\ drained[e] + 1 \in Nat  BY EndFacts DEF Inv, TypeOK
  <2>2. CASE PeerDrain(e)  BY <2>1, <2>2 DEF PeerDrain
  <2>3. CASE PeerSend(e) \/ PeerStop(e)  BY <2>1, <2>3 DEF PeerSend, PeerStop
  <2> QED  BY <2>1, <2>2, <2>3
<1>6. sent' \in [End -> Nat] /\ drained' \in [End -> Nat]  BY <1>4, <1>5
<1>7. TypeOK'  BY <1>1, <1>2, <1>3, <1>6 DEF Inv, TypeOK, connVars
<1>8. ASSUME NEW d \in End PROVE Flow(d)'
  <2> /\ sent[d] \in Nat /\ drained[d] \in Nat /\ Len(delivered[d]) \in Nat
      /\ drained[d] <= Len(delivered[d])
    BY EndFacts
  <2>1. sent'[d] >= sent[d]
    <3>1. sent'[d] = sent[d] \/ sent'[d] = sent[d] + 1  BY <1>4
    <3> QED  BY <3>1
  <2>2. drained'[d] >= drained[d] /\ drained'[d] <= Len(delivered[d])
    <3>1. \/ drained'[d] = drained[d]
          \/ drained'[d] = drained[d] + 1 /\ drained[d] < Len(delivered[d])
      BY <1>5
    <3> QED  BY <3>1
  <2>3. sent'[d] \in Nat /\ drained'[d] \in Nat /\ Len(delivered[Other(d)]) \in Nat
    BY <1>6, OtherEnd, EndFacts
  <2>4. rcvd[d] <= sent'[d] /\ Len(delivered[Other(d)]) <= sent'[d]
    BY <2>1, <2>3, EndFacts
  <2>5. Len(delivered[d]) - drained'[d] <= SockBuf  BY <2>2, <2>3, EndFacts
  <2> QED  BY <1>1, <2>2, <2>4, <2>5 DEF Flow
<1> QED  BY <1>1, <1>7, <1>8, QuietStep

\* Every step of the child, the kernel and the remote ends keeps the invariant.
THEOREM NextInv == Inv /\ [Next]_vars => Inv'
<1> SUFFICES ASSUME Inv, [Next]_vars PROVE Inv'
  OBVIOUS
<1>1. CASE Relay
  BY <1>1, CltReadInv, CltWriteInv, SrvReadInv, SrvWriteInv, EpollInv DEF Relay
<1>2. CASE Peers  BY <1>2, PeersInv
<1>3. CASE UNCHANGED vars
  BY <1>3, QuietStep DEF vars, connVars, Inv, TypeOK, Flow
<1> QED  BY <1>1, <1>2, <1>3 DEF Next

\* The type invariant of the session: both pairs of indices of a conn stay
\* inside its buffers.
THEOREM TypeCorrect == Spec => []TypeOK
<1>1. Inv => TypeOK  BY DEF Inv
<1> QED  BY <1>1, InitInv, NextInv, PTL DEF Spec

\* A conn delivers to each end exactly the bytes the other end sent, in order,
\* and while the session lives each buffer holds exactly the bytes that were
\* read and not yet written, whatever the buffer sizes and the behaviour of the
\* remote ends.
THEOREM StreamsIntact == Spec => []StreamIntegrity
<1>1. Inv => StreamIntegrity  BY DEF Inv, Flow, StreamIntegrity
<1> QED  BY <1>1, InitInv, NextInv, PTL DEF Spec

(***************************************************************************)
(* The write interests.  Peers that wait for each other keep the bytes of  *)
(* a session on their way in one direction only, so that the modfd to      *)
(* EPOLLIN after the last byte of one direction takes nothing from the     *)
(* other one.                                                              *)
(***************************************************************************)
\* The k-th request is not sent before the responses to the others are taken,
\* nor a response before its request is.
TakeTurns ==
    /\ \E k \in Nat : k * RespLen <= drained["clt"] /\ sent["clt"] <= ReqLen * (1 + k)
    /\ \E k \in Nat : k * ReqLen <= drained["srv"] /\ sent["srv"] <= RespLen * k

\* What EPOLLOUT is registered for: bytes, or the end of the session.
Needed(e) == Pending(e) > 0 \/ (e = "srv" /\ srvClosed)

Armed(e) ==
    /\ Pending(e) = 0 => readIdx[e] = 0
    /\ Pending(e) > 0 => interest[Other(e)] = "OUT"
    /\ interest[Other(e)] = "OUT" => Needed(e)
    /\ \A k \in DOMAIN batch :
          batch[k] = [end |-> Other(e), type |-> "OUT"] => Needed(e)

OnceEach == \A j, k \in DOMAIN batch : batch[j].end = batch[k].end => j = k

ArmedInv == TakeTurns /\ OnceEach /\ (bound => \A e \in End : Armed(e))

LEMMA Lengths ==
    /\ BUF_SIZE \in Nat /\ BUF_SIZE > 0 /\ ReqLen \in Nat /\ ReqLen > 0
    /\ RespLen \in Nat /\ RespLen > 0
  BY RelayAssumption DEF RelayAssumption

LEMMA TimesGrows ==
    ASSUME NEW a \in Nat, NEW b \in Nat, NEW r \in Nat, a <= b
    PROVE  r * a <= r * b /\ a * r = r * a /\ b * r = r * b /\ r * a \in Nat /\ r * b \in Nat
<1>1. PICK c \in Nat : b = a + c
  <2>1. b - a \in Nat /\ b = a + (b - a)  OBVIOUS
  <2> QED  BY <2>1
<1>2. r * (a + c) = r * a + r * c /\ r * c \in Nat /\ r * a \in Nat  OBVIOUS
<1> QED  BY <1>1, <1>2

LEMMA PendingIs ==
    ASSUME Inv, bound, NEW e \in End
    PROVE  /\ Pending(e) \in Nat /\ Pending(e) = readIdx[e] - writeIdx[e]
           /\ rcvd[e] = Len(delivered[Other(e)]) + Pending(e)
<1>1. readIdx[e] \in Nat /\ writeIdx[e] \in Nat /\ Gap(e)  BY EndFacts
<1> QED  BY <1>1 DEF Gap, Pending

\* Bytes that are on their way to the server and bytes on their way to the
\* client exclude each other.
LEMMA OneWay ==
    ASSUME Inv, TakeTurns, bound
    PROVE  Pending("clt") = 0 \/ Pending("srv") = 0
<1>1. PICK j \in Nat : j * RespLen <= drained["clt"] /\ sent["clt"] <= ReqLen * (1 + j)
  BY DEF TakeTurns
<1>2. PICK k \in Nat : k * ReqLen <= drained["srv"] /\ sent["srv"] <= RespLen * k
  BY DEF TakeTurns
<1>3. "clt" \in End /\ "srv" \in End /\ Other("clt") = "srv" /\ Other("srv") = "clt"
  BY DEF End, Other
<1>4. \A e \in End : /\ sent[e] \in Nat /\ drained[e] \in Nat /\ Len(delivered[e]) \in Nat
                     /\ rcvd[e] <= sent[e] /\ drained[e] <= Len(delivered[e])
                     /\ rcvd[e] = Len(delivered[Other(e)]) + Pending(e) /\ Pending(e) \in Nat
  BY EndFacts, PendingIs
<1>5. Pending("srv") + drained["clt"] <= sent["srv"] /\ Pending("clt") + drained["srv"] <= sent["clt"]
  <2>1. ASSUME NEW e \in End  PROVE Pending(e) + drained[Other(e)] <= sent[e]
    <3>1. Other(e) \in End  BY OtherEnd
    <3>2. PICK s \in Nat, r \in Nat, l \in Nat, d \in Nat, p \in Nat :
             s = sent[e] /\ r = rcvd[e] /\ l = Len(delivered[Other(e)])
             /\ d = drained[Other(e)] /\ p = Pending(e)
      BY <1>4, <3>1, EndFacts
    <3>3. r <= s /\ d <= l /\ r = l + p  BY <1>4, <3>1, <3>2
    <3>4. p + d <= s  BY <3>3
    <3> QED  BY <3>2, <3>4
  <2> QED  BY <1>3, <2>1
<1>6. CASE k <= j
  <2>1. RespLen * k <= j * RespLen /\ RespLen * k \in Nat /\ j * RespLen \in Nat
    BY <1>6, Lengths, TimesGrows
  <2>2. sent["srv"] <= drained["clt"]  BY <1>1, <1>2, <1>3, <1>4, <2>1
  <2>3. Pending("srv") = 0  BY <1>3, <1>4, <1>5, <2>2
  <2> QED  BY <2>3
<1>7. CASE ~(k <= j)
  <2>1. 1 + j <= k /\ 1 + j \in Nat  BY <1>7
  <2>2. ReqLen * (1 + j) <= k * ReqLen /\ ReqLen * (1 + j) \in Nat /\ k * ReqLen \in Nat
    BY <2>1, Lengths, TimesGrows
  <2>3. sent["clt"] <= drained["srv"]  BY <1>1, <1>2, <1>3, <1>4, <2>2
  <2>4. Pending("clt") = 0  BY <1>3, <1>4, <1>5, <2>3
  <2> QED  BY <2>4
<1> QED  BY <1>6, <1>7

LEMMA EventHandled ==
    ASSUME TypeOK, OnceEach, NEW e \in End, NEW type, Event(e, type)
    PROVE  /\ OnceEach' /\ \E k \in DOMAIN batch : batch[k] = [end |-> e, type |-> type]
           /\ \A k \in DOMAIN batch' : /\ batch'[k].end # e
                                       /\ \E j \in DOMAIN batch : batch'[k] = batch[j]
<1> DEFINE n == Len(batch)
<1>1. /\ batch \in Seq(EventType) /\ n \in Nat /\ n > 0 /\ DOMAIN batch = 1..n
      /\ batch[1] = [end |-> e, type |-> type] /\ batch' = Tail(batch)
  <2>1. batch \in Seq(EventType)  BY DEF TypeOK
  <2>2. batch # <<>> /\ Head(batch) = [end |-> e, type |-> type] /\ batch' = Tail(batch)
    BY DEF Event
  <2> HIDE DEF EventType
  <2>3. n \in Nat /\ DOMAIN batch = 1..n /\ n > 0 /\ Head(batch) = batch[1]
    BY <2>1, <2>2, EmptySeq, LenProperties
  <2> QED  BY <2>1, <2>2, <2>3
<1>2. DOMAIN batch' = 1..(n - 1) /\ \A i \in 1..(n - 1) : batch'[i] = batch[i + 1]
  BY <1>1
<1> HIDE DEF n
<1>3. \A i \in 1..(n - 1) : i + 1 \in 1..n /\ i + 1 # 1  BY <1>1
<1>4. 1 \in 1..n /\ \A i, j \in 1..(n - 1) : i + 1 = j + 1 => i = j  BY <1>1
<1>5. OnceEach'
  <2> SUFFICES ASSUME NEW i \in 1..(n - 1), NEW j \in 1..(n - 1), batch'[i].end = batch'[j].end
               PROVE  i = j
    BY <1>2 DEF OnceEach
  <2>1. i + 1 = j + 1
    <3>1. batch[i + 1].end = batch[j + 1].end  BY <1>2
    <3>2. i + 1 \in DOMAIN batch /\ j + 1 \in DOMAIN batch  BY <1>1, <1>3
    <3> QED  BY <3>1, <3>2 DEF OnceEach
  <2> QED  BY <1>4, <2>1
<1>6. ASSUME NEW k \in 1..(n - 1)  PROVE batch'[k].end # e
  <2>1. batch'[k] = batch[k + 1] /\ k + 1 \in 1..n /\ k + 1 # 1  BY <1>2, <1>3
  <2>2. batch[1].end = e  BY <1>1
  <2>3. batch[k + 1].end # batch[1].end  BY <1>1, <1>4, <2>1 DEF OnceEach
  <2> QED  BY <2>1, <2>2, <2>3
<1>7. \A k \in 1..(n - 1) : \E j \in 1..n : batch'[k] = batch[j]  BY <1>2, <1>3
<1> QED  BY <1>1, <1>2, <1>4, <1>5, <1>6, <1>7

LEMMA Stored ==
    ASSUME Inv, bound, NEW e \in End, Armed(e), Recv(e), Store(e)
    PROVE  /\ Pending(e)' \in Nat /\ Pending(e)' >= Pending(e)
           /\ Pending(e)' = 0 => readIdx'[e] = 0
           /\ ReadResult(e) \in {"OK", "BUFFER_FULL"} => Pending(e)' > 0
           /\ ReadResult(e) = "NOTHING" => Pending(e)' = 0
           /\ \A d \in End \ {e} : Pending(d)' = Pending(d) /\ readIdx'[d] = readIdx[d]
<1> DEFINE n == ReadCount(e)
<1>1. n \in Nat /\ readIdx[e] + n <= BUF_SIZE  BY RecvKeepsFlow
<1>2. readIdx' = [readIdx EXCEPT ![e] = @ + n] /\ writeIdx' = writeIdx  BY DEF Store
<1>3. readIdx \in [End -> 0..BUF_SIZE]  BY DEF Inv, TypeOK
<1>4. ReadResult(e) \in {"OK", "BUFFER_FULL"} => readIdx[e] + n >= BUF_SIZE \/ readIdx[e] + n > writeIdx[e]
  BY DEF ReadResult
<1>5. ReadResult(e) = "NOTHING" => ~(readIdx[e] + n > writeIdx[e])
  BY DEF ReadResult
<1> HIDE DEF n
<1>6. readIdx'[e] = readIdx[e] + n /\ writeIdx'[e] = writeIdx[e]  BY <1>2, <1>3
<1>7. /\ readIdx[e] \in Nat /\ writeIdx[e] \in Nat /\ Pending(e) \in Nat
      /\ Pending(e) = readIdx[e] - writeIdx[e] /\ (Pending(e) = 0 => readIdx[e] = 0)
  BY EndFacts, PendingIs DEF Armed
<1>8. Pending(e)' = Pending(e) + n  BY <1>1, <1>6, <1>7 DEF Pending
<1>9. \A d \in End \ {e} : Pending(d)' = Pending(d) /\ readIdx'[d] = readIdx[d]
  BY <1>2, <1>3 DEF Pending
<1>10. PICK p \in Nat, q \in Nat, r \in Nat, w \in Nat, m \in Nat :
           /\ p = Pending(e) /\ q = Pending(e)' /\ r = readIdx[e] /\ w = writeIdx[e] /\ m = n
           /\ q = p + m /\ p = r - w /\ readIdx'[e] = r + m /\ (p = 0 => r = 0)
  BY <1>1, <1>6, <1>7, <1>8
<1>11. q >= p /\ (q = 0 => r = 0 /\ m = 0 /\ r + m = 0)  BY <1>10
<1>12. q = r + m - w  BY <1>10
<1>13. (q = 0 => ~(r + m > w)) /\ (~(r + m > w) => q = 0)  BY <1>12
<1>14. ReadResult(e) \in {"OK", "BUFFER_FULL"} => q > 0
  <2>1. r + m >= BUF_SIZE => r + m # 0  BY Lengths
  <2>2. r + m >= BUF_SIZE \/ r + m > w => q # 0  BY <1>11, <1>13, <2>1
  <2> QED  BY <1>4, <1>10, <2>2
<1>15. ReadResult(e) = "NOTHING" => q = 0  BY <1>5, <1>10, <1>13
<1> QED  BY <1>9, <1>10, <1>11, <1>14, <1>15

LEMMA Advanced ==
    ASSUME Inv, bound, NEW e \in End, Advance(e)
    PROVE  /\ WriteResult(e) = "BUFFER_EMPTY" => Pending(e)' = 0 /\ readIdx'[e] = 0
           /\ WriteResult(e) # "BUFFER_EMPTY" => Pending(e)' \in Nat /\ Pending(e)' > 0
           /\ \A d \in End \ {e} : Pending(d)' = Pending(d) /\ readIdx'[d] = readIdx[d]
<1> DEFINE n == SendCount(e)
           done == WriteResult(e) = "BUFFER_EMPTY"
<1>1. Pending(e) \in Nat /\ Pending(e) = readIdx[e] - writeIdx[e]
      /\ readIdx[e] \in Nat /\ writeIdx[e] \in Nat
  BY EndFacts, PendingIs
<1>2. Room(Other(e)) \in Nat  BY EndFacts, OtherEnd DEF Room
<1>3. n \in Nat  BY <1>1, <1>2 DEF SendCount, Least
<1>4. ~done => n < Pending(e)  BY <1>1, <1>3 DEF WriteResult
<1>5. /\ readIdx' = [readIdx EXCEPT ![e] = IF done THEN 0 ELSE @]
      /\ writeIdx' = [writeIdx EXCEPT ![e] = IF done THEN 0 ELSE @ + n]
  BY DEF Advance
<1>6. readIdx \in [End -> 0..BUF_SIZE] /\ writeIdx \in [End -> 0..BUF_SIZE]
  BY DEF Inv, TypeOK
<1> HIDE DEF n, done
<1>7. /\ readIdx'[e] = IF done THEN 0 ELSE readIdx[e]
      /\ writeIdx'[e] = IF done THEN 0 ELSE writeIdx[e] + n
      /\ \A d \in End \ {e} : readIdx'[d] = readIdx[d] /\ writeIdx'[d] = writeIdx[d]
  BY <1>5, <1>6
<1>8. done => Pending(e)' = 0 /\ readIdx'[e] = 0  BY <1>7 DEF Pending
<1>9. ~done => Pending(e)' \in Nat /\ Pending(e)' > 0
  BY <1>1, <1>3, <1>4, <1>7 DEF Pending
<1>10. \A d \in End \ {e} : Pending(d)' = Pending(d) /\ readIdx'[d] = readIdx[d]
  BY <1>7 DEF Pending
<1> QED  BY <1>8, <1>9, <1>10 DEF done

LEMMA TurnsKept == TakeTurns /\ UNCHANGED <<sent, drained>> => TakeTurns'
  BY DEF TakeTurns

\* No event of the old batch is waited for in vain after a step that keeps the
\* reasons of its write interests.
LEMMA BatchKept ==
    ASSUME NEW d \in End, Armed(d), Needed(d) => Needed(d)',
           \A k \in DOMAIN batch' : \E j \in DOMAIN batch : batch'[k] = batch[j]
    PROVE  \A k \in DOMAIN batch' : batch'[k] = [end |-> Other(d), type |-> "OUT"] => Needed(d)'
  BY DEF Armed

LEMMA ArmedCltRead == Inv /\ ArmedInv /\ CltRead => ArmedInv'
<1> SUFFICES ASSUME Inv, ArmedInv, CltRead  PROVE ArmedInv'
  OBVIOUS
<1>1. /\ bound /\ Event("clt", "IN") /\ Recv("clt") /\ UNCHANGED <<sent, drained>>
      /\ TypeOK /\ OnceEach /\ TakeTurns /\ "clt" \in End /\ "srv" \in End
      /\ Armed("clt") /\ Armed("srv") /\ Other("clt") = "srv" /\ Other("srv") = "clt"
  BY DEF CltRead, Event, Recv, ArmedInv, Inv, End, Other
<1>2. /\ OnceEach'
      /\ \A k \in DOMAIN batch' : /\ batch'[k].end # "clt"
                                  /\ \E j \in DOMAIN batch : batch'[k] = batch[j]
  BY <1>1, EventHandled
<1>3. TakeTurns'  BY <1>1, TurnsKept
<1>4. CASE Free  BY <1>2, <1>3, <1>4 DEF Free, ArmedInv
<1>5. CASE ~Free
  <2>1. /\ Store("clt") /\ ~srvClosed /\ srvClosed' = srvClosed
        /\ \/ ReadResult("clt") \in {"OK", "BUFFER_FULL"} /\ Modfd({}, {"srv"})
           \/ ReadResult("clt") = "NOTHING" /\ interest' = interest
    BY <1>5 DEF CltRead
  <2>2. /\ interest'["clt"] = interest["clt"]
        /\ \/ ReadResult("clt") \in {"OK", "BUFFER_FULL"} /\ interest'["srv"] = "OUT"
           \/ ReadResult("clt") = "NOTHING" /\ interest'["srv"] = interest["srv"]
    BY <1>1, <2>1 DEF Modfd
  <2>3. /\ Pending("clt")' \in Nat /\ Pending("clt")' >= Pending("clt")
        /\ Pending("clt")' = 0 => readIdx'["clt"] = 0
        /\ ReadResult("clt") \in {"OK", "BUFFER_FULL"} => Pending("clt")' > 0
        /\ ReadResult("clt") = "NOTHING" => Pending("clt")' = 0
        /\ Pending("srv")' = Pending("srv") /\ readIdx'["srv"] = readIdx["srv"]
    BY <1>1, <2>1, Stored
  <2>4. Pending("clt") \in Nat  BY <1>1, PendingIs
  <2>5. (Needed("clt") => Needed("clt")') /\ (Needed("srv") => Needed("srv")')
    BY <2>1, <2>3, <2>4 DEF Needed
  <2>6. Armed("clt")'
    <3>1. \A k \in DOMAIN batch' : batch'[k] = [end |-> Other("clt"), type |-> "OUT"] => Needed("clt")'
      BY <1>1, <1>2, <2>5, BatchKept
    <3> QED  BY <1>1, <2>2, <2>3, <2>4, <2>5, <3>1 DEF Armed, Needed
  <2>7. Armed("srv")'
    <3>1. \A k \in DOMAIN batch' : batch'[k] = [end |-> Other("srv"), type |-> "OUT"] => Needed("srv")'
      BY <1>1, <1>2, <2>5, BatchKept
    <3> QED  BY <1>1, <2>2, <2>3, <2>5, <3>1 DEF Armed
  <2> QED  BY <1>2, <1>3, <2>6, <2>7 DEF ArmedInv, End
<1> QED  BY <1>4, <1>5

LEMMA ArmedSrvRead == Inv /\ ArmedInv /\ SrvRead => ArmedInv'
<1> SUFFICES ASSUME Inv, ArmedInv, SrvRead  PROVE ArmedInv'
  OBVIOUS
<1>1. /\ bound /\ bound' /\ Event("srv", "IN") /\ Recv("srv") /\ UNCHANGED <<sent, drained>>
      /\ TypeOK /\ OnceEach /\ TakeTurns /\ "clt" \in End /\ "srv" \in End
      /\ Armed("clt") /\ Armed("srv") /\ Other("clt") = "srv" /\ Other("srv") = "clt"
  BY DEF SrvRead, Event, Recv, ArmedInv, Inv, End, Other
<1>2. /\ OnceEach'
      /\ \A k \in DOMAIN batch' : /\ batch'[k].end # "srv"
                                  /\ \E j \in DOMAIN batch : batch'[k] = batch[j]
  BY <1>1, EventHandled
<1>3. TakeTurns'  BY <1>1, TurnsKept
<1>4. /\ Store("srv")
      /\ \/ ReadResult("srv") \in {"OK", "BUFFER_FULL"} /\ Modfd({}, {"clt"}) /\ srvClosed' = srvClosed
         \/ Modfd({}, {"clt"}) /\ srvClosed'
         \/ ReadResult("srv") = "NOTHING" /\ interest' = interest /\ srvClosed' = srvClosed
  BY DEF SrvRead
<1>5. /\ interest'["srv"] = interest["srv"]
      /\ \/ /\ ReadResult("srv") \in {"OK", "BUFFER_FULL"} /\ interest'["clt"] = "OUT"
            /\ srvClosed' = srvClosed
         \/ interest'["clt"] = "OUT" /\ srvClosed'
         \/ ReadResult("srv") = "NOTHING" /\ interest'["clt"] = interest["clt"] /\ srvClosed' = srvClosed
  BY <1>1, <1>4 DEF Modfd
<1>6. /\ Pending("srv")' \in Nat /\ Pending("srv")' >= Pending("srv")
      /\ Pending("srv")' = 0 => readIdx'["srv"] = 0
      /\ ReadResult("srv") \in {"OK", "BUFFER_FULL"} => Pending("srv")' > 0
      /\ ReadResult("srv") = "NOTHING" => Pending("srv")' = 0
      /\ Pending("clt")' = Pending("clt") /\ readIdx'["clt"] = readIdx["clt"]
  BY <1>1, <1>4, Stored
<1>7. Pending("srv") \in Nat  BY <1>1, PendingIs
<1>8. (Needed("clt") => Needed("clt")') /\ (Needed("srv") => Needed("srv")')
  BY <1>5, <1>6, <1>7 DEF Needed
<1>9. Armed("clt")'
  <2>1. \A k \in DOMAIN batch' : batch'[k] = [end |-> Other("clt"), type |-> "OUT"] => Needed("clt")'
    BY <1>1, <1>2, <1>8, BatchKept
  <2> QED  BY <1>1, <1>5, <1>6, <1>8, <2>1 DEF Armed
<1>10. Armed("srv")'
  <2>1. \A k \in DOMAIN batch' : batch'[k] = [end |-> Other("srv"), type |-> "OUT"] => Needed("srv")'
    BY <1>1, <1>2, <1>8, BatchKept
  <2> QED  BY <1>1, <1>5, <1>6, <1>7, <1>8, <2>1 DEF Armed, Needed
<1> QED  BY <1>2, <1>3, <1>9, <1>10 DEF ArmedInv, End

LEMMA ArmedCltWrite == Inv /\ ArmedInv /\ CltWrite => ArmedInv'
<1> SUFFICES ASSUME Inv, ArmedInv, CltWrite  PROVE ArmedInv'
  OBVIOUS
<1>1. /\ bound /\ Event("clt", "OUT") /\ Send("srv") /\ UNCHANGED <<sent, drained>>
      /\ TypeOK /\ OnceEach /\ TakeTurns /\ "clt" \in End /\ "srv" \in End
      /\ Armed("clt") /\ Armed("srv") /\ Other("clt") = "srv" /\ Other("srv") = "clt"
  BY DEF CltWrite, Event, Send, ArmedInv, Inv, End, Other
<1>2. /\ OnceEach' /\ \E k \in DOMAIN batch : batch[k] = [end |-> "clt", type |-> "OUT"]
      /\ \A k \in DOMAIN batch' : /\ batch'[k].end # "clt"
                                  /\ \E j \in DOMAIN batch : batch'[k] = batch[j]
  BY <1>1, EventHandled
<1>3. TakeTurns'  BY <1>1, TurnsKept
<1>4. CASE Free  BY <1>2, <1>3, <1>4 DEF Free, ArmedInv
<1>5. CASE ~Free
  <2>1. /\ Advance("srv") /\ ~srvClosed /\ srvClosed' = srvClosed
        /\ \/ WriteResult("srv") = "TRY_AGAIN" /\ Modfd({}, {"clt"})
           \/ WriteResult("srv") = "BUFFER_EMPTY" /\ Modfd({"srv", "clt"}, {})
    BY <1>5 DEF CltWrite
  <2>2. \/ /\ WriteResult("srv") = "TRY_AGAIN"
           /\ interest'["clt"] = "OUT" /\ interest'["srv"] = interest["srv"]
        \/ /\ WriteResult("srv") = "BUFFER_EMPTY"
           /\ interest'["clt"] = "IN" /\ interest'["srv"] = "IN"
    BY <1>1, <2>1 DEF Modfd
  <2>3. /\ WriteResult("srv") = "BUFFER_EMPTY" => Pending("srv")' = 0 /\ readIdx'["srv"] = 0
        /\ WriteResult("srv") # "BUFFER_EMPTY" => Pending("srv")' \in Nat /\ Pending("srv")' > 0
        /\ Pending("clt")' = Pending("clt") /\ readIdx'["clt"] = readIdx["clt"]
    BY <1>1, <2>1, Advanced
  <2>4. Pending("clt") = 0
    <3>1. Needed("srv")  BY <1>1, <1>2 DEF Armed
    <3>2. Pending("srv") # 0  BY <2>1, <3>1 DEF Needed
    <3> QED  BY <1>1, <3>2, OneWay
  <2>5. Armed("clt")'
    <3>1. Needed("clt") => Needed("clt")'  BY <2>1, <2>3 DEF Needed
    <3>2. \A k \in DOMAIN batch' : batch'[k] = [end |-> Other("clt"), type |-> "OUT"] => Needed("clt")'
      BY <1>1, <1>2, <3>1, BatchKept
    <3> QED  BY <1>1, <2>2, <2>3, <2>4, <3>1, <3>2 DEF Armed
  <2>6. Armed("srv")'
    <3>1. \A k \in DOMAIN batch' : batch'[k] # [end |-> Other("srv"), type |-> "OUT"]
      BY <1>1, <1>2
    <3> QED  BY <1>1, <2>2, <2>3, <3>1 DEF Armed, Needed
  <2> QED  BY <1>2, <1>3, <2>5, <2>6 DEF ArmedInv, End
<1> QED  BY <1>4, <1>5

LEMMA ArmedSrvWrite == Inv /\ ArmedInv /\ SrvWrite => ArmedInv'
<1> SUFFICES ASSUME Inv, ArmedInv, SrvWrite  PROVE ArmedInv'
  OBVIOUS
<1>1. /\ bound /\ bound' /\ Event("srv", "OUT") /\ Send("clt") /\ UNCHANGED <<sent, drained>>
      /\ TypeOK /\ OnceEach /\ TakeTurns /\ "clt" \in End /\ "srv" \in End
      /\ Armed("clt") /\ Armed("srv") /\ Other("clt") = "srv" /\ Other("srv") = "clt"
  BY DEF SrvWrite, Event, Send, ArmedInv, Inv, End, Other
<1>2. /\ OnceEach' /\ \E k \in DOMAIN batch : batch[k] = [end |-> "srv", type |-> "OUT"]
      /\ \A k \in DOMAIN batch' : /\ batch'[k].end # "srv"
                                  /\ \E j \in DOMAIN batch : batch'[k] = batch[j]
  BY <1>1, EventHandled
<1>3. TakeTurns'  BY <1>1, TurnsKept
<1>4. /\ Advance("clt")
      /\ \/ WriteResult("clt") = "TRY_AGAIN" /\ Modfd({}, {"srv"}) /\ srvClosed' = srvClosed
         \/ WriteResult("clt") = "BUFFER_EMPTY" /\ Modfd({"clt", "srv"}, {}) /\ srvClosed' = srvClosed
         \/ WriteResult("clt") = "IOERR" /\ Modfd({}, {"clt"}) /\ srvClosed'
  BY DEF SrvWrite
<1>5. \/ /\ WriteResult("clt") = "TRY_AGAIN" /\ srvClosed' = srvClosed
         /\ interest'["srv"] = "OUT" /\ interest'["clt"] = interest["clt"]
      \/ /\ WriteResult("clt") = "BUFFER_EMPTY" /\ srvClosed' = srvClosed
         /\ interest'["srv"] = "IN" /\ interest'["clt"] = "IN"
      \/ /\ WriteResult("clt") = "IOERR" /\ srvClosed'
         /\ interest'["clt"] = "OUT" /\ interest'["srv"] = interest["srv"]
  BY <1>1, <1>4 DEF Modfd
<1>6. /\ WriteResult("clt") = "BUFFER_EMPTY" => Pending("clt")' = 0 /\ readIdx'["clt"] = 0
      /\ WriteResult("clt") # "BUFFER_EMPTY" => Pending("clt")' \in Nat /\ Pending("clt")' > 0
      /\ Pending("srv")' = Pending("srv") /\ readIdx'["srv"] = readIdx["srv"]
  BY <1>1, <1>4, Advanced
<1>7. Pending("clt") > 0 /\ Pending("clt") \in Nat /\ Pending("srv") = 0
  <2>1. Needed("clt")  BY <1>1, <1>2 DEF Armed
  <2>2. Pending("clt") > 0 /\ Pending("clt") \in Nat  BY <1>1, <2>1, PendingIs DEF Needed
  <2> QED  BY <1>1, <2>2, OneWay
<1>8. Armed("clt")'
  <2>1. \A k \in DOMAIN batch' : batch'[k] # [end |-> Other("clt"), type |-> "OUT"]
    BY <1>1, <1>2
  <2>2. interest["srv"] = "OUT"  BY <1>1, <1>7 DEF Armed
  <2> QED  BY <1>1, <1>5, <1>6, <2>1, <2>2 DEF Armed, Needed
<1>9. Armed("srv")'
  <2>1. Needed("srv") => Needed("srv")'  BY <1>5, <1>6 DEF Needed
  <2>2. \A k \in DOMAIN batch' : batch'[k] = [end |-> Other("srv"), type |-> "OUT"] => Needed("srv")'
    BY <1>1, <1>2, <2>1, BatchKept
  <2>3. interest'["clt"] = "OUT" => Needed("srv")'
    BY <1>1, <1>5, <2>1 DEF Armed, Needed
  <2> QED  BY <1>1, <1>6, <1>7, <2>2, <2>3 DEF Armed
<1> QED  BY <1>2, <1>3, <1>8, <1>9 DEF ArmedInv, End

LEMMA ArmedEpoll == Inv /\ ArmedInv /\ (EpollWait \/ Stale) => ArmedInv'
<1> SUFFICES ASSUME Inv, ArmedInv, EpollWait \/ Stale  PROVE ArmedInv'
  OBVIOUS
<1>1. UNCHANGED <<readIdx, writeIdx, srvClosed, bound, interest, sent, drained>>
  BY DEF EpollWait, Stale, connVars, netVars
<1>2. TakeTurns'  BY <1>1, TurnsKept DEF ArmedInv
<1>3. CASE Stale
  <2>1. ~bound' /\ batch # <<>> /\ batch' = Tail(batch) /\ batch \in Seq(EventType) /\ OnceEach
    BY <1>1, <1>3 DEF Stale, Inv, TypeOK, ArmedInv
  <2>2. OnceEach'
    <3> DEFINE n == Len(batch)
    <3> HIDE DEF EventType
    <3>1. n \in Nat /\ DOMAIN batch = 1..n /\ n > 0  BY <2>1, EmptySeq, LenProperties
    <3>2. DOMAIN batch' = 1..(n - 1) /\ \A i \in 1..(n - 1) : batch'[i] = batch[i + 1]
      BY <2>1, <3>1
    <3> HIDE DEF n
    <3>3. \A i \in 1..(n - 1) : i + 1 \in 1..n  BY <3>1
    <3>4. \A i, j \in 1..(n - 1) : i + 1 = j + 1 => i = j  BY <3>1
    <3> SUFFICES ASSUME NEW i \in 1..(n - 1), NEW j \in 1..(n - 1), batch'[i].end = batch'[j].end
                 PROVE  i = j
      BY <3>2 DEF OnceEach
    <3>5. i + 1 = j + 1  BY <2>1, <3>1, <3>2, <3>3 DEF OnceEach
    <3> QED  BY <3>4, <3>5
  <2> QED  BY <1>2, <2>1, <2>2 DEF ArmedInv
<1>4. CASE EpollWait
  <2>1. bound /\ \A e \in End : Armed(e)  BY <1>4 DEF EpollWait, ArmedInv
  <2>2. PICK order \in {<<>>, <<"clt">>, <<"srv">>, <<"clt", "srv">>, <<"srv", "clt">>} :
            batch' = [i \in 1..Len(order) |-> [end |-> order[i], type |-> interest[order[i]]]]
    BY <1>4 DEF EpollWait
  <2>3. \A i, j \in 1..Len(order) : order[i] = order[j] => i = j
    <3>1. CASE order = <<>>  BY <3>1
    <3>2. CASE order = <<"clt">>  BY <3>2
    <3>3. CASE order = <<"srv">>  BY <3>3
    <3>4. CASE order = <<"clt", "srv">>  BY <3>4
    <3>5. CASE order = <<"srv", "clt">>  BY <3>5
    <3> QED  BY <2>2, <3>1, <3>2, <3>3, <3>4, <3>5
  <2>4. OnceEach'  BY <2>2, <2>3 DEF OnceEach
  <2>5. ASSUME NEW e \in End  PROVE Armed(e)'
    <3>1. Armed(e) /\ Pending(e)' = Pending(e) /\ (Needed(e)' <=> Needed(e))
      BY <1>1, <2>1 DEF Pending, Needed
    <3>2. \A k \in DOMAIN batch' : batch'[k] = [end |-> Other(e), type |-> "OUT"] => Needed(e)'
      <4> SUFFICES ASSUME NEW k \in DOMAIN batch', batch'[k] = [end |-> Other(e), type |-> "OUT"]
                   PROVE  Needed(e)'
        OBVIOUS
      <4>1. order[k] = Other(e) /\ interest[order[k]] = "OUT"  BY <2>2
      <4> QED  BY <3>1, <4>1 DEF Armed
    <3> QED  BY <1>1, <3>1, <3>2 DEF Armed
  <2> QED  BY <1>2, <2>4, <2>5 DEF ArmedInv
<1> QED  BY <1>3, <1>4

LEMMA ArmedPeers == HalfDuplex /\ Inv /\ ArmedInv /\ Peers => ArmedInv'
<1> SUFFICES ASSUME HalfDuplex, Inv, ArmedInv,
                    NEW e \in End, PeerSend(e) \/ PeerDrain(e) \/ PeerStop(e)
             PROVE  ArmedInv'
  BY DEF Peers
<1>1. UNCHANGED <<readIdx, writeIdx, srvClosed, bound, interest, batch>>
  BY DEF PeerSend, PeerDrain, PeerStop, connVars
<1>2. OnceEach'  BY <1>1 DEF OnceEach, ArmedInv
<1>3. ASSUME bound', NEW d \in End  PROVE Armed(d)'
  <2>1. Armed(d)  BY <1>1, <1>3 DEF ArmedInv
  <2> QED  BY <1>1, <2>1 DEF Armed, Needed, Pending
<1>4. TakeTurns'
  <2>1. /\ sent \in [End -> Nat] /\ drained \in [End -> Nat] /\ "clt" \in End /\ "srv" \in End
        /\ e \in {"clt", "srv"}
    BY DEF Inv, TypeOK, End
  <2>2. PICK j \in Nat : j * RespLen <= drained["clt"] /\ sent["clt"] <= ReqLen * (1 + j)
    BY DEF ArmedInv, TakeTurns
  <2>3. PICK k \in Nat : k * ReqLen <= drained["srv"] /\ sent["srv"] <= RespLen * k
    BY DEF ArmedInv, TakeTurns
  <2>4. CASE PeerStop(e)  BY <2>4, TurnsKept DEF PeerStop, ArmedInv
  <2>5. CASE PeerDrain(e)
    <3>1. /\ sent' = sent /\ drained'["clt"] \in {drained["clt"], drained["clt"] + 1}
          /\ drained'["srv"] \in {drained["srv"], drained["srv"] + 1}
      BY <2>1, <2>5 DEF PeerDrain
    <3>2. j * RespLen <= drained'["clt"]
      <4>1. j * RespLen \in Nat  BY Lengths
      <4> QED  BY <2>1, <2>2, <3>1, <4>1
    <3>3. k * ReqLen <= drained'["srv"]
      <4>1. k * ReqLen \in Nat  BY Lengths
      <4> QED  BY <2>1, <2>3, <3>1, <4>1
    <3> QED  BY <2>2, <2>3, <3>1, <3>2, <3>3 DEF TakeTurns
  <2>6. CASE PeerSend(e)
    <3>1. drained' = drained /\ MaySend(e) /\ sent' = [sent EXCEPT ![e] = @ + 1]
      BY <2>6 DEF PeerSend
    <3>2. CASE e = "clt"
      <4>1. PICK q \in Nat : q = drained["clt"] \div RespLen /\ q * RespLen <= drained["clt"]
        BY <2>1, Lengths
      <4>2. sent["clt"] < ReqLen * (1 + q)  BY <3>1, <3>2, <4>1 DEF MaySend
      <4>3. ReqLen * (1 + q) \in Nat  BY Lengths
      <4>4. sent'["clt"] <= ReqLen * (1 + q) /\ sent'["srv"] = sent["srv"]
        BY <2>1, <3>1, <3>2, <4>2, <4>3
      <4> QED  BY <2>3, <3>1, <4>1, <4>4 DEF TakeTurns
    <3>3. CASE e = "srv"
      <4>1. PICK q \in Nat : q = drained["srv"] \div ReqLen /\ q * ReqLen <= drained["srv"]
        BY <2>1, Lengths
      <4>2. sent["srv"] < RespLen * q  BY <3>1, <3>3, <4>1 DEF MaySend
      <4>3. RespLen * q \in Nat  BY Lengths
      <4>4. sent'["srv"] <= RespLen * q /\ sent'["clt"] = sent["clt"]
        BY <2>1, <3>1, <3>3, <4>2, <4>3
      <4> QED  BY <2>2, <3>1, <4>1, <4>4 DEF TakeTurns
    <3> QED  BY <2>1, <3>2, <3>3
  <2> QED  BY <2>4, <2>5, <2>6
<1> QED  BY <1>2, <1>3, <1>4 DEF ArmedInv

LEMMA ArmedInit == Init => ArmedInv
<1> SUFFICES ASSUME Init  PROVE ArmedInv
  OBVIOUS
<1>1. "clt" \in End /\ "srv" \in End /\ \A e \in End : Other(e) \in End  BY DEF End, Other
<1>2. TakeTurns
  <2>1. 0 * RespLen <= drained["clt"] /\ sent["clt"] <= ReqLen * (1 + 0)
    BY <1>1, Lengths DEF Init
  <2>2. 0 * ReqLen <= drained["srv"] /\ sent["srv"] <= RespLen * 0
    BY <1>1, Lengths DEF Init
  <2> QED  BY <2>1, <2>2 DEF TakeTurns
<1>3. batch = <<>> /\ OnceEach  BY DEF Init, OnceEach
<1>4. \A e \in End : Armed(e)  BY <1>1, <1>3 DEF Init, Armed, Pending
<1> QED  BY <1>2, <1>3, <1>4 DEF ArmedInv

LEMMA ArmedNext == HalfDuplex /\ Inv /\ ArmedInv /\ [Next]_vars => ArmedInv'
<1> SUFFICES ASSUME HalfDuplex, Inv, ArmedInv, [Next]_vars  PROVE ArmedInv'
  OBVIOUS
<1>1. CASE Relay
  BY <1>1, ArmedCltRead, ArmedCltWrite, ArmedSrvRead, ArmedSrvWrite, ArmedEpoll DEF Relay
<1>2. CASE Peers  BY <1>2, ArmedPeers
<1>3. CASE UNCHANGED vars
  BY <1>3 DEF vars, ArmedInv, TakeTurns, OnceEach, Armed, Needed, Pending
<1> QED  BY <1>1, <1>2, <1>3 DEF Next

\* Between peers that wait for each other's complete messages, of whatever
\* length and through buffers of whatever size, the modfd calls of process
\* never take back a write interest that is still needed.
THEOREM PendingArmed == Spec => [](HalfDuplex => PendingIsArmed)
<1> DEFINE Both == Inv /\ (HalfDuplex => ArmedInv)
<1>1. Init => Both  BY InitInv, ArmedInit
<1>2. Both /\ [Next]_vars => Both'  BY NextInv, ArmedNext
<1>3. Both => (HalfDuplex => PendingIsArmed)  BY DEF ArmedInv, Armed, PendingIsArmed
<1> HIDE DEF Both
<1> QED  BY <1>1, <1>2, <1>3, PTL DEF Spec

=============================================================================
