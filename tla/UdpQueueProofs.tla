--------------------------- MODULE UdpQueueProofs ---------------------------
(***************************************************************************)
(* Proofs of the safety of UdpQueue, for every size of the send buffer,    *)
(* all lengths of datagrams and any number of them.                        *)
(***************************************************************************)
EXTENDS UdpQueue, SequenceTheorems, TLAPS

(* The places of the length fields in buffer b behind cell t, and the last *)
(* cell of the record that such a field belongs to, for the lengths l.     *)
Heads(b, t) == {k \in t + 1..Len(b) : b[k][2] = HEAD_LEN}
End(b, l, k) == k + l[b[k][1]]

(* From t on, b is one record after the other, of ever newer datagrams.    *)
Laid(b, t, l) ==
  /\ t <= Len(b)
  /\ t # Len(b) => t + HEAD_LEN \in Heads(b, t)
  /\ \A k \in Heads(b, t) :
       /\ k >= t + HEAD_LEN
       /\ End(b, l, k) <= Len(b)
       /\ End(b, l, k) # Len(b) => End(b, l, k) + HEAD_LEN \in Heads(b, t)
       /\ \A j \in Heads(b, t) :
            j > k => j >= End(b, l, k) + HEAD_LEN /\ b[k][1] < b[j][1]

(* A record has its own address or none, and its own data unless it was    *)
(* in the buffer with others (s).                                          *)
Own(b, t, l, s) ==
  \A k \in Heads(b, t) :
    /\ b[k - ADDR_LEN] = Zero \/ b[k - ADDR_LEN] = <<b[k][1], 1>>
    /\ b[k][1] \notin s => \A d \in 1..l[b[k][1]] : b[k + d] = <<b[k][1], HEAD_LEN + d>>

(* Everything in the buffer, and everything sent, was given to Sendto;     *)
(* outside of OnOut its total does not exist.                              *)
GivenInv ==
  /\ \A k \in 1..size : m_writeBuffer[k][1] <= Len(length)
  /\ \A j \in 1..Len(sent) : sent[j].datagram <= Len(length)
  /\ at \in {"idle", "recv"} => total = 0

(* For the lengths that InOrder is about, the buffer is laid out, and all  *)
(* it holds is newer than what was sent.                                   *)
LayoutInv ==
  Compatible =>
    /\ Laid(m_writeBuffer, total, length)
    /\ Own(m_writeBuffer, total, length, shared)
    /\ \A j \in 1..Len(sent) : \A k \in Heads(m_writeBuffer, total) :
         sent[j].datagram < m_writeBuffer[k][1]

(* EdgeOwed is kept because a receiver leaves the buffer alone.            *)
OwedInv ==
  open =>
    /\ at \in {"idle", "recv"} /\ m_writeBuffer # <<>> => inflight > 0 \/ edge \/ "OUT" \in event
    /\ reader = "waiting" /\ avail > 0 => edge \/ "IN" \in event

(* A buffer of cells of datagrams that were given to Sendto. *)
Filled(b, l) ==
  /\ b \in Seq(Cells) /\ l \in Seq(Lengths) /\ Len(l) <= MaxDatagrams
  /\ \A k \in 1..Len(b) : b[k][1] <= Len(l)

USE LengthsAssumption, SizesAssumption

-----------------------------------------------------------------------------
(* Cells, records and their places. *)

LEMMA CellParts ==
  ASSUME NEW c \in Cells
  PROVE  c[1] \in Nat /\ c[2] \in Nat /\ (c[2] # 0 => c[1] \in Ids) /\ (c[2] = 0 => c = Zero)
  BY DEF Cells, Zero, Ids

LEMMA HeadFacts ==
  ASSUME NEW b, NEW l, Filled(b, l), NEW t \in Nat, NEW k \in Heads(b, t)
  PROVE  /\ k \in 1..Len(b) /\ k \in Nat /\ k > t
         /\ b[k][1] \in 1..Len(l) /\ b[k][1] \in Ids
         /\ l[b[k][1]] \in Lengths /\ l[b[k][1]] \in Nat \ {0}
         /\ End(b, l, k) \in Nat /\ End(b, l, k) > k
  <1>1. Len(b) \in Nat /\ Len(l) \in Nat
    BY DEF Filled
  <1>2. k \in 1..Len(b) /\ k \in Nat /\ k > t /\ b[k][2] = HEAD_LEN
    BY <1>1 DEF Heads
  <1>3. b[k] \in Cells
    BY <1>2 DEF Filled
  <1>4. b[k][1] \in Ids
    BY <1>2, <1>3, CellParts DEF HEAD_LEN, ADDR_LEN
  <1>5. b[k][1] \in 1..Len(l)
    BY <1>1, <1>2, <1>4 DEF Filled, Ids
  <1>6. l[b[k][1]] \in Lengths
    BY <1>5 DEF Filled
  <1>7. l[b[k][1]] \in Nat \ {0}
    BY <1>6
  <1>8. End(b, l, k) \in Nat /\ End(b, l, k) > k
    BY <1>2, <1>7 DEF End
  <1> QED
    BY <1>2, <1>4, <1>5, <1>6, <1>7, <1>8

LEMMA RecordFacts ==
  ASSUME NEW i \in Ids, NEW len \in Lengths
  PROVE  /\ Record(i, len) \in Seq(Cells) /\ Len(Record(i, len)) = HEAD_LEN + len
         /\ \A k \in 1..HEAD_LEN + len : Record(i, len)[k] = <<i, k>>
  <1>1. len \in Nat /\ HEAD_LEN + len \in Nat
    BY DEF HEAD_LEN, ADDR_LEN
  <1>2. \A k \in 1..HEAD_LEN + len : <<i, k>> \in Cells
    BY <1>1 DEF Cells
  <1> QED
    BY <1>1, <1>2 DEF Record

LEMMA WrittenFacts ==
  ASSUME NEW buf \in Seq(Cells), NEW offset \in Nat, NEW a \in Seq(Cells)
  PROVE  /\ Written(buf, offset, a) \in Seq(Cells)
         /\ Len(Written(buf, offset, a)) = Len(buf)
         /\ \A k \in 1..Len(buf) : Written(buf, offset, a)[k] =
              IF k > offset /\ k - offset <= Len(a) THEN a[k - offset] ELSE buf[k]
  <1>1. Len(buf) \in Nat /\ Len(a) \in Nat
    OBVIOUS
  <1>2. \A k \in 1..Len(buf) :
          (IF k > offset /\ k - offset <= Len(a) THEN a[k - offset] ELSE buf[k]) \in Cells
    BY <1>1
  <1> QED
    BY <1>1, <1>2 DEF Written

(* What Sendto makes of the buffer, cell by cell. *)
LEMMA QueuedFacts ==
  ASSUME m_writeBuffer \in Seq(Cells), NEW i \in Ids, NEW len \in Lengths
  PROVE  /\ Queued(i, len) \in Seq(Cells) /\ Len(Queued(i, len)) = size + HEAD_LEN + len
         /\ \A k \in 1..size + HEAD_LEN + len : Queued(i, len)[k] =
              IF k > size + ADDR_LEN THEN <<i, k - size>>
              ELSE IF k > len /\ k <= len + ADDR_LEN THEN <<i, k - len>>
              ELSE IF k <= size THEN m_writeBuffer[k] ELSE Zero
  <1> DEFINE zeros == [k \in 1..HEAD_LEN + len |-> Zero]
             grown == m_writeBuffer \o zeros
             front == SubSeq(Record(i, len), 1, ADDR_LEN)
             back  == SubSeq(Record(i, len), ADDR_LEN + 1, HEAD_LEN + len)
             addressed == Written(grown, AddressOffset(len), front)
  <1>1. len \in Nat /\ size \in Nat /\ HEAD_LEN = 3 /\ ADDR_LEN = 2 /\ AddressOffset(len) = len
    BY DEF size, HEAD_LEN, ADDR_LEN, AddressOffset
  <1>2. zeros \in Seq(Cells) /\ Len(zeros) = 3 + len /\ \A k \in 1..3 + len : zeros[k] = Zero
    BY <1>1 DEF Cells
  <1>3. /\ grown \in Seq(Cells) /\ Len(grown) = size + 3 + len
        /\ \A k \in 1..size + 3 + len : grown[k] = IF k <= size THEN m_writeBuffer[k] ELSE Zero
    <2> HIDE DEF zeros
    <2> QED BY <1>1, <1>2 DEF size
  <1>4. /\ front \in Seq(Cells) /\ Len(front) = 2
        /\ \A k \in 1..2 : front[k] = <<i, k>>
        /\ back \in Seq(Cells) /\ Len(back) = len + 1
        /\ \A k \in 1..len + 1 : back[k] = <<i, 2 + k>>
    <2> DEFINE r == Record(i, len)
    <2>1. /\ r \in Seq(Cells) /\ Len(r) = 3 + len
          /\ \A k \in 1..3 + len : r[k] = <<i, k>>
      BY <1>1, RecordFacts
    <2> HIDE DEF r
    <2>2. /\ SubSeq(r, 1, 2) \in Seq(Cells) /\ Len(SubSeq(r, 1, 2)) = 2
          /\ \A k \in 1..2 : SubSeq(r, 1, 2)[k] = <<i, k>>
      BY <1>1, <2>1
    <2>3. /\ SubSeq(r, 3, 3 + len) \in Seq(Cells) /\ Len(SubSeq(r, 3, 3 + len)) = len + 1
          /\ \A k \in 1..len + 1 : SubSeq(r, 3, 3 + len)[k] = <<i, 2 + k>>
      BY <1>1, <2>1
    <2> QED BY <1>1, <2>2, <2>3 DEF r
  <1> HIDE DEF zeros, grown, front, back
  <1>5. /\ addressed \in Seq(Cells) /\ Len(addressed) = size + 3 + len
        /\ \A k \in 1..size + 3 + len :
             addressed[k] = IF k > len /\ k - len <= 2 THEN front[k - len] ELSE grown[k]
    <2>1. addressed = Written(grown, len, front)
      BY <1>1
    <2> HIDE DEF addressed
    <2>2. /\ Written(grown, len, front) \in Seq(Cells)
          /\ Len(Written(grown, len, front)) = Len(grown)
          /\ \A k \in 1..Len(grown) : Written(grown, len, front)[k] =
               IF k > len /\ k - len <= Len(front) THEN front[k - len] ELSE grown[k]
      BY <1>1, <1>3, <1>4, WrittenFacts
    <2> QED
      BY <1>3, <1>4, <2>1, <2>2
  <1>6. Queued(i, len) = Written(addressed, size + 2, back)
    BY <1>1 DEF Queued, addressed, grown, zeros, front, back
  <1> HIDE DEF addressed
  <1>7. /\ Queued(i, len) \in Seq(Cells) /\ Len(Queued(i, len)) = size + 3 + len
        /\ \A k \in 1..size + 3 + len : Queued(i, len)[k] =
             IF k > size + 2 /\ k - (size + 2) <= len + 1
             THEN back[k - (size + 2)] ELSE addressed[k]
    <2> DEFINE offset == size + 2
    <2>1. offset \in Nat
      BY <1>1
    <2> HIDE DEF offset
    <2>2. /\ Written(addressed, offset, back) \in Seq(Cells)
          /\ Len(Written(addressed, offset, back)) = Len(addressed)
          /\ \A k \in 1..Len(addressed) : Written(addressed, offset, back)[k] =
               IF k > offset /\ k - offset <= Len(back) THEN back[k - offset] ELSE addressed[k]
      BY <1>4, <1>5, <2>1, WrittenFacts
    <2> QED
      BY <1>4, <1>5, <1>6, <2>2 DEF offset
  <1>8. ASSUME NEW k \in 1..size + 3 + len, k > size + 2
        PROVE  Queued(i, len)[k] = <<i, k - size>>
    <2>1. k - (size + 2) \in 1..len + 1 /\ 2 + (k - (size + 2)) = k - size
      BY <1>1, <1>8
    <2> QED
      BY <1>1, <1>4, <1>7, <1>8, <2>1
  <1>9. ASSUME NEW k \in 1..size + 3 + len, ~(k > size + 2)
        PROVE  Queued(i, len)[k] = IF k > len /\ k <= len + 2 THEN <<i, k - len>>
                                   ELSE IF k <= size THEN m_writeBuffer[k] ELSE Zero
    <2>1. Queued(i, len)[k] = addressed[k]
      BY <1>1, <1>7, <1>9
    <2>2. CASE k > len /\ k <= len + 2
      <3>1. k - len \in 1..2
        BY <1>1, <2>2
      <3> QED
        BY <1>1, <1>4, <1>5, <2>1, <2>2, <3>1
    <2>3. CASE ~(k > len /\ k <= len + 2)
      <3>1. addressed[k] = grown[k]
        BY <1>1, <1>5, <2>3
      <3> QED
        BY <1>1, <1>3, <2>1, <2>3, <3>1
    <2> QED
      BY <2>2, <2>3
  <1> QED
    BY <1>1, <1>7, <1>8, <1>9

(* The rest of a buffer, cell by cell. *)
LEMMA RestFacts ==
  ASSUME NEW b \in Seq(Cells), NEW t \in 0..Len(b)
  PROVE  /\ SubSeq(b, t + 1, Len(b)) \in Seq(Cells)
         /\ Len(SubSeq(b, t + 1, Len(b))) = Len(b) - t
         /\ \A k \in 1..Len(b) - t : SubSeq(b, t + 1, Len(b))[k] = b[t + k]
  OBVIOUS

-----------------------------------------------------------------------------
(* What the operations do to a buffer that is laid out. *)

(* A buffer without records. *)
LEMMA NothingLaid ==
  ASSUME NEW l, NEW s
  PROVE  /\ Heads(<<>>, 0) = {}
         /\ Laid(<<>>, 0, l) /\ Own(<<>>, 0, l, s)
  <1>1. Heads(<<>>, 0) = {}
    BY DEF Heads
  <1> QED
    BY <1>1 DEF Laid, Own

(* The first record is legible, and what follows it is laid out. *)
LEMMA NextLaid ==
  ASSUME NEW b, NEW l, Filled(b, l), NEW t \in Nat, NEW s,
         t # Len(b), Laid(b, t, l), Own(b, t, l, s)
  PROVE  LET h == t + HEAD_LEN  n == End(b, l, h) IN
         /\ h \in Heads(b, t) /\ n \in Nat /\ n <= Len(b)
         /\ Laid(b, n, l) /\ Own(b, n, l, s)
         /\ \A j \in Heads(b, n) : j \in Heads(b, t) /\ b[h][1] < b[j][1]
  <1> DEFINE h == t + HEAD_LEN
             n == End(b, l, h)
  <1>1. h \in Heads(b, t) /\ HEAD_LEN = 3 /\ Len(b) \in Nat
    BY DEF Laid, Filled, HEAD_LEN, ADDR_LEN
  <1>2. n \in Nat /\ n > h /\ n <= Len(b) /\ h \in Nat /\ h > t
    BY <1>1, HeadFacts DEF Laid
  <1>3. /\ n # Len(b) => n + 3 \in Heads(b, t)
        /\ \A j \in Heads(b, t) : j > h => j >= n + 3 /\ b[h][1] < b[j][1]
    BY <1>1 DEF Laid
  <1> HIDE DEF h, n
  <1>4. \A j \in Heads(b, n) : j \in Heads(b, t) /\ j \in Nat /\ j > n
    BY <1>1, <1>2 DEF Heads
  <1>5. \A j \in Heads(b, t) : j > n => j \in Heads(b, n)
    BY <1>1, <1>2 DEF Heads
  <1>6. \A j \in Heads(b, n) : j > h /\ j >= n + 3 /\ b[h][1] < b[j][1]
    BY <1>2, <1>3, <1>4
  <1>7. Laid(b, n, l)
    <2>1. n # Len(b) => n + 3 \in Heads(b, n)
      BY <1>2, <1>3, <1>5
    <2>2. ASSUME NEW k \in Heads(b, n)
          PROVE  /\ k >= n + 3
                 /\ End(b, l, k) <= Len(b)
                 /\ End(b, l, k) # Len(b) => End(b, l, k) + 3 \in Heads(b, n)
                 /\ \A j \in Heads(b, n) :
                      j > k => j >= End(b, l, k) + 3 /\ b[k][1] < b[j][1]
      <3>1. k \in Heads(b, t) /\ k \in Nat /\ k > n
        BY <1>4
      <3>2. End(b, l, k) \in Nat /\ End(b, l, k) > k
        BY <3>1, HeadFacts
      <3>3. /\ End(b, l, k) <= Len(b)
            /\ End(b, l, k) # Len(b) => End(b, l, k) + 3 \in Heads(b, t)
            /\ \A j \in Heads(b, t) :
                 j > k => j >= End(b, l, k) + 3 /\ b[k][1] < b[j][1]
        BY <1>1, <3>1 DEF Laid
      <3>4. End(b, l, k) # Len(b) => End(b, l, k) + 3 \in Heads(b, n)
        BY <1>2, <1>5, <3>1, <3>2, <3>3
      <3> QED
        BY <1>4, <1>6, <3>3, <3>4
    <2> QED
      BY <1>1, <1>2, <2>1, <2>2 DEF Laid
  <1>8. Own(b, n, l, s)
    BY <1>4 DEF Own
  <1> QED
    BY <1>1, <1>2, <1>4, <1>6, <1>7, <1>8 DEF h, n

(* What OnOut leaves, when it has moved to the front. *)
LEMMA RestLaid ==
  ASSUME NEW b, NEW l, Filled(b, l), NEW t \in Nat, NEW s,
         Laid(b, t, l), Own(b, t, l, s)
  PROVE  LET r == SubSeq(b, t + 1, Len(b)) IN
         /\ Filled(r, l) /\ Laid(r, 0, l) /\ Own(r, 0, l, s)
         /\ \A k \in Heads(r, 0) : t + k \in Heads(b, t) /\ r[k] = b[t + k]
  <1> DEFINE r == SubSeq(b, t + 1, Len(b))
  <1>1. /\ t <= Len(b) /\ t \in 0..Len(b) /\ Len(b) \in Nat /\ HEAD_LEN = 3 /\ ADDR_LEN = 2
        /\ b \in Seq(Cells)
    BY DEF Laid, Filled, HEAD_LEN, ADDR_LEN
  <1>2. /\ r \in Seq(Cells) /\ Len(r) = Len(b) - t
        /\ \A k \in 1..Len(b) - t : r[k] = b[t + k]
    BY <1>1, RestFacts
  <1> HIDE DEF r
  <1>3. Filled(r, l)
    <2>1. \A k \in 1..Len(r) : r[k] = b[t + k] /\ t + k \in 1..Len(b)
      BY <1>1, <1>2
    <2> QED
      BY <1>2, <2>1 DEF Filled
  <1>4. \A k \in Heads(r, 0) : /\ k \in 1..Len(b) - t /\ k \in Nat
                               /\ t + k \in Heads(b, t) /\ r[k] = b[t + k]
    BY <1>1, <1>2 DEF Heads
  <1>5. \A j \in Nat : t + j \in Heads(b, t) => j \in Heads(r, 0)
    BY <1>1, <1>2 DEF Heads
  <1>6. \A k \in Heads(r, 0) : End(b, l, t + k) = t + End(r, l, k) /\ End(r, l, k) \in Nat
    <2> SUFFICES ASSUME NEW k \in Heads(r, 0)
                 PROVE  End(b, l, t + k) = t + End(r, l, k) /\ End(r, l, k) \in Nat
      OBVIOUS
    <2>1. k \in Nat /\ r[k] = b[t + k] /\ l[r[k][1]] \in Nat \ {0}
      BY <1>3, <1>4, HeadFacts
    <2> QED
      BY <2>1 DEF End
  <1>7. Laid(r, 0, l)
    <2>1. 0 # Len(r) => 3 \in Heads(r, 0)
      BY <1>1, <1>2, <1>5 DEF Laid
    <2>2. ASSUME NEW k \in Heads(r, 0)
          PROVE  /\ k >= 3
                 /\ End(r, l, k) <= Len(r)
                 /\ End(r, l, k) # Len(r) => End(r, l, k) + 3 \in Heads(r, 0)
                 /\ \A j \in Heads(r, 0) :
                      j > k => j >= End(r, l, k) + 3 /\ r[k][1] < r[j][1]
      <3>1. /\ t + k >= t + 3
            /\ End(b, l, t + k) <= Len(b)
            /\ End(b, l, t + k) # Len(b) => End(b, l, t + k) + 3 \in Heads(b, t)
            /\ \A j \in Heads(b, t) :
                 j > t + k => j >= End(b, l, t + k) + 3 /\ b[t + k][1] < b[j][1]
        BY <1>1, <1>4 DEF Laid
      <3>2. End(b, l, t + k) = t + End(r, l, k) /\ End(r, l, k) \in Nat
        BY <1>6
      <3>3. End(r, l, k) # Len(r) => End(r, l, k) + 3 \in Heads(r, 0)
        <4>1. /\ End(b, l, t + k) + 3 = t + (End(r, l, k) + 3)
              /\ End(r, l, k) + 3 \in Nat
          BY <1>1, <3>2
        <4>2. End(r, l, k) # Len(r) => End(b, l, t + k) # Len(b)
          BY <1>1, <1>2, <3>2
        <4> QED
          BY <1>5, <3>1, <4>1, <4>2
      <3>4. ASSUME NEW j \in Heads(r, 0), j > k
            PROVE  j >= End(r, l, k) + 3 /\ r[k][1] < r[j][1]
        <4>1. t + j \in Heads(b, t) /\ t + j > t + k /\ r[j] = b[t + j] /\ r[k] = b[t + k]
          BY <1>1, <1>4, <3>4
        <4>2. t + j >= End(b, l, t + k) + 3 /\ b[t + k][1] < b[t + j][1]
          BY <3>1, <4>1
        <4> QED
          BY <1>1, <1>4, <3>2, <4>1, <4>2
      <3> QED
        BY <1>1, <1>2, <1>4, <3>1, <3>2, <3>3, <3>4
    <2> QED
      BY <1>1, <1>2, <2>1, <2>2 DEF Laid
  <1>8. Own(r, 0, l, s)
    <2> SUFFICES ASSUME NEW k \in Heads(r, 0)
                 PROVE  /\ r[k - 2] = Zero \/ r[k - 2] = <<r[k][1], 1>>
                        /\ r[k][1] \notin s =>
                             \A d \in 1..l[r[k][1]] : r[k + d] = <<r[k][1], HEAD_LEN + d>>
      BY <1>1 DEF Own
    <2>1. /\ b[t + k - 2] = Zero \/ b[t + k - 2] = <<b[t + k][1], 1>>
          /\ b[t + k][1] \notin s =>
               \A d \in 1..l[b[t + k][1]] : b[t + k + d] = <<b[t + k][1], HEAD_LEN + d>>
      BY <1>1, <1>4 DEF Own
    <2>2. r[k] = b[t + k] /\ k \in 1..Len(b) - t /\ k >= 3
      BY <1>1, <1>4, <1>7 DEF Laid
    <2>3. k - 2 \in 1..Len(b) - t /\ t + (k - 2) = t + k - 2
      BY <1>1, <2>2
    <2>4. r[k - 2] = b[t + k - 2]
      BY <1>2, <2>3
    <2>5. ASSUME NEW d \in 1..l[r[k][1]] PROVE r[k + d] = b[t + k + d]
      <3>1. /\ End(r, l, k) <= Len(b) - t /\ End(r, l, k) = k + l[r[k][1]]
            /\ l[r[k][1]] \in Nat
        BY <1>2, <1>3, <1>7, HeadFacts DEF Laid, End
      <3>2. k + d \in 1..Len(b) - t /\ t + (k + d) = t + k + d
        BY <1>1, <2>2, <3>1
      <3> QED
        BY <1>2, <3>2
    <2> QED
      BY <2>1, <2>2, <2>4, <2>5
  <1> QED
    BY <1>3, <1>4, <1>7, <1>8 DEF r

(* A buffer that holds one datagram. *)
LEMMA RecordLaid ==
  ASSUME NEW l, l \in Seq(Lengths), Len(l) <= MaxDatagrams, NEW i \in 1..Len(l), NEW s
  PROVE  LET b == Record(i, l[i]) IN
         /\ Filled(b, l) /\ Laid(b, 0, l) /\ Own(b, 0, l, s)
         /\ \A k \in Heads(b, 0) : b[k][1] = i
  <1> DEFINE b == Record(i, l[i])
  <1>1. /\ l[i] \in Lengths /\ i \in Ids /\ l[i] \in Nat \ {0} /\ Len(l) \in Nat
        /\ HEAD_LEN = 3 /\ ADDR_LEN = 2
    <2>1. l[i] \in Lengths /\ Len(l) \in Nat
      OBVIOUS
    <2>2. l[i] \in Nat \ {0}
      BY <2>1
    <2>3. i \in Ids
      BY <2>1 DEF Ids
    <2> QED
      BY <2>1, <2>2, <2>3 DEF HEAD_LEN, ADDR_LEN
  <1>2. b \in Seq(Cells) /\ Len(b) = 3 + l[i] /\ \A k \in 1..3 + l[i] : b[k] = <<i, k>>
    BY <1>1, RecordFacts
  <1> HIDE DEF b
  <1>3. Filled(b, l)
    BY <1>1, <1>2 DEF Filled
  <1>4. Heads(b, 0) = {3}
    BY <1>1, <1>2 DEF Heads
  <1>5. b[3] = <<i, 3>> /\ b[1] = <<i, 1>> /\ End(b, l, 3) = 3 + l[i]
    BY <1>1, <1>2 DEF End
  <1>6. Laid(b, 0, l)
    BY <1>1, <1>2, <1>4, <1>5 DEF Laid
  <1>7. \A d \in 1..l[i] : b[3 + d] = <<i, 3 + d>>
    BY <1>1, <1>2
  <1>8. Own(b, 0, l, s)
    BY <1>1, <1>4, <1>5, <1>7 DEF Own
  <1> QED
    BY <1>3, <1>4, <1>5, <1>6, <1>8 DEF b

(* A datagram queued behind others: its address falls into the data of the *)
(* first record, and no length field is hit.                               *)
LEMMA QueuedLaid ==
  ASSUME Filled(m_writeBuffer, length), Len(length) < MaxDatagrams, NEW len \in Lengths,
         NEW i, i = Len(length) + 1, NEW l, l = Append(length, len),
         \A j, k \in 1..Len(l) : l[j] >= HEAD_LEN /\ l[k] <= l[j] + 1,
         m_writeBuffer # <<>>, Laid(m_writeBuffer, 0, length), Own(m_writeBuffer, 0, length, shared)
  PROVE  LET b == Queued(i, len) IN
         /\ Filled(b, l) /\ Laid(b, 0, l) /\ Own(b, 0, l, shared \cup InBuffer \cup {i})
         /\ \A k \in Heads(b, 0) :
              b[k][1] = i \/ (k \in Heads(m_writeBuffer, 0) /\ b[k] = m_writeBuffer[k])
  <1> DEFINE b == Queued(i, len)
             n == End(m_writeBuffer, length, 3)
  <1>1. /\ m_writeBuffer \in Seq(Cells) /\ length \in Seq(Lengths) /\ Len(length) \in Nat
        /\ size \in Nat /\ size # 0 /\ size = Len(m_writeBuffer)
        /\ i \in Ids /\ HEAD_LEN = 3 /\ ADDR_LEN = 2 /\ len \in Nat
    BY DEF Filled, size, Ids, HEAD_LEN, ADDR_LEN
  <1>2. /\ l \in Seq(Lengths) /\ Len(l) = Len(length) + 1 /\ Len(l) <= MaxDatagrams
        /\ \A j \in 1..Len(length) : l[j] = length[j]
        /\ l[i] = len /\ i \in 1..Len(l)
    BY <1>1
  <1>3. 3 \in Heads(m_writeBuffer, 0)
    BY <1>1 DEF Laid
  <1>4. /\ n \in Nat /\ n <= size /\ n = 3 + length[m_writeBuffer[3][1]]
        /\ m_writeBuffer[3][1] \in 1..Len(length) /\ length[m_writeBuffer[3][1]] \in Nat
    BY <1>1, <1>3, HeadFacts DEF Laid, End
  <1>5. len >= 3 /\ len + 2 <= n
    <2>1. /\ l[i] >= 3 /\ m_writeBuffer[3][1] \in 1..Len(l)
          /\ l[i] <= l[m_writeBuffer[3][1]] + 1
      BY <1>1, <1>2, <1>4
    <2> QED
      BY <1>1, <1>2, <1>4, <2>1
  <1>6. ASSUME NEW k \in Heads(m_writeBuffer, 0)
        PROVE  /\ k \in 1..size /\ k \in Nat /\ k >= 3 /\ (k = 3 \/ k >= n + 3)
               /\ m_writeBuffer[k][1] \in 1..Len(length) /\ m_writeBuffer[k][1] \in Ids
               /\ m_writeBuffer[k][2] = 3
    <2>1. /\ k \in 1..size /\ k \in Nat
          /\ m_writeBuffer[k][1] \in 1..Len(length) /\ m_writeBuffer[k][1] \in Ids
      BY <1>1, HeadFacts
    <2>2. k >= 3 /\ (k > 3 => k >= n + 3)
      BY <1>1, <1>3 DEF Laid
    <2>3. m_writeBuffer[k][2] = 3
      BY <1>1 DEF Heads
    <2> HIDE DEF n
    <2> QED
      BY <2>1, <2>2, <2>3
  <1> HIDE DEF n
  <1>7. /\ b \in Seq(Cells) /\ Len(b) = size + 3 + len
        /\ \A k \in 1..size + 3 + len : b[k] =
             IF k > size + 2 THEN <<i, k - size>>
             ELSE IF k > len /\ k <= len + 2 THEN <<i, k - len>>
             ELSE IF k <= size THEN m_writeBuffer[k] ELSE Zero
    <2>1. /\ b \in Seq(Cells) /\ Len(b) = size + HEAD_LEN + len
          /\ \A k \in 1..size + HEAD_LEN + len : b[k] =
               IF k > size + ADDR_LEN THEN <<i, k - size>>
               ELSE IF k > len /\ k <= len + ADDR_LEN THEN <<i, k - len>>
               ELSE IF k <= size THEN m_writeBuffer[k] ELSE Zero
      BY <1>1, QueuedFacts
    <2> HIDE DEF b
    <2> QED
      BY <1>1, <2>1
  <1> HIDE DEF b
  <1>8. \A k \in 1..size : ~(k > len /\ k <= len + 2) => b[k] = m_writeBuffer[k]
    <2>1. \A k \in 1..size : k \in 1..size + 3 + len /\ ~(k > size + 2) /\ k <= size
      BY <1>1
    <2> QED
      BY <1>7, <2>1
  <1>9. \A k \in 1..size : k > len /\ k <= len + 2 => b[k] = <<i, k - len>>
    <2>1. \A k \in 1..size : k \in 1..size + 3 + len /\ ~(k > size + 2)
      BY <1>1
    <2> QED
      BY <1>7, <2>1
  <1>10. b[size + 1] = Zero /\ b[size + 2] = Zero /\ b[size + 3] = <<i, 3>>
    <2>1. /\ size + 1 \in 1..size + 3 + len /\ size + 2 \in 1..size + 3 + len
          /\ size + 3 \in 1..size + 3 + len
          /\ ~(size + 1 > len /\ size + 1 <= len + 2) /\ ~(size + 2 > len /\ size + 2 <= len + 2)
          /\ (size + 3) - size = 3
      BY <1>1, <1>4, <1>5
    <2> QED
      BY <1>1, <1>7, <2>1
  <1>11. \A k \in size + 3..Len(b) : b[k] = <<i, k - size>>
    <2>1. \A k \in size + 3..Len(b) : k \in 1..size + 3 + len /\ k > size + 2
      BY <1>1, <1>7
    <2> QED
      BY <1>7, <2>1
  <1>12. Filled(b, l)
    <2>1. ASSUME NEW k \in 1..Len(b) PROVE b[k][1] <= Len(l)
      <3>1. CASE k \in 1..size
        <4>1. m_writeBuffer[k][1] <= Len(length) /\ m_writeBuffer[k][1] \in Nat
          BY <1>1, <3>1, CellParts DEF Filled
        <4>2. b[k] = m_writeBuffer[k] \/ b[k] = <<i, k - len>>
          BY <1>8, <1>9, <3>1
        <4> QED
          BY <1>1, <1>2, <4>1, <4>2
      <3>2. CASE k \in {size + 1, size + 2}
        BY <1>1, <1>2, <1>10, <3>2 DEF Zero
      <3>3. CASE k \in size + 3..Len(b)
        BY <1>1, <1>2, <1>11, <3>3
      <3> QED
        BY <1>1, <1>7, <3>1, <3>2, <3>3
    <2> QED
      BY <1>2, <1>7, <2>1 DEF Filled
  <1>13. \A k \in Heads(m_writeBuffer, 0) : k \in Heads(b, 0) /\ b[k] = m_writeBuffer[k]
    <2> SUFFICES ASSUME NEW k \in Heads(m_writeBuffer, 0)
                 PROVE  k \in Heads(b, 0) /\ b[k] = m_writeBuffer[k]
      OBVIOUS
    <2> k \in 1..size /\ k \in Nat /\ (k = 3 \/ k >= n + 3)
      BY <1>6
    <2>1. ~(k > len /\ k <= len + 2)
      BY <1>1, <1>4, <1>5
    <2>2. b[k] = m_writeBuffer[k]
      BY <1>6, <1>8, <2>1
    <2> QED
      BY <1>1, <1>6, <1>7, <2>2 DEF Heads
  <1>14. size + 3 \in Heads(b, 0)
    BY <1>1, <1>7, <1>10 DEF Heads
  <1>15. \A k \in Heads(b, 0) : k = size + 3 \/ k \in Heads(m_writeBuffer, 0)
    <2> SUFFICES ASSUME NEW k \in Heads(b, 0), k # size + 3
                 PROVE  k \in Heads(m_writeBuffer, 0)
      OBVIOUS
    <2>1. k \in 1..Len(b) /\ b[k][2] = 3
      BY <1>1, <1>7 DEF Heads
    <2>2. CASE k \in 1..size
      <3>1. ~(k > len /\ k <= len + 2)
        <4> SUFFICES ASSUME k > len, k <= len + 2 PROVE FALSE
          OBVIOUS
        <4>1. b[k] = <<i, k - len>>
          BY <1>9, <2>2
        <4> QED
          BY <1>1, <2>1, <2>2, <4>1
      <3> QED
        BY <1>1, <1>8, <2>1, <2>2, <3>1 DEF Heads
    <2>3. CASE k \in {size + 1, size + 2}
      BY <1>10, <2>1, <2>3 DEF Zero
    <2>4. CASE k \in size + 3..Len(b)
      <3>1. b[k] = <<i, k - size>>
        BY <1>11, <2>4
      <3> QED
        BY <1>1, <2>1, <3>1
    <2>5. k \in 1..size \/ k \in {size + 1, size + 2} \/ k \in size + 3..Len(b)
      BY <1>1, <1>7, <2>1
    <2> QED
      BY <2>2, <2>3, <2>4, <2>5
  <1>16. \A k \in Heads(m_writeBuffer, 0) : End(b, l, k) = End(m_writeBuffer, length, k)
    BY <1>2, <1>6, <1>13 DEF End
  <1>17. End(b, l, size + 3) = Len(b)
    BY <1>1, <1>2, <1>7, <1>10 DEF End
  <1>18. Laid(b, 0, l)
    <2>1. 3 \in Heads(b, 0)
      BY <1>3, <1>13
    <2>2. ASSUME NEW k \in Heads(m_writeBuffer, 0)
          PROVE  /\ k >= 3 /\ End(b, l, k) <= Len(b)
                 /\ End(b, l, k) # Len(b) => End(b, l, k) + 3 \in Heads(b, 0)
                 /\ \A j \in Heads(b, 0) :
                      j > k => j >= End(b, l, k) + 3 /\ b[k][1] < b[j][1]
      <3> DEFINE e == End(m_writeBuffer, length, k)
      <3>1. e \in Nat
        BY <1>1, HeadFacts
      <3>2. /\ e <= size
            /\ e # size => e + 3 \in Heads(m_writeBuffer, 0)
            /\ \A j \in Heads(m_writeBuffer, 0) :
                 j > k => j >= e + 3 /\ m_writeBuffer[k][1] < m_writeBuffer[j][1]
        BY <1>1 DEF Laid
      <3>3. End(b, l, k) = e
        BY <1>16
      <3> HIDE DEF e
      <3>4. e + 3 \in Heads(b, 0)
        BY <1>13, <1>14, <3>2
      <3>5. ASSUME NEW j \in Heads(b, 0), j > k
            PROVE  j >= e + 3 /\ b[k][1] < b[j][1]
        <4>1. CASE j \in Heads(m_writeBuffer, 0)
          BY <1>13, <3>2, <3>5, <4>1
        <4>2. CASE j = size + 3
          BY <1>1, <1>6, <1>10, <1>13, <3>1, <3>2, <4>2
        <4> QED
          BY <1>15, <4>1, <4>2
      <3> QED
        BY <1>1, <1>6, <1>7, <3>1, <3>2, <3>3, <3>4, <3>5
    <2>3. \A j \in Heads(b, 0) : ~(j > size + 3)
      BY <1>1, <1>6, <1>15
    <2>4. \A k \in Heads(b, 0) :
            /\ k >= 3 /\ End(b, l, k) <= Len(b)
            /\ End(b, l, k) # Len(b) => End(b, l, k) + 3 \in Heads(b, 0)
            /\ \A j \in Heads(b, 0) :
                 j > k => j >= End(b, l, k) + 3 /\ b[k][1] < b[j][1]
      BY <1>1, <1>7, <1>15, <1>17, <2>2, <2>3
    <2> QED
      BY <1>1, <1>7, <2>1, <2>4 DEF Laid
  <1>19. Own(b, 0, l, shared \cup InBuffer \cup {i})
    <2>1. ASSUME NEW k \in Heads(m_writeBuffer, 0)
          PROVE  /\ b[k - 2] = Zero \/ b[k - 2] = <<b[k][1], 1>>
                 /\ b[k][1] \in InBuffer
      <3> k \in 1..size /\ k \in Nat /\ (k = 3 \/ k >= n + 3) /\ k >= 3
        BY <1>6
      <3>1. k - 2 \in 1..size /\ ~(k - 2 > len /\ k - 2 <= len + 2)
        BY <1>1, <1>4, <1>5
      <3>2. b[k - 2] = m_writeBuffer[k - 2]
        BY <1>8, <3>1
      <3>3. m_writeBuffer[k - 2] = Zero \/ m_writeBuffer[k - 2] = <<m_writeBuffer[k][1], 1>>
        BY <1>1 DEF Own
      <3> QED
        BY <1>1, <1>6, <1>13, <3>2, <3>3 DEF InBuffer
    <2>2. b[size + 3 - 2] = Zero /\ b[size + 3][1] = i
      <3>1. size + 3 - 2 = size + 1
        BY <1>1
      <3> QED
        BY <1>10, <3>1
    <2> QED
      BY <1>1, <1>15, <2>1, <2>2 DEF Own
  <1>20. \A k \in Heads(b, 0) :
           b[k][1] = i \/ (k \in Heads(m_writeBuffer, 0) /\ b[k] = m_writeBuffer[k])
    BY <1>10, <1>13, <1>15
  <1> QED
    BY <1>12, <1>18, <1>19, <1>20 DEF b

-----------------------------------------------------------------------------
(* The types, and that everything was given to Sendto. *)

TypedInv == TypeOK /\ GivenInv

(* What OnOut reads at total. *)
LEMMA ReadFacts ==
  ASSUME TypedInv, Legible
  PROVE  /\ addr[1] \in Ids \cup {0} /\ lengthOf[1] \in Ids \cup {0}
         /\ lengthOf[1] <= Len(length)
         /\ plen \in Nat /\ AfterRecord \in Nat /\ AfterRecord <= size
         /\ IsWhole \in BOOLEAN
  <1>1. /\ total \in Nat /\ size \in Nat /\ HEAD_LEN = 3 /\ Len(length) \in Nat
        /\ total + 3 <= size
    BY DEF TypedInv, TypeOK, Legible, size, HEAD_LEN, ADDR_LEN
  <1>2. total + 1 \in 1..size /\ total + HEAD_LEN \in 1..size
    BY <1>1
  <1>3. /\ addr \in Cells /\ lengthOf \in Cells /\ lengthOf[1] <= Len(length)
    BY <1>2 DEF TypedInv, TypeOK, GivenInv, size, addr, lengthOf
  <1>4. \A c \in Cells : c[1] \in Ids \cup {0}
    BY DEF Cells, Zero
  <1>5. plen \in Nat
    <2>1. CASE lengthOf[2] = HEAD_LEN
      <3>1. lengthOf[1] \in 1..Len(length)
        BY <1>1, <1>3, <2>1, CellParts DEF Ids
      <3>2. length[lengthOf[1]] \in Lengths
        BY <3>1 DEF TypedInv, TypeOK
      <3> QED
        BY <2>1, <3>2 DEF plen
    <2>2. CASE lengthOf[2] # HEAD_LEN
      BY <2>2 DEF plen
    <2> QED
      BY <2>1, <2>2
  <1>6. AfterRecord \in Nat /\ AfterRecord <= size
    BY <1>1, <1>5 DEF AfterRecord, Legible
  <1>7. IsWhole \in BOOLEAN
    BY DEF IsWhole
  <1> QED
    BY <1>3, <1>4, <1>5, <1>6, <1>7

LEMMA DeliveryFacts ==
  ASSUME NEW d \in Deliveries
  PROVE  d.datagram \in Nat
  <1>1. d.datagram \in Ids \cup {0}
    BY Zenon DEF Deliveries
  <1> QED
    BY <1>1 DEF Ids

LEMMA InitTyped == Init => TypedInv
  <1> SUFFICES ASSUME Init PROVE TypedInv
    OBVIOUS
  <1>1. open \in BOOLEAN /\ edge \in BOOLEAN /\ bound \in BOOLEAN
    BY Zenon DEF Init
  <1>2. TypeOK
    BY <1>1, EmptySeq DEF Init, TypeOK
  <1>3. GivenInv
    BY DEF Init, GivenInv, size
  <1> QED
    BY <1>2, <1>3 DEF TypedInv

(* A datagram that the kernel takes. *)
LEMMA TakenTyped ==
  ASSUME TypedInv, NEW i \in Ids \cup {0}, NEW to \in Ids \cup {0}, NEW whole \in BOOLEAN,
         NEW n \in Nat, i <= n, Len(length) <= n, Taken(i, to, whole)
  PROVE  /\ sent' \in Seq(Deliveries)
         /\ \A j \in 1..Len(sent') : sent'[j].datagram <= n
         /\ inflight' \in 0..SndBuf /\ inflight' > 0 /\ bound' \in BOOLEAN
  <1> DEFINE r == [datagram |-> i, to |-> to, whole |-> whole]
  <1>1. r \in Deliveries
    BY Zenon DEF Deliveries
  <1>2. sent \in Seq(Deliveries) /\ sent' = Append(sent, r) /\ r.datagram = i
    BY DEF TypedInv, TypeOK, Taken
  <1>3. \A j \in 1..Len(sent) : sent[j].datagram \in Nat /\ sent[j].datagram <= n
    <2>1. \A j \in 1..Len(sent) : sent[j].datagram \in Nat
      BY <1>2, DeliveryFacts
    <2> QED
      BY <2>1 DEF TypedInv, TypeOK, GivenInv
  <1> HIDE DEF r
  <1>4. /\ sent' \in Seq(Deliveries) /\ Len(sent') = Len(sent) + 1 /\ Len(sent) \in Nat
        /\ \A j \in 1..Len(sent) : sent'[j] = sent[j]
        /\ sent'[Len(sent) + 1] = r
    BY <1>1, <1>2
  <1>5. \A j \in 1..Len(sent') : sent'[j].datagram <= n
    BY <1>2, <1>3, <1>4
  <1>6. inflight' \in 0..SndBuf /\ inflight' > 0
    BY DEF TypedInv, TypeOK, Taken
  <1>7. bound' \in BOOLEAN
    BY Zenon DEF Taken
  <1> QED
    BY <1>4, <1>5, <1>6, <1>7

LEMMA SendtoTyped ==
  ASSUME TypedInv, NEW len \in Lengths, Sendto(len)
  PROVE  TypedInv'
  <1> DEFINE i == Len(length) + 1
  <1>1. /\ length \in Seq(Lengths) /\ Len(length) \in Nat /\ Len(length) < MaxDatagrams
        /\ length' = Append(length, len) /\ m_writeBuffer \in Seq(Cells)
        /\ sent \in Seq(Deliveries)
    BY DEF TypedInv, TypeOK, Sendto
  <1>2. /\ length' \in Seq(Lengths) /\ Len(length') = i /\ i \in Ids /\ i \in Nat
        /\ Len(length') <= MaxDatagrams
    BY <1>1 DEF Ids
  <1>3. /\ UNCHANGED <<open, opens, at, total, reader, event, edge, avail>>
        /\ EnqueueOrSend(i, len) /\ at = "idle" /\ total = 0
    BY Zenon DEF Sendto, TypedInv, GivenInv
  <1>4. InBuffer \subseteq Ids
    BY DEF InBuffer
  <1>5. \A j \in 1..Len(sent) : sent[j].datagram \in Nat /\ sent[j].datagram <= i
    <2>1. \A j \in 1..Len(sent) : sent[j].datagram \in Nat
      BY <1>1, DeliveryFacts
    <2> QED
      BY <1>1, <2>1 DEF TypedInv, GivenInv
  <1>6. \A k \in 1..Len(m_writeBuffer) :
          m_writeBuffer[k] \in Cells /\ m_writeBuffer[k][1] \in Nat /\ m_writeBuffer[k][1] <= i
    <2>1. \A k \in 1..Len(m_writeBuffer) :
            m_writeBuffer[k] \in Cells /\ m_writeBuffer[k][1] <= Len(length)
      BY <1>1 DEF TypedInv, GivenInv, size
    <2> QED
      BY <1>1, <2>1, CellParts
  <1> DEFINE Goal == /\ m_writeBuffer' \in Seq(Cells)
                     /\ \A k \in 1..Len(m_writeBuffer') : m_writeBuffer'[k][1] <= i
                     /\ inflight' \in 0..SndBuf /\ bound' \in BOOLEAN /\ shared' \subseteq Ids
                     /\ sent' \in Seq(Deliveries)
                     /\ \A j \in 1..Len(sent') : sent'[j].datagram <= i
  <1>7. /\ inflight \in 0..SndBuf /\ bound \in BOOLEAN /\ shared \subseteq Ids
    BY DEF TypedInv, TypeOK
  <1>8. ASSUME Enqueue(i, len) PROVE Goal
    <2>1. /\ m_writeBuffer' = Queued(i, len) /\ shared' = shared \cup InBuffer \cup {i}
          /\ inflight' = inflight /\ bound' = bound /\ sent' = sent
      BY <1>8 DEF Enqueue
    <2> DEFINE b == Queued(i, len)
    <2>2. /\ b \in Seq(Cells) /\ Len(b) = size + HEAD_LEN + len
          /\ \A k \in 1..size + HEAD_LEN + len : b[k] =
               IF k > size + ADDR_LEN THEN <<i, k - size>>
               ELSE IF k > len /\ k <= len + ADDR_LEN THEN <<i, k - len>>
               ELSE IF k <= size THEN m_writeBuffer[k] ELSE Zero
      BY <1>1, <1>2, QueuedFacts
    <2> HIDE DEF b
    <2>3. ASSUME NEW k \in 1..Len(b) PROVE b[k][1] <= i
      <3>1. /\ b[k] = <<i, k - size>> \/ b[k] = <<i, k - len>> \/ b[k] = Zero
               \/ (k <= size /\ b[k] = m_writeBuffer[k])
            /\ k \in Nat /\ k > 0 /\ size = Len(m_writeBuffer) /\ size \in Nat
        BY <1>1, <2>2 DEF size
      <3>2. CASE k <= size /\ b[k] = m_writeBuffer[k]
        BY <1>6, <3>1, <3>2
      <3>3. CASE b[k] = <<i, k - size>> \/ b[k] = <<i, k - len>> \/ b[k] = Zero
        BY <1>2, <3>3 DEF Zero
      <3> QED
        BY <3>1, <3>2, <3>3
    <2>4. b = m_writeBuffer'
      BY <2>1 DEF b
    <2>5. \A k \in 1..Len(m_writeBuffer') : m_writeBuffer'[k][1] <= i
      BY <2>3, <2>4
    <2>6. bound' \in BOOLEAN
      BY <1>7, <2>1, Zenon
    <2> HIDE DEF i
    <2> QED
      BY <1>1, <1>2, <1>4, <1>5, <1>7, <2>1, <2>2, <2>4, <2>5, <2>6
  <1>9. ASSUME KeepOrDrop(i, len) PROVE Goal
    <2>1. CASE Taken(i, i, TRUE) /\ UNCHANGED <<m_writeBuffer, shared>>
      <3>1. /\ sent' \in Seq(Deliveries)
            /\ \A j \in 1..Len(sent') : sent'[j].datagram <= i
            /\ inflight' \in 0..SndBuf /\ bound' \in BOOLEAN
        <4>1. i <= i /\ Len(length) <= i /\ TRUE \in BOOLEAN /\ i \in Ids \cup {0}
          BY <1>1, <1>2
        <4> HIDE DEF i
        <4> QED
          BY <1>2, <2>1, <4>1, TakenTyped
      <3> HIDE DEF i
      <3> QED
        BY <1>1, <1>6, <1>7, <2>1, <3>1
    <2>2. CASE /\ m_writeBuffer' = Record(i, len)
               /\ UNCHANGED <<inflight, bound, sent, shared>>
      <3>1. /\ Record(i, len) \in Seq(Cells) /\ Len(Record(i, len)) = HEAD_LEN + len
            /\ \A k \in 1..HEAD_LEN + len : Record(i, len)[k] = <<i, k>>
        BY <1>2, RecordFacts
      <3>2. \A k \in 1..Len(m_writeBuffer') : m_writeBuffer'[k][1] <= i
        BY <1>2, <2>2, <3>1
      <3>3. bound' \in BOOLEAN
        BY <1>7, <2>2, Zenon
      <3> HIDE DEF i
      <3> QED
        BY <1>1, <1>5, <1>7, <2>2, <3>1, <3>2, <3>3
    <2>3. CASE UNCHANGED <<m_writeBuffer, inflight, bound, sent, shared>>
      <3>1. bound' \in BOOLEAN
        BY <1>7, <2>3, Zenon
      <3> HIDE DEF i
      <3> QED
        BY <1>1, <1>5, <1>6, <1>7, <2>3, <3>1
    <2> QED
      BY <1>9, <2>1, <2>2, <2>3, Zenon DEF KeepOrDrop
  <1>10. Goal
    BY <1>3, <1>8, <1>9, Zenon DEF EnqueueOrSend
  <1>11. TypeOK'
    <2>1. open' \in BOOLEAN /\ edge' \in BOOLEAN /\ bound' \in BOOLEAN
      BY <1>3, <1>10, Zenon DEF TypedInv, TypeOK
    <2> HIDE DEF i
    <2> QED
      BY <1>2, <1>3, <1>10, <2>1 DEF TypedInv, TypeOK
  <1>12. GivenInv'
    BY <1>2, <1>3, <1>10 DEF GivenInv, size
  <1> QED
    BY <1>11, <1>12 DEF TypedInv

LEMMA SendNextTyped == TypedInv /\ SendNext => TypedInv'
  <1> SUFFICES ASSUME TypedInv, SendNext PROVE TypedInv'
    OBVIOUS
  <1> DEFINE to == IF addr[2] = 1 THEN addr[1] ELSE 0
  <1>1. /\ at = "flush" /\ Legible /\ total' = AfterRecord
        /\ Taken(lengthOf[1], to, IsWhole)
        /\ UNCHANGED <<open, opens, m_writeBuffer, at, reader, event, edge, avail, length, shared>>
    BY Zenon DEF SendNext
  <1>2. /\ to \in Ids \cup {0} /\ lengthOf[1] \in Ids \cup {0} /\ lengthOf[1] <= Len(length)
        /\ AfterRecord \in Nat /\ IsWhole \in BOOLEAN
    BY <1>1, ReadFacts
  <1> HIDE DEF to
  <1>3. Len(length) \in Nat /\ Len(length) <= Len(length)
    BY DEF TypedInv, TypeOK
  <1>4. /\ sent' \in Seq(Deliveries)
        /\ \A j \in 1..Len(sent') : sent'[j].datagram <= Len(length)
        /\ inflight' \in 0..SndBuf /\ bound' \in BOOLEAN
    BY <1>1, <1>2, <1>3, TakenTyped
  <1>5. TypeOK'
    <2>1. open' \in BOOLEAN /\ edge' \in BOOLEAN /\ bound' \in BOOLEAN
      BY <1>1, <1>4, Zenon DEF TypedInv, TypeOK
    <2> QED
      BY <1>1, <1>2, <1>4, <2>1 DEF TypedInv, TypeOK
  <1>6. GivenInv'
    BY <1>1, <1>4 DEF TypedInv, GivenInv, size
  <1> QED
    BY <1>5, <1>6 DEF TypedInv

LEMMA EndFlushTyped == TypedInv /\ EndFlush => TypedInv'
  <1> SUFFICES ASSUME TypedInv, EndFlush PROVE TypedInv'
    OBVIOUS
  <1>1. /\ m_writeBuffer' = SubSeq(m_writeBuffer, total + 1, size) /\ at' = "idle" /\ total' = 0
        /\ UNCHANGED <<open, opens, reader, event, edge, bound, inflight, avail, length, shared,
                       sent>>
    BY Zenon DEF EndFlush, kernelVars, history
  <1>2. /\ m_writeBuffer \in Seq(Cells) /\ total \in Nat /\ Len(m_writeBuffer) \in Nat
        /\ size = Len(m_writeBuffer)
    BY DEF TypedInv, TypeOK, size
  <1>3. total <= size
    BY <1>2 DEF EndFlush, Legible, HEAD_LEN, ADDR_LEN
  <1>4. /\ m_writeBuffer' \in Seq(Cells) /\ Len(m_writeBuffer') = size - total
        /\ \A k \in 1..size - total : m_writeBuffer'[k] = m_writeBuffer[total + k]
    <2>1. total \in 0..Len(m_writeBuffer)
      BY <1>2, <1>3
    <2> QED
      BY <1>1, <1>2, <2>1, RestFacts
  <1>5. \A k \in 1..Len(m_writeBuffer') : m_writeBuffer'[k][1] <= Len(length)
    <2>1. \A k \in 1..size - total : total + k \in 1..size
      BY <1>2, <1>3
    <2> QED
      BY <1>4, <2>1 DEF TypedInv, GivenInv
  <1>6. TypeOK'
    <2>1. open' \in BOOLEAN /\ edge' \in BOOLEAN /\ bound' \in BOOLEAN
      BY <1>1, Zenon DEF TypedInv, TypeOK
    <2> QED
      BY <1>1, <1>4, <2>1 DEF TypedInv, TypeOK
  <1>7. GivenInv'
    BY <1>1, <1>5 DEF TypedInv, GivenInv, size
  <1> QED
    BY <1>6, <1>7 DEF TypedInv

LEMMA NextTyped == TypedInv /\ [Next]_vars => TypedInv'
  <1> SUFFICES ASSUME TypedInv, [Next]_vars PROVE TypedInv'
    OBVIOUS
  <1> DEFINE Bools == open' \in BOOLEAN /\ edge' \in BOOLEAN /\ bound' \in BOOLEAN
  <1> USE DEF kernelVars, history, recvVars
  <1>0. /\ open \in BOOLEAN /\ edge \in BOOLEAN /\ bound \in BOOLEAN
        /\ \A x, y : (x \/ y) \in BOOLEAN
    BY Zenon DEF TypedInv, TypeOK
  <1>1. CASE Open
    <2>1. Bools
      BY <1>0, <1>1, Zenon DEF Open
    <2>2. <<>> \in Seq(Deliveries)
      BY EmptySeq
    <2> QED
      BY <1>1, <2>1, <2>2 DEF Open, TypedInv, TypeOK, GivenInv, size
  <1>2. CASE Bind
    <2>1. Bools
      BY <1>0, <1>2, Zenon DEF Bind
    <2> QED
      BY <1>2, <2>1 DEF Bind, TypedInv, TypeOK, GivenInv, size
  <1>3. CASE Close
    <2>1. Bools
      BY <1>0, <1>3, Zenon DEF Close
    <2>2. <<>> \in Seq(Cells)
      BY EmptySeq
    <2> QED
      BY <1>3, <2>1, <2>2 DEF Close, TypedInv, TypeOK, GivenInv, size
  <1>4. CASE \E l \in Lengths : Sendto(l)
    BY <1>4, SendtoTyped
  <1>5. CASE Recvfrom
    <2>1. Bools
      BY <1>0, <1>5, Zenon DEF Recvfrom
    <2> QED
      BY <1>5, <2>1 DEF Recvfrom, TypedInv, TypeOK, GivenInv, size
  <1>6. CASE SendNext
    BY <1>6, SendNextTyped
  <1>7. CASE SkipNext
    <2>1. Bools
      BY <1>0, <1>7, Zenon DEF SkipNext
    <2>2. AfterRecord \in Nat
      BY <1>7, ReadFacts DEF SkipNext
    <2> QED
      BY <1>7, <2>1, <2>2 DEF SkipNext, PassOver, TypedInv, TypeOK, GivenInv, size
  <1>8. CASE EndFlush
    BY <1>8, EndFlushTyped
  <1>9. CASE RunWild
    <2>1. Bools
      BY <1>0, <1>9, Zenon DEF RunWild
    <2> QED
      BY <1>9, <2>1 DEF RunWild, TypedInv, TypeOK, GivenInv, size
  <1>10. CASE Recv
    <2>1. Bools
      BY <1>0, <1>10, Zenon DEF Recv
    <2> QED
      BY <1>10, <2>1 DEF Recv, TypedInv, TypeOK, GivenInv, size
  <1>11. CASE EpollWait
    <2>1. Bools
      BY <1>0, <1>11, Zenon DEF EpollWait
    <2> QED
      BY <1>11, <2>1 DEF EpollWait, TypedInv, TypeOK, GivenInv, size
  <1>12. CASE OnOut
    <2>1. Bools
      BY <1>0, <1>12, Zenon DEF OnOut
    <2> QED
      BY <1>12, <2>1 DEF OnOut, TypedInv, TypeOK, GivenInv, size
  <1>13. CASE OnIn
    <2>1. Bools
      BY <1>0, <1>13, Zenon DEF OnIn
    <2> QED
      BY <1>13, <2>1 DEF OnIn, TypedInv, TypeOK, GivenInv, size
  <1>14. CASE Drain
    <2>1. Bools
      BY <1>0, <1>14, Zenon DEF Drain
    <2> QED
      BY <1>14, <2>1 DEF Drain, TypedInv, TypeOK, GivenInv, size
  <1>15. CASE Arrive
    <2>1. Bools
      BY <1>0, <1>15, Zenon DEF Arrive
    <2> QED
      BY <1>15, <2>1 DEF Arrive, TypedInv, TypeOK, GivenInv, size
  <1>16. CASE UNCHANGED vars
    <2>1. Bools
      BY <1>0, <1>16, Zenon DEF vars
    <2> QED
      BY <1>16, <2>1 DEF vars, TypedInv, TypeOK, GivenInv, size
  <1> QED
    BY <1>1, <1>2, <1>3, <1>4, <1>5, <1>6, <1>7, <1>8, <1>9, <1>10, <1>11, <1>12, <1>13, <1>14,
       <1>15, <1>16, Zenon DEF Next, Working, Loop

(* The variables keep their types: what the buffer, OnOut and the kernel   *)
(* have is what Sendto was given, for any lengths of datagrams.            *)
THEOREM TypeCorrect == Spec => []TypeOK
  <1>1. TypedInv => TypeOK
    BY DEF TypedInv
  <1> QED
    BY InitTyped, NextTyped, <1>1, PTL DEF Spec

-----------------------------------------------------------------------------
(* The layout, and what is sent. *)

OrderInv == LayoutInv /\ InOrder /\ Addressed

LEMMA IsFilled ==
  ASSUME TypedInv
  PROVE  Filled(m_writeBuffer, length) /\ total \in Nat /\ size = Len(m_writeBuffer)
  BY DEF TypedInv, TypeOK, GivenInv, Filled, size

(* A step that neither touches the buffer nor sends. *)
LEMMA QuietKeeps ==
  ASSUME OrderInv, UNCHANGED <<m_writeBuffer, total, length, shared, sent>>,
         at' = "wild" => at = "wild"
  PROVE  OrderInv'
  <1>1. Compatible' <=> Compatible
    BY DEF Compatible
  <1>2. LayoutInv'
    BY <1>1 DEF OrderInv, LayoutInv
  <1>3. InOrder'
    BY <1>1 DEF OrderInv, InOrder
  <1>4. Addressed'
    BY <1>1 DEF OrderInv, Addressed
  <1> QED
    BY <1>2, <1>3, <1>4 DEF OrderInv

(* Whoever was first in the buffer is passed over, or it is empty now. *)
LEMMA EmptiedKeeps ==
  ASSUME OrderInv, m_writeBuffer' = <<>>, total' = 0, UNCHANGED <<length, shared>>,
         at' # "wild", sent' = sent \/ sent' = <<>>
  PROVE  OrderInv'
  <1>1. Compatible' <=> Compatible
    BY DEF Compatible
  <1>2. LayoutInv'
    BY <1>1, NothingLaid DEF LayoutInv
  <1>3. InOrder'
    BY <1>1 DEF OrderInv, InOrder
  <1>4. Addressed'
    BY <1>1 DEF OrderInv, Addressed
  <1> QED
    BY <1>2, <1>3, <1>4 DEF OrderInv

(* A datagram that is newer than all that were sent before. *)
LEMMA TakenKeeps ==
  ASSUME TypedInv, OrderInv, Compatible, Compatible', at' # "wild",
         NEW i \in Nat, NEW whole \in BOOLEAN, Taken(i, i, whole), UNCHANGED shared,
         \A j \in 1..Len(sent) : sent[j].datagram < i,
         i \notin shared => whole
  PROVE  /\ InOrder' /\ Addressed'
         /\ \A j \in 1..Len(sent') : sent'[j].datagram <= i
  <1> DEFINE r == [datagram |-> i, to |-> i, whole |-> whole]
  <1>1. sent \in Seq(Deliveries) /\ sent' = Append(sent, r)
    BY DEF TypedInv, TypeOK, Taken
  <1>2. r.datagram = i /\ r.to = i /\ (i \notin shared => r.whole)
    BY Zenon
  <1> HIDE DEF r
  <1>3. /\ Len(sent') = Len(sent) + 1 /\ Len(sent) \in Nat
        /\ \A j \in 1..Len(sent) : sent'[j] = sent[j]
        /\ sent'[Len(sent) + 1] = r
    BY <1>1
  <1>4. \A j \in 1..Len(sent') : sent'[j] = r \/ (j \in 1..Len(sent) /\ sent'[j] = sent[j])
    BY <1>3
  <1>5. \A j \in 1..Len(sent) : sent[j].datagram \in Nat
    BY <1>1, DeliveryFacts
  <1>6. InOrder'
    <2>1. ASSUME NEW j \in 1..Len(sent'), NEW k \in 1..Len(sent'), j < k
          PROVE  sent'[j].datagram < sent'[k].datagram
      <3>1. j \in 1..Len(sent) /\ sent'[j] = sent[j]
        BY <1>3, <2>1
      <3>2. CASE k \in 1..Len(sent)
        BY <1>3, <2>1, <3>1, <3>2 DEF OrderInv, InOrder
      <3>3. CASE k = Len(sent) + 1
        BY <1>2, <1>3, <3>1, <3>3
      <3> QED
        BY <1>3, <3>2, <3>3
    <2> QED
      BY <2>1 DEF InOrder
  <1>7. Addressed'
    <2>1. ASSUME NEW j \in 1..Len(sent')
          PROVE  /\ sent'[j].to = sent'[j].datagram
                 /\ sent'[j].datagram \notin shared' => sent'[j].whole
      <3>1. CASE sent'[j] = r
        BY <1>2, <3>1, Zenon
      <3>2. CASE j \in 1..Len(sent) /\ sent'[j] = sent[j]
        BY <3>2, Zenon DEF OrderInv, Addressed
      <3> QED
        BY <1>4, <3>1, <3>2
    <2> QED
      BY <2>1, Zenon DEF Addressed
  <1>8. \A j \in 1..Len(sent') : sent'[j].datagram <= i
    BY <1>2, <1>4, <1>5
  <1> QED
    BY <1>6, <1>7, <1>8

LEMMA SendtoKeeps ==
  ASSUME TypedInv, OrderInv, NEW len \in Lengths, Sendto(len)
  PROVE  OrderInv'
  <1> DEFINE i == Len(length) + 1
  <1>1. /\ length \in Seq(Lengths) /\ Len(length) \in Nat /\ Len(length) < MaxDatagrams
        /\ length' = Append(length, len)
        /\ total' = total /\ at' = at /\ EnqueueOrSend(i, len)
    BY DEF TypedInv, TypeOK, Sendto
  <1>2. at = "idle" /\ total = 0
    BY DEF Sendto, TypedInv, GivenInv
  <1>3. /\ length' \in Seq(Lengths) /\ Len(length') = i /\ i \in Nat /\ i \in Ids
        /\ \A j \in 1..Len(length) : length'[j] = length[j]
        /\ length'[i] = len /\ i \in 1..Len(length') /\ Len(length') <= MaxDatagrams
    BY <1>1 DEF Ids
  <1>4. ASSUME ~Compatible' PROVE OrderInv'
    BY <1>4, Zenon DEF OrderInv, LayoutInv, InOrder, Addressed
  <1>5. Compatible' => Compatible
    BY <1>1, <1>3 DEF Compatible
  <1>6. \A j \in 1..Len(sent) : sent[j].datagram \in Nat /\ sent[j].datagram < i
    <2>1. \A j \in 1..Len(sent) : sent[j].datagram \in Nat /\ sent[j].datagram <= Len(length)
      BY DeliveryFacts DEF TypedInv, TypeOK, GivenInv
    <2> QED
      BY <1>1, <2>1
  <1>7. Filled(m_writeBuffer, length)
    BY IsFilled
  <1> HIDE DEF i
  <1>8. ASSUME Compatible', m_writeBuffer # <<>>, Enqueue(i, len) PROVE OrderInv'
    <2> DEFINE b == Queued(i, len)
    <2>1. m_writeBuffer' = b /\ shared' = shared \cup InBuffer \cup {i} /\ sent' = sent
      BY <1>8 DEF Enqueue
    <2>2. /\ Laid(m_writeBuffer, 0, length) /\ Own(m_writeBuffer, 0, length, shared)
          /\ \A j \in 1..Len(sent) : \A k \in Heads(m_writeBuffer, 0) :
               sent[j].datagram < m_writeBuffer[k][1]
      BY <1>2, <1>5, <1>8 DEF OrderInv, LayoutInv
    <2>3. \A j, k \in 1..Len(length') : length'[j] >= HEAD_LEN /\ length'[k] <= length'[j] + 1
      BY <1>8 DEF Compatible
    <2>4. i = Len(length) + 1
      BY DEF i
    <2>5. /\ Laid(b, 0, length') /\ Own(b, 0, length', shared \cup InBuffer \cup {i})
          /\ \A k \in Heads(b, 0) :
               b[k][1] = i \/ (k \in Heads(m_writeBuffer, 0) /\ b[k] = m_writeBuffer[k])
      BY <1>1, <1>7, <1>8, <2>2, <2>3, <2>4, QueuedLaid
    <2> HIDE DEF b
    <2>6. LayoutInv'
      <3>1. \A j \in 1..Len(sent') : \A k \in Heads(m_writeBuffer', 0) :
              sent'[j].datagram < m_writeBuffer'[k][1]
        BY <1>6, <2>1, <2>2, <2>5
      <3>2. total' = 0
        BY <1>1, <1>2
      <3> QED
        BY <2>1, <2>5, <3>1, <3>2 DEF LayoutInv
    <2>7. InOrder'
      BY <1>1, <1>2, <1>5, <1>8, <2>1 DEF OrderInv, InOrder
    <2>8. Addressed'
      BY <1>5, <1>8, <2>1, Zenon DEF OrderInv, Addressed
    <2> QED
      BY <2>6, <2>7, <2>8 DEF OrderInv
  <1>9. ASSUME Compatible', m_writeBuffer = <<>>, KeepOrDrop(i, len) PROVE OrderInv'
    <2>1. at' # "wild" /\ total' = 0 /\ Compatible
      BY <1>1, <1>2, <1>5, <1>9
    <2>2. CASE Taken(i, i, TRUE) /\ UNCHANGED <<m_writeBuffer, shared>>
      <3>1. InOrder' /\ Addressed'
        BY <1>3, <1>6, <1>9, <2>1, <2>2, TakenKeeps
      <3>2. LayoutInv'
        BY <1>9, <2>1, <2>2, NothingLaid DEF LayoutInv
      <3> QED
        BY <3>1, <3>2 DEF OrderInv
    <2>3. CASE /\ m_writeBuffer' = Record(i, len)
               /\ UNCHANGED <<inflight, bound, sent, shared>>
      <3> DEFINE b == Record(i, len)
      <3>1. /\ Laid(b, 0, length') /\ Own(b, 0, length', shared')
            /\ \A k \in Heads(b, 0) : b[k][1] = i
        BY <1>3, RecordLaid
      <3>2. m_writeBuffer' = b /\ sent' = sent
        BY <2>3
      <3> HIDE DEF b
      <3>3. LayoutInv'
        BY <1>6, <2>1, <3>1, <3>2 DEF LayoutInv
      <3>4. InOrder'
        BY <2>1, <2>3 DEF OrderInv, InOrder
      <3>5. Addressed'
        BY <2>1, <2>3, Zenon DEF OrderInv, Addressed
      <3> QED
        BY <3>3, <3>4, <3>5 DEF OrderInv
    <2>4. CASE UNCHANGED <<m_writeBuffer, inflight, bound, sent, shared>>
      <3>1. LayoutInv'
        BY <1>9, <2>1, <2>4, NothingLaid DEF LayoutInv
      <3>2. InOrder'
        BY <2>1, <2>4 DEF OrderInv, InOrder
      <3>3. Addressed'
        BY <2>1, <2>4, Zenon DEF OrderInv, Addressed
      <3> QED
        BY <3>1, <3>2, <3>3 DEF OrderInv
    <2> QED
      BY <1>9, <2>2, <2>3, <2>4, Zenon DEF KeepOrDrop
  <1> QED
    BY <1>1, <1>4, <1>8, <1>9, Zenon DEF EnqueueOrSend

(* What OnOut reads of the first record: its own length, and its own       *)
(* address or none.                                                        *)
LEMMA FirstRecord ==
  ASSUME TypedInv, OrderInv, Compatible, total # size
  PROVE  LET n == AfterRecord IN
         /\ Legible /\ lengthOf[1] \in Nat /\ n \in Nat
         /\ addr # Zero => addr[2] = 1 /\ addr[1] = lengthOf[1]
         /\ lengthOf[1] \notin shared => IsWhole
         /\ Laid(m_writeBuffer, n, length) /\ Own(m_writeBuffer, n, length, shared)
         /\ \A j \in 1..Len(sent) : sent[j].datagram < lengthOf[1]
         /\ \A k \in Heads(m_writeBuffer, n) :
              k \in Heads(m_writeBuffer, total) /\ lengthOf[1] < m_writeBuffer[k][1]
  <1> DEFINE h == total + HEAD_LEN
             n == End(m_writeBuffer, length, h)
  <1>1. /\ Filled(m_writeBuffer, length) /\ total \in Nat /\ size = Len(m_writeBuffer)
        /\ HEAD_LEN = 3 /\ ADDR_LEN = 2 /\ size \in Nat
    BY IsFilled DEF Filled, HEAD_LEN, ADDR_LEN
  <1>2. /\ Laid(m_writeBuffer, total, length) /\ Own(m_writeBuffer, total, length, shared)
        /\ \A j \in 1..Len(sent) : \A k \in Heads(m_writeBuffer, total) :
             sent[j].datagram < m_writeBuffer[k][1]
    BY DEF OrderInv, LayoutInv
  <1>3. /\ h \in Heads(m_writeBuffer, total) /\ n \in Nat /\ n <= size
        /\ Laid(m_writeBuffer, n, length) /\ Own(m_writeBuffer, n, length, shared)
        /\ \A j \in Heads(m_writeBuffer, n) :
             j \in Heads(m_writeBuffer, total) /\ m_writeBuffer[h][1] < m_writeBuffer[j][1]
    BY <1>1, <1>2, NextLaid
  <1>4. /\ lengthOf = m_writeBuffer[h] /\ lengthOf[2] = 3 /\ lengthOf[1] \in Nat
        /\ h \in 1..size /\ length[lengthOf[1]] \in Nat
    <2>1. m_writeBuffer[h][2] = 3
      BY <1>1, <1>3 DEF Heads
    <2>2. m_writeBuffer[h][1] \in Ids /\ h \in 1..size /\ length[m_writeBuffer[h][1]] \in Nat
      BY <1>1, <1>3, HeadFacts
    <2> QED
      BY <2>1, <2>2 DEF lengthOf, Ids
  <1>5. plen = length[lengthOf[1]]
    BY <1>1, <1>4 DEF plen
  <1>6. n = AfterRecord
    BY <1>4, <1>5 DEF End, AfterRecord
  <1>7. Legible
    BY <1>1, <1>3, <1>4, <1>5, <1>6 DEF Legible, AfterRecord
  <1>8. /\ m_writeBuffer[h - 2] = Zero \/ m_writeBuffer[h - 2] = <<lengthOf[1], 1>>
        /\ lengthOf[1] \notin shared =>
             \A d \in 1..plen : m_writeBuffer[h + d] = <<lengthOf[1], HEAD_LEN + d>>
    BY <1>1, <1>2, <1>3, <1>4, <1>5 DEF Own
  <1>9. addr # Zero => addr[2] = 1 /\ addr[1] = lengthOf[1]
    <2>1. h - 2 = total + 1
      BY <1>1
    <2> QED
      BY <1>8, <2>1 DEF addr
  <1>10. lengthOf[1] \notin shared => IsWhole
    BY <1>8 DEF IsWhole
  <1>11. \A j \in 1..Len(sent) : sent[j].datagram < lengthOf[1]
    BY <1>2, <1>3, <1>4
  <1> QED
    BY <1>3, <1>4, <1>6, <1>7, <1>9, <1>10, <1>11

LEMMA SendNextKeeps ==
  ASSUME TypedInv, OrderInv, SendNext
  PROVE  OrderInv'
  <1> DEFINE to == IF addr[2] = 1 THEN addr[1] ELSE 0
  <1>1. /\ at = "flush" /\ total # size /\ addr # Zero /\ total' = AfterRecord
        /\ Taken(lengthOf[1], to, IsWhole)
        /\ UNCHANGED <<m_writeBuffer, at, length, shared>>
    BY Zenon DEF SendNext
  <1>2. Compatible' <=> Compatible
    BY <1>1 DEF Compatible
  <1>3. ASSUME ~Compatible' PROVE OrderInv'
    BY <1>3, Zenon DEF OrderInv, LayoutInv, InOrder, Addressed
  <1>4. ASSUME Compatible' PROVE OrderInv'
    <2>1. Compatible
      BY <1>2, <1>4
    <2>2. /\ lengthOf[1] \in Nat /\ to = lengthOf[1]
          /\ lengthOf[1] \notin shared => IsWhole
          /\ Laid(m_writeBuffer, AfterRecord, length)
          /\ Own(m_writeBuffer, AfterRecord, length, shared)
          /\ \A j \in 1..Len(sent) : sent[j].datagram < lengthOf[1]
          /\ \A k \in Heads(m_writeBuffer, AfterRecord) : lengthOf[1] < m_writeBuffer[k][1]
          /\ \A k \in Heads(m_writeBuffer, AfterRecord) : k \in Heads(m_writeBuffer, total)
      BY <1>1, <2>1, FirstRecord
    <2>3. IsWhole \in BOOLEAN /\ at' # "wild"
      BY <1>1 DEF IsWhole
    <2>4. Taken(lengthOf[1], lengthOf[1], IsWhole) /\ UNCHANGED shared
      BY <1>1, <2>2
    <2> HIDE DEF to
    <2>5. /\ InOrder' /\ Addressed'
          /\ \A j \in 1..Len(sent') : sent'[j].datagram <= lengthOf[1]
      BY <1>4, <2>1, <2>2, <2>3, <2>4, TakenKeeps
    <2>6. \A j \in 1..Len(sent') : sent'[j].datagram \in Nat
      <3>1. sent' \in Seq(Deliveries)
        BY SendNextTyped DEF TypedInv, TypeOK
      <3> QED
        BY <3>1, DeliveryFacts
    <2>7. ASSUME NEW k \in Heads(m_writeBuffer, AfterRecord) PROVE m_writeBuffer[k][1] \in Nat
      <3>1. m_writeBuffer[k][1] \in Ids
        BY <2>2, IsFilled, HeadFacts
      <3> QED
        BY <3>1 DEF Ids
    <2>8. \A j \in 1..Len(sent') : \A k \in Heads(m_writeBuffer, AfterRecord) :
            sent'[j].datagram < m_writeBuffer[k][1]
      BY <2>2, <2>5, <2>6, <2>7
    <2>9. LayoutInv'
      BY <1>1, <2>2, <2>8 DEF LayoutInv
    <2> QED
      BY <2>5, <2>9 DEF OrderInv
  <1> QED
    BY <1>3, <1>4

LEMMA SkipNextKeeps ==
  ASSUME TypedInv, OrderInv, SkipNext
  PROVE  OrderInv'
  <1>1. /\ total # size /\ total' = AfterRecord
        /\ UNCHANGED <<m_writeBuffer, at, length, shared, sent>>
    BY Zenon DEF SkipNext, PassOver, history
  <1>2. Compatible' <=> Compatible
    BY <1>1 DEF Compatible
  <1>3. LayoutInv'
    BY <1>1, <1>2, FirstRecord DEF OrderInv, LayoutInv
  <1>4. InOrder'
    BY <1>1, <1>2 DEF OrderInv, InOrder
  <1>5. Addressed'
    BY <1>1, <1>2 DEF OrderInv, Addressed
  <1> QED
    BY <1>3, <1>4, <1>5 DEF OrderInv

LEMMA EndFlushKeeps ==
  ASSUME TypedInv, OrderInv, EndFlush
  PROVE  OrderInv'
  <1>1. /\ m_writeBuffer' = SubSeq(m_writeBuffer, total + 1, size) /\ total' = 0 /\ at' = "idle"
        /\ UNCHANGED <<length, shared, sent>>
    BY Zenon DEF EndFlush, history
  <1>2. Compatible' <=> Compatible
    BY <1>1 DEF Compatible
  <1>3. LayoutInv'
    <2> SUFFICES ASSUME Compatible
                 PROVE  /\ Laid(m_writeBuffer', total', length')
                        /\ Own(m_writeBuffer', total', length', shared')
                        /\ \A j \in 1..Len(sent') : \A k \in Heads(m_writeBuffer', total') :
                             sent'[j].datagram < m_writeBuffer'[k][1]
      BY <1>2 DEF LayoutInv
    <2> DEFINE r == SubSeq(m_writeBuffer, total + 1, Len(m_writeBuffer))
    <2>1. /\ Laid(r, 0, length) /\ Own(r, 0, length, shared)
          /\ \A k \in Heads(r, 0) : total + k \in Heads(m_writeBuffer, total)
                                   /\ r[k] = m_writeBuffer[total + k]
      BY IsFilled, RestLaid DEF OrderInv, LayoutInv
    <2>2. \A j \in 1..Len(sent) : \A k \in Heads(m_writeBuffer, total) :
            sent[j].datagram < m_writeBuffer[k][1]
      BY DEF OrderInv, LayoutInv
    <2>3. m_writeBuffer' = r
      BY <1>1 DEF size
    <2> HIDE DEF r
    <2> QED
      BY <1>1, <2>1, <2>2, <2>3
  <1>4. InOrder'
    BY <1>1, <1>2 DEF OrderInv, InOrder
  <1>5. Addressed'
    BY <1>1, <1>2 DEF OrderInv, Addressed
  <1> QED
    BY <1>3, <1>4, <1>5 DEF OrderInv

LEMMA RunWildKeeps ==
  ASSUME TypedInv, OrderInv, RunWild
  PROVE  OrderInv'
  <1>1. ~Compatible
    BY FirstRecord DEF RunWild
  <1>2. ~Compatible'
    BY <1>1 DEF RunWild, history, Compatible
  <1> QED
    BY <1>2, Zenon DEF OrderInv, LayoutInv, InOrder, Addressed

LEMMA InitOrder == Init => OrderInv
  <1> SUFFICES ASSUME Init PROVE OrderInv
    OBVIOUS
  <1>1. LayoutInv
    BY NothingLaid DEF Init, LayoutInv
  <1>2. InOrder /\ Addressed
    BY DEF Init, InOrder, Addressed
  <1> QED
    BY <1>1, <1>2 DEF OrderInv

LEMMA NextOrder == TypedInv /\ OrderInv /\ [Next]_vars => OrderInv'
  <1> SUFFICES ASSUME TypedInv, OrderInv, [Next]_vars PROVE OrderInv'
    OBVIOUS
  <1> USE DEF kernelVars, history, recvVars
  <1>1. CASE Open
    <2>1. /\ UNCHANGED <<m_writeBuffer, at, total, length, shared>> /\ sent' = <<>>
      BY <1>1 DEF Open
    <2>2. Compatible' <=> Compatible
      BY <2>1 DEF Compatible
    <2>3. LayoutInv'
      BY <2>1, <2>2 DEF OrderInv, LayoutInv
    <2>4. InOrder'
      BY <2>1, <2>2 DEF OrderInv, InOrder
    <2>5. Addressed'
      BY <2>1 DEF Addressed
    <2> QED
      BY <2>3, <2>4, <2>5 DEF OrderInv
  <1>2. CASE Close
    <2>1. total' = 0
      BY <1>2 DEF Close, TypedInv, GivenInv
    <2> QED
      BY <1>2, <2>1, EmptiedKeeps DEF Close
  <1>3. CASE \E l \in Lengths : Sendto(l)
    BY <1>3, SendtoKeeps
  <1>4. CASE SendNext
    BY <1>4, SendNextKeeps
  <1>5. CASE SkipNext
    BY <1>5, SkipNextKeeps
  <1>6. CASE EndFlush
    BY <1>6, EndFlushKeeps
  <1>7. CASE RunWild
    BY <1>7, RunWildKeeps
  <1>8. CASE Bind \/ Recvfrom \/ Recv \/ EpollWait \/ Drain \/ Arrive \/ UNCHANGED vars
    <2>1. UNCHANGED <<m_writeBuffer, total, length, shared, sent>>
      BY <1>8 DEF Bind, Recvfrom, Recv, EpollWait, Drain, Arrive, vars
    <2>2. at' = "wild" => at = "wild"
      BY <1>8 DEF Bind, Recvfrom, Recv, EpollWait, Drain, Arrive, vars
    <2> QED
      BY <2>1, <2>2, QuietKeeps
  <1>9. CASE OnOut \/ OnIn
    <2>1. UNCHANGED <<m_writeBuffer, total, length, shared, sent>>
      BY <1>9 DEF OnOut, OnIn
    <2>2. at' = "wild" => at = "wild"
      BY <1>9 DEF OnOut, OnIn
    <2> QED
      BY <2>1, <2>2, QuietKeeps
  <1> QED
    BY <1>1, <1>2, <1>3, <1>4, <1>5, <1>6, <1>7, <1>8, <1>9, Zenon DEF Next, Working, Loop

(* For lengths no shorter than a head and nearly the same, OnOut never     *)
(* leaves the buffer, and datagrams leave in order, each at most once.     *)
THEOREM InOrderHolds == Spec => []InOrder
  <1>1. OrderInv => InOrder
    BY DEF OrderInv
  <1> QED
    BY InitTyped, NextTyped, InitOrder, NextOrder, <1>1, PTL DEF Spec

(* For such lengths no datagram goes to the destination of another one,    *)
(* and only those that were in the buffer with others lose data.           *)
THEOREM AddressedHolds == Spec => []Addressed
  <1>1. OrderInv => Addressed
    BY DEF OrderInv
  <1> QED
    BY InitTyped, NextTyped, InitOrder, NextOrder, <1>1, PTL DEF Spec

-----------------------------------------------------------------------------
(* The edges. *)

LEMMA InitOwed == Init => OwedInv
  BY DEF Init, OwedInv

LEMMA NextOwed == TypedInv /\ OwedInv /\ [Next]_vars => OwedInv'
  <1> SUFFICES ASSUME TypedInv, OwedInv, [Next]_vars PROVE OwedInv'
    OBVIOUS
  <1> USE DEF kernelVars, history, recvVars, OwedInv
  <1>1. inflight \in Nat /\ inflight <= SndBuf /\ avail \in Nat /\ SndBuf \in Nat /\ SndBuf > 0
    BY DEF TypedInv, TypeOK
  <1>2. CASE Open
    BY <1>2 DEF Open
  <1>3. CASE Bind
    BY <1>3 DEF Bind
  <1>4. CASE Close
    BY <1>4 DEF Close
  <1>5. ASSUME NEW len \in Lengths, Sendto(len) PROVE OwedInv'
    <2>1. UNCHANGED <<open, at, reader, event, edge, avail>> /\ EnqueueOrSend(Len(length) + 1, len)
      BY <1>5 DEF Sendto
    <2>2. m_writeBuffer # <<>> => inflight' = inflight
      BY <2>1 DEF EnqueueOrSend, Enqueue
    <2>3. m_writeBuffer = <<>> => m_writeBuffer' = <<>> \/ inflight' > 0
      BY <1>1, <2>1 DEF EnqueueOrSend, KeepOrDrop, Taken
    <2> QED
      BY <2>1, <2>2, <2>3
  <1>6. CASE Recvfrom
    BY <1>6 DEF Recvfrom
  <1>7. CASE SendNext
    BY <1>7 DEF SendNext
  <1>8. CASE SkipNext
    BY <1>8 DEF SkipNext, PassOver
  <1>9. CASE EndFlush
    <2>1. /\ m_writeBuffer' = SubSeq(m_writeBuffer, total + 1, size)
          /\ UNCHANGED <<open, reader, event, edge, inflight, avail>>
      BY <1>9 DEF EndFlush
    <2>2. total = size => m_writeBuffer' = <<>>
      <3>1. m_writeBuffer \in Seq(Cells) /\ size = Len(m_writeBuffer) /\ size \in Nat
        BY DEF TypedInv, TypeOK, size
      <3> QED
        BY <2>1, <3>1, SubSeqEmpty
    <2>3. total # size => inflight > 0
      BY <1>1, <1>9 DEF EndFlush
    <2> QED
      BY <2>1, <2>2, <2>3
  <1>10. CASE RunWild
    BY <1>10 DEF RunWild
  <1>11. CASE Recv
    BY <1>11 DEF Recv
  <1>12. CASE EpollWait
    <2>1. /\ UNCHANGED <<open, m_writeBuffer, at, reader, inflight, avail>>
          /\ avail > 0 => "IN" \in event'
          /\ Writable => "OUT" \in event'
      BY <1>12 DEF EpollWait
    <2>2. ~Writable => inflight > 0
      BY <1>1 DEF Writable
    <2> QED
      BY <2>1, <2>2
  <1>13. CASE OnOut
    BY <1>13 DEF OnOut
  <1>14. CASE OnIn
    BY <1>14 DEF OnIn
  <1>15. CASE Drain
    <2>1. /\ UNCHANGED <<open, m_writeBuffer, at, reader, event, avail>>
          /\ inflight' = inflight - 1 /\ (edge => edge') /\ (2 * inflight' <= SndBuf => edge')
      BY <1>15 DEF Drain
    <2>2. inflight' > 0 \/ edge'
      <3>1. inflight' \in Nat
        BY <1>1, <1>15 DEF Drain
      <3>2. inflight' = 0 => 2 * inflight' <= SndBuf
        BY <1>1
      <3> QED
        BY <2>1, <3>1, <3>2
    <2> QED
      BY <2>1, <2>2
  <1>16. CASE Arrive
    BY <1>16 DEF Arrive
  <1>17. CASE UNCHANGED vars
    BY <1>17 DEF vars
  <1> QED
    BY <1>2, <1>3, <1>4, <1>5, <1>6, <1>7, <1>8, <1>9, <1>10, <1>11, <1>12, <1>13, <1>14, <1>15,
       <1>16, <1>17, Zenon DEF Next, Working, Loop

(* Datagrams wait in the buffer, and a receiver beside one that is there,  *)
(* only while something is on its way that ends it.                        *)
THEOREM EdgeOwedHolds == Spec => []EdgeOwed
  <1>1. OwedInv => EdgeOwed
    BY DEF OwedInv, EdgeOwed
  <1> QED
    BY InitTyped, NextTyped, InitOwed, NextOwed, <1>1, PTL DEF Spec
=============================================================================
