------------------------ MODULE Diagnostics_proofs ------------------------
(***************************************************************************)
(* Theorems about Diagnostics: what the platform has of a boot is exactly  *)
(* what the board queued, in order and once.                               *)
(*                                                                         *)
(* An upload may be stored and its answer lost.  The invariant follows the *)
(* Overlap, the events at the head of the queue that are stored already:   *)
(* they are the last ones received, still rows, and at most one batch, so  *)
(* that the next upload recognises all of them.                            *)
(***************************************************************************)
EXTENDS Diagnostics, TLAPS, SequenceTheorems, FiniteSetTheorems

\* The number of the next event to acknowledge.
First == board.next - Len(queue)

Overlap == Uploaded - First

\* The queue has the events of this boot that are not acknowledged.
QueueFits ==
    /\ Len(queue) <= board.next
    /\ \A i \in DOMAIN queue :
          queue[i].boot = board.boot /\ queue[i].sequence = First + i - 1

\* An upload begins with what is stored already.
SendingFits ==
    sending # <<>> =>
        /\ Overlap <= Len(sending)
        /\ Len(sending) <= Len(queue)
        /\ \A i \in DOMAIN sending : sending[i] = queue[i]

OverlapFits ==
    /\ Overlap \in 0..Batch
    /\ Overlap <= Len(queue)
    /\ Overlap <= Len(rows)
    /\ Overlap <= Len(received)
    /\ \A k \in 1..Overlap : received[Len(received) - Overlap + k] = queue[k]

\* The rows are the last ones received.
RowsFit ==
    /\ Len(rows) <= Len(received)
    /\ \A i \in DOMAIN rows : rows[i] = received[Len(received) - Len(rows) + i]

Begun ==
    \A j \in DOMAIN received : \E i \in 1..j :
        received[i].boot = received[j].boot /\ received[i].sequence = 0

Consecutive ==
    \A i, j \in DOMAIN received :
        i < j => \/ received[i].boot < received[j].boot
                 \/ /\ received[i].boot = received[j].boot
                    /\ received[j].sequence = received[i].sequence + (j - i)

\* A boot event names an operation the boot before it may have ended in.
WordFits(e) == e.kind = "boot" /\ e.boot > 1 => e.operation \in ended[e.boot - 1]

WordsFit ==
    /\ Len(ended) = board.boot - 1
    /\ \A i \in DOMAIN queue : WordFits(queue[i])
    /\ \A i \in DOMAIN received : received[i].boot <= board.boot /\ WordFits(received[i])

Uploading == QueueFits /\ SendingFits /\ OverlapFits

History == RowsFit /\ Begun /\ Consecutive /\ WordsFit

Inv == DiagnosticsTypeOK /\ Uploading /\ History

----------------------------------------------------------------------------
(* Types.                                                                  *)

LEMMA EventType ==
    ASSUME NEW e \in Event
    PROVE  /\ e.boot \in 1..MaxBoots /\ e.boot \in Int
           /\ e.sequence \in Nat
           /\ e.operation \in Operation
  BY DiagnosticsAssumption DEF Event

LEMMA Domains ==
    ASSUME DiagnosticsTypeOK
    PROVE  /\ queue \in Seq(Event) /\ DOMAIN queue = 1..Len(queue) /\ Len(queue) \in Nat
           /\ sending \in Seq(Event) /\ DOMAIN sending = 1..Len(sending) /\ Len(sending) \in Nat
           /\ rows \in Seq(Event) /\ DOMAIN rows = 1..Len(rows) /\ Len(rows) \in Nat
           /\ received \in Seq(Event) /\ DOMAIN received = 1..Len(received) /\ Len(received) \in Nat
           /\ board.next \in Nat /\ board.boot \in 1..MaxBoots /\ board.boot \in Nat
           /\ board.operation \in Operation /\ board.stored \in Operation
           /\ First \in Int
  <1>1. /\ queue \in Seq(Event) /\ DOMAIN queue = 1..Len(queue) /\ Len(queue) \in Nat
        /\ sending \in Seq(Event) /\ DOMAIN sending = 1..Len(sending) /\ Len(sending) \in Nat
        /\ rows \in Seq(Event) /\ DOMAIN rows = 1..Len(rows) /\ Len(rows) \in Nat
        /\ received \in Seq(Event) /\ DOMAIN received = 1..Len(received) /\ Len(received) \in Nat
    BY DEF DiagnosticsTypeOK
  <1>2. /\ board.next \in Nat /\ board.boot \in 1..MaxBoots
        /\ board.operation \in Operation /\ board.stored \in Operation
    BY DEF DiagnosticsTypeOK
  <1>3. board.boot \in Nat
    BY <1>2, DiagnosticsAssumption
  <1> QED
    BY <1>1, <1>2, <1>3 DEF First

LEMMA UploadedType ==
    ASSUME DiagnosticsTypeOK
    PROVE  Uploaded \in Nat /\ Overlap \in Int
  <1>1. Uploaded \in Nat
    <2>1. CASE received # <<>> /\ received[Len(received)].boot = board.boot
      <3>1. received \in Seq(Event) /\ Len(received) \in 1..Len(received)
        BY <2>1, Domains, EmptySeq
      <3>2. received[Len(received)] \in Event
        BY <3>1, ElementOfSeq
      <3> QED
        BY <2>1, <3>2, EventType DEF Uploaded
    <2>2. CASE ~(received # <<>> /\ received[Len(received)].boot = board.boot)
      BY <2>2 DEF Uploaded
    <2> QED
      BY <2>1, <2>2
  <1> QED
    BY <1>1, Domains DEF Overlap

\* Nothing of this boot is received beyond what counts as uploaded.
LEMMA UploadedIsLast ==
    ASSUME Inv, NEW i \in DOMAIN received, received[i].boot = board.boot
    PROVE  /\ received[i].sequence = Uploaded - 1 - (Len(received) - i)
           /\ received # <<>> /\ received[Len(received)].boot = board.boot
  <1>1. DiagnosticsTypeOK /\ Consecutive /\ WordsFit
    BY DEF Inv, Uploading, History
  <1>2. PICK n \in Nat : n = Len(received)
    BY <1>1, Domains
  <1>3. DOMAIN received = 1..n /\ i \in 1..n
    BY <1>1, <1>2, Domains
  <1>4. n \in DOMAIN received /\ received # <<>>
    BY <1>2, <1>3
  <1>5. received[i] \in Event /\ received[n] \in Event
    BY <1>1, <1>2, <1>3, <1>4, Domains, ElementOfSeq
  <1>6. received[n].boot <= board.boot
    BY <1>1, <1>4 DEF WordsFit
  <1>7. /\ received[n].boot = board.boot
        /\ received[n].sequence = received[i].sequence + (n - i)
    <2>1. CASE i = n
      BY <2>1, <1>3, <1>5, EventType
    <2>2. CASE i # n
      <3>1. i < n
        BY <1>3, <2>2
      <3>2. \/ received[i].boot < received[n].boot
            \/ /\ received[i].boot = received[n].boot
               /\ received[n].sequence = received[i].sequence + (n - i)
        BY <1>1, <1>4, <3>1 DEF Consecutive
      <3> QED
        BY <3>2, <1>5, <1>6, EventType
    <2> QED
      BY <2>1, <2>2
  <1>8. Uploaded = received[n].sequence + 1
    BY <1>2, <1>4, <1>7 DEF Uploaded
  <1>9. received[i].sequence \in Nat /\ received[n].sequence \in Nat
    BY <1>5, EventType
  <1> QED
    BY <1>2, <1>3, <1>4, <1>7, <1>8, <1>9

----------------------------------------------------------------------------
(* What an upload stores.                                                  *)

\* If the batch begins with n events that are rows, the others make rows.
LEMMA CreatedRows ==
    ASSUME NEW batch \in Seq(Event), NEW n \in 0..Len(batch),
           \A i \in 1..Len(batch) : IsRow(batch[i]) <=> i <= n
    PROVE  /\ Created(batch) \in Seq(Event)
           /\ Len(Created(batch)) = Len(batch) - n
           /\ \A k \in 1..Len(batch) - n : Created(batch)[k] = batch[n + k]
  <1> DEFINE new == Fresh(batch)
  <1>0. PICK m \in Nat : m = Len(batch) /\ DOMAIN batch = 1..m
    BY LenProperties
  <1>1. m \in Nat /\ n \in Nat /\ n <= m /\ DOMAIN batch = 1..m
    BY <1>0
  <1>2. new = (n + 1)..m
    BY <1>0, <1>1 DEF Fresh
  <1>3. Cardinality(new) = m - n
    <2>1. Cardinality((n + 1)..m) = IF n + 1 > m THEN 0 ELSE m - (n + 1) + 1
      BY <1>1, FS_Interval
    <2>2. (IF n + 1 > m THEN 0 ELSE m - (n + 1) + 1) = m - n
      BY <1>1
    <2> QED
      BY <1>2, <2>1, <2>2
  <1>4. ASSUME NEW k \in 1..m - n
        PROVE  (CHOOSE i \in new : Cardinality({j \in new : j < i}) = k - 1) = n + k
    <2>1. ASSUME NEW i \in new
          PROVE  Cardinality({j \in new : j < i}) = i - 1 - n
      <3>1. {j \in new : j < i} = (n + 1)..(i - 1)
        BY <1>1, <1>2, <2>1
      <3>2. i - 1 \in Int /\ n + 1 \in Int /\ i >= n + 1
        BY <1>1, <1>2, <2>1
      <3>3. Cardinality((n + 1)..(i - 1)) = IF n + 1 > i - 1 THEN 0 ELSE (i - 1) - (n + 1) + 1
        BY <3>2, FS_Interval
      <3>4. (IF n + 1 > i - 1 THEN 0 ELSE (i - 1) - (n + 1) + 1) = i - 1 - n
        BY <1>1, <3>2, <1>2
      <3> QED
        BY <3>1, <3>3, <3>4
    <2>2. n + k \in new
      BY <1>1, <1>2
    <2>3. \A i \in new : Cardinality({j \in new : j < i}) = k - 1 <=> i = n + k
      BY <2>1, <1>1, <1>2
    <2> HIDE DEF new
    <2> QED
      BY <2>2, <2>3
  <1>5. Created(batch) = [k \in 1..m - n |-> batch[n + k]]
    <2>1. Created(batch) =
             [k \in 1..m - n |->
                 batch[CHOOSE i \in new : Cardinality({j \in new : j < i}) = k - 1]]
      BY <1>3 DEF Created
    <2> HIDE DEF new
    <2> QED
      BY <2>1, <1>4
  <1>6. \A k \in 1..m - n : batch[n + k] \in Event
    BY <1>0, <1>1, ElementOfSeq
  <1>7. m - n \in Nat
    BY <1>1
  <1>8. Created(batch) \in [1..m - n -> Event]
    BY <1>5, <1>6
  <1> QED
    BY <1>0, <1>5, <1>7, <1>8

LEMMA NewestRows ==
    ASSUME NEW s \in Seq(Event)
    PROVE  /\ Newest(s) \in Seq(Event)
           /\ Len(Newest(s)) <= Len(s) /\ Len(Newest(s)) <= KeepEvents
           /\ Len(Newest(s)) = Len(s) \/ Len(Newest(s)) = KeepEvents
           /\ \A i \in 1..Len(Newest(s)) : Newest(s)[i] = s[Len(s) - Len(Newest(s)) + i]
  <1>1. KeepEvents \in Nat
    BY DiagnosticsAssumption
  <1>2. PICK n \in Nat : n = Len(s)
    BY LenProperties
  <1>3. CASE n <= KeepEvents
    <2>1. Newest(s) = s
      BY <1>2, <1>3 DEF Newest
    <2> QED
      BY <1>1, <1>2, <1>3, <2>1
  <1>4. CASE n > KeepEvents
    <2>0. n - KeepEvents + 1 \in Int
      BY <1>1, <1>2
    <2>1. PICK a \in Int : a = n - KeepEvents + 1
      BY <2>0
    <2>2. Newest(s) = SubSeq(s, a, n)
      BY <1>1, <1>2, <1>4, <2>1 DEF Newest
    <2>3. \A i \in a..n : s[i] \in Event
      BY <1>1, <1>2, <1>4, <2>1, ElementOfSeq
    <2>4. n - a + 1 = KeepEvents /\ a <= n + 1
      BY <1>1, <1>4, <2>1
    <2>5. /\ SubSeq(s, a, n) \in Seq(Event)
          /\ Len(SubSeq(s, a, n)) = IF a <= n THEN n - a + 1 ELSE 0
          /\ \A i \in 1..n - a + 1 : SubSeq(s, a, n)[i] = s[a + i - 1]
      BY <2>3, SubSeqProperties
    <2>6. (IF a <= n THEN n - a + 1 ELSE 0) = KeepEvents
      BY <1>1, <1>2, <2>1, <2>4
    <2>7. Len(Newest(s)) = KeepEvents
      BY <2>2, <2>5, <2>6
    <2>8. ASSUME NEW i \in 1..KeepEvents
          PROVE  Newest(s)[i] = s[n - KeepEvents + i]
      <3>1. a + i - 1 = n - KeepEvents + i
        BY <1>1, <1>2, <2>1
      <3> QED
        BY <2>2, <2>4, <2>5, <2>8, <3>1
    <2>9. Newest(s) \in Seq(Event)
      BY <2>2, <2>5
    <2> QED
      BY <1>1, <1>2, <1>4, <2>7, <2>8, <2>9
  <1> QED
    BY <1>1, <1>2, <1>3, <1>4

\* Which events of an upload are rows already: the overlap.
LEMMA OverlapIsRow ==
    ASSUME Inv, sending # <<>>, NEW i \in 1..Len(sending)
    PROVE  IsRow(sending[i]) <=> i <= Overlap
  <1>1. /\ DiagnosticsTypeOK /\ QueueFits /\ SendingFits /\ OverlapFits /\ RowsFit
    BY DEF Inv, Uploading, History
  <1>2. PICK n \in Nat, r \in Nat, l \in Nat, u \in Nat, f \in Int :
           n = Overlap /\ r = Len(rows) /\ l = Len(received) /\ u = Uploaded /\ f = First
    <2>1. Overlap \in Nat /\ Uploaded \in Nat /\ First \in Int
      BY <1>1, Domains, UploadedType, DiagnosticsAssumption DEF OverlapFits
    <2>2. Len(rows) \in Nat /\ Len(received) \in Nat
      BY <1>1, Domains
    <2> QED
      BY <2>1, <2>2
  <1>3. n = u - f /\ n <= r /\ r <= l
    BY <1>1, <1>2 DEF Overlap, OverlapFits, RowsFit
  <1>4. /\ DOMAIN rows = 1..r /\ DOMAIN received = 1..l
        /\ \A j \in 1..r : rows[j] = received[l - r + j]
        /\ \A k \in 1..n : received[l - n + k] = queue[k]
    BY <1>1, <1>2, Domains DEF RowsFit, OverlapFits
  <1>5. /\ i \in DOMAIN sending /\ i \in Nat /\ i >= 1
        /\ sending[i] = queue[i] /\ i \in DOMAIN queue
    <2>1. i \in DOMAIN sending /\ i \in Nat /\ i >= 1 /\ Len(sending) <= Len(queue)
          /\ sending[i] = queue[i] /\ Len(sending) \in Nat /\ Len(queue) \in Nat
          /\ DOMAIN queue = 1..Len(queue)
      BY <1>1, Domains DEF SendingFits
    <2>2. i \in 1..Len(queue)
      BY <2>1
    <2> QED
      BY <2>1, <2>2
  <1>6. sending[i].boot = board.boot /\ sending[i].sequence = f + i - 1
    BY <1>1, <1>2, <1>5 DEF QueueFits
  <1>7. ASSUME i <= n PROVE IsRow(sending[i])
    <2>1. r - n + i \in 1..r /\ l - r + (r - n + i) = l - n + i /\ i \in 1..n
      BY <1>3, <1>5, <1>7
    <2>2. rows[r - n + i] = sending[i]
      BY <1>4, <1>5, <2>1
    <2> QED
      BY <1>4, <2>1, <2>2 DEF IsRow
  <1>8. ASSUME IsRow(sending[i]) PROVE i <= n
    <2>1. PICK j \in 1..r : rows[j].boot = board.boot /\ rows[j].sequence = f + i - 1
      BY <1>4, <1>6, <1>8 DEF IsRow
    <2>2. l - r + j \in 1..l
      BY <1>3, <2>1
    <2>3. PICK k \in 1..l : k = l - r + j /\ received[k] = rows[j]
      BY <1>4, <2>2
    <2>4. received[k].sequence = u - 1 - (l - k)
      BY <1>2, <1>4, <2>1, <2>3, UploadedIsLast
    <2>5. f + i - 1 = u - 1 - (l - k)
      BY <2>1, <2>3, <2>4
    <2> QED
      BY <1>3, <1>5, <2>5
  <1> QED
    BY <1>2, <1>7, <1>8

LEMMA StoredStep ==
    ASSUME Inv, sending # <<>>, Stored(sending)
    PROVE  /\ received' \in Seq(Event)
           /\ Len(received') = Len(received) + Len(sending) - Overlap
           /\ \A i \in 1..Len(received) : received'[i] = received[i]
           /\ \A k \in 1..Len(sending) - Overlap :
                 received'[Len(received) + k] = sending[Overlap + k]
           /\ rows' \in Seq(Event) /\ Len(rows') <= KeepEvents
           /\ Len(sending) <= Len(rows') /\ Len(rows') <= Len(received')
           /\ \A i \in 1..Len(rows') : rows'[i] = received'[Len(received') - Len(rows') + i]
  <1>1. /\ DiagnosticsTypeOK /\ SendingFits /\ OverlapFits /\ RowsFit
    BY DEF Inv, Uploading, History
  <1>2. PICK n \in Nat, m \in Nat, r \in Nat, l \in Nat :
           n = Overlap /\ m = Len(sending) /\ r = Len(rows) /\ l = Len(received)
    <2>1. Overlap \in Nat
      BY <1>1, DiagnosticsAssumption DEF OverlapFits
    <2>2. Len(sending) \in Nat /\ Len(rows) \in Nat /\ Len(received) \in Nat
      BY <1>1, Domains
    <2> QED
      BY <2>1, <2>2
  <1>3. n <= m /\ n <= r /\ r <= l /\ m <= Batch /\ Batch \in Nat
        /\ KeepEvents \in Nat /\ KeepEvents >= Batch
    BY <1>1, <1>2, DiagnosticsAssumption DEF SendingFits, OverlapFits, RowsFit, DiagnosticsTypeOK
  <1>4. /\ \A j \in 1..r : rows[j] = received[l - r + j]
        /\ \A k \in 1..n : received[l - n + k] = sending[k]
        /\ DOMAIN sending = 1..m
    <2>1. DOMAIN rows = 1..r /\ DOMAIN sending = 1..m
      BY <1>1, <1>2, Domains
    <2>2. \A k \in 1..n : k \in 1..m
      BY <1>3
    <2> QED
      BY <1>1, <1>2, <2>1, <2>2 DEF RowsFit, OverlapFits, SendingFits
  <1> DEFINE c == Created(sending)
  <1>5. c \in Seq(Event) /\ Len(c) = m - n /\ \A k \in 1..m - n : c[k] = sending[n + k]
    <2>1. n \in 0..Len(sending) /\ sending \in Seq(Event)
      BY <1>1, <1>2, <1>3, Domains
    <2>2. \A i \in 1..Len(sending) : IsRow(sending[i]) <=> i <= n
      BY <1>2, OverlapIsRow
    <2> QED
      BY <1>2, <2>1, <2>2, CreatedRows
  <1>6. PICK aged \in 0..r :
          /\ \A i \in 1..aged : \A j \in DOMAIN sending : rows[i] # sending[j]
          /\ rows' = Newest(SubSeq(rows, aged + 1, r) \o c)
    BY <1>2 DEF Stored
  <1>7. received' = received \o c
    BY DEF Stored
  <1> HIDE DEF c
  <1>8. aged <= r - n
    <2>1. CASE n = 0
      BY <2>1, <1>2
    <2>2. CASE n # 0
      <3>1. 1 \in 1..n /\ 1 \in DOMAIN sending /\ r - n + 1 \in 1..r /\ l - r + (r - n + 1) = l - n + 1
        BY <1>2, <1>3, <1>4, <2>2
      <3>2. rows[r - n + 1] = sending[1]
        BY <1>4, <3>1
      <3>3. ~(r - n + 1 \in 1..aged)
        BY <1>6, <3>1, <3>2
      <3> QED
        BY <1>2, <1>3, <1>6, <3>3
    <2> QED
      BY <2>1, <2>2
  <1>9. /\ received' \in Seq(Event)
        /\ Len(received') = l + (m - n)
        /\ \A i \in 1..l : received'[i] = received[i]
        /\ \A k \in 1..m - n : received'[l + k] = c[k]
    <2>1. received \in Seq(Event)
      BY <1>1, Domains
    <2>2. /\ received \o c \in Seq(Event)
          /\ Len(received \o c) = l + (m - n)
          /\ \A i \in 1..l + (m - n) : (received \o c)[i] = IF i <= l THEN received[i] ELSE c[i - l]
      <3>1. c \in Seq(Event) /\ Len(c) = m - n
        BY <1>5
      <3>2. /\ received \o c \in Seq(Event)
            /\ Len(received \o c) = Len(received) + Len(c)
            /\ \A i \in 1..Len(received) + Len(c) :
                  (received \o c)[i] = IF i <= Len(received) THEN received[i] ELSE c[i - Len(received)]
        BY <2>1, <3>1, ConcatProperties
      <3> QED
        BY <1>2, <3>1, <3>2
    <2>3. ASSUME NEW i \in 1..l PROVE received'[i] = received[i]
      <3>1. i \in 1..l + (m - n) /\ i <= l
        BY <1>2, <1>3
      <3> QED
        BY <1>7, <2>2, <3>1
    <2>4. ASSUME NEW k \in 1..m - n PROVE received'[l + k] = c[k]
      <3>1. l + k \in 1..l + (m - n) /\ ~(l + k <= l) /\ (l + k) - l = k
        BY <1>2, <1>3
      <3> QED
        BY <1>7, <2>2, <3>1
    <2> QED
      BY <1>7, <2>2, <2>3, <2>4
  <1> DEFINE q == SubSeq(rows, aged + 1, r)
             s == q \o c
  <1>10. /\ q \in Seq(Event) /\ Len(q) = r - aged
         /\ \A i \in 1..r - aged : q[i] = rows[aged + i]
    <2>1. \A i \in (aged + 1)..r : rows[i] \in Event
      BY <1>1, <1>2, <1>6, Domains, ElementOfSeq
    <2>2. aged + 1 \in Int /\ r \in Int
      BY <1>2, <1>6
    <2>3. /\ q \in Seq(Event)
          /\ Len(q) = IF aged + 1 <= r THEN r - (aged + 1) + 1 ELSE 0
          /\ \A i \in 1..r - (aged + 1) + 1 : q[i] = rows[(aged + 1) + i - 1]
      BY <2>1, <2>2, SubSeqProperties
    <2>4. (IF aged + 1 <= r THEN r - (aged + 1) + 1 ELSE 0) = r - aged
          /\ r - (aged + 1) + 1 = r - aged
      BY <1>2, <1>6
    <2>5. \A i \in 1..r - aged : (aged + 1) + i - 1 = aged + i
      BY <1>2, <1>6
    <2> QED
      BY <2>3, <2>4, <2>5
  <1> HIDE DEF q
  <1>11. /\ s \in Seq(Event)
         /\ Len(s) = (r - aged) + (m - n)
         /\ \A i \in 1..(r - aged) + (m - n) :
               s[i] = IF i <= r - aged THEN q[i] ELSE c[i - (r - aged)]
    <2>1. q \in Seq(Event) /\ c \in Seq(Event) /\ Len(q) = r - aged /\ Len(c) = m - n
      BY <1>5, <1>10
    <2>2. /\ q \o c \in Seq(Event)
          /\ Len(q \o c) = Len(q) + Len(c)
          /\ \A i \in 1..Len(q) + Len(c) :
                (q \o c)[i] = IF i <= Len(q) THEN q[i] ELSE c[i - Len(q)]
      BY <2>1, ConcatProperties
    <2> QED
      BY <2>1, <2>2
  <1> HIDE DEF s
  <1>12. rows' = Newest(s)
    BY <1>6 DEF s, q
  <1>13. PICK t \in Nat : t = (r - aged) + (m - n)
    <2>1. (r - aged) + (m - n) \in Nat
      BY <1>2, <1>3, <1>6
    <2> QED
      BY <2>1
  <1>14. l + (m - n) - t = (l - r) + aged /\ t <= l + (m - n) /\ t >= m
    BY <1>2, <1>3, <1>6, <1>8, <1>13
  <1>15. ASSUME NEW i \in 1..t
         PROVE  s[i] = received'[l + (m - n) - t + i]
    <2>1. CASE i <= r - aged
      <3>1. i \in 1..r - aged /\ aged + i \in 1..r /\ l - r + (aged + i) = l + (m - n) - t + i
            /\ l - r + (aged + i) \in 1..l
        BY <1>2, <1>3, <1>6, <1>14, <2>1
      <3>2. s[i] = q[i]
        BY <1>11, <1>13, <2>1
      <3> QED
        BY <1>4, <1>9, <1>10, <3>1, <3>2
    <2>2. CASE ~(i <= r - aged)
      <3>1. i - (r - aged) \in 1..m - n /\ l + (i - (r - aged)) = l + (m - n) - t + i
        BY <1>2, <1>3, <1>6, <1>13, <2>2
      <3>2. s[i] = c[i - (r - aged)]
        BY <1>11, <1>13, <2>2
      <3> QED
        BY <1>9, <3>1, <3>2
    <2> QED
      BY <2>1, <2>2
  <1>16. PICK w \in Nat : w = Len(rows')
    BY <1>11, <1>12, NewestRows, LenProperties
  <1>17. /\ rows' \in Seq(Event)
         /\ w <= t /\ w <= KeepEvents /\ (w = t \/ w = KeepEvents)
         /\ \A i \in 1..w : rows'[i] = s[t - w + i]
    BY <1>11, <1>12, <1>13, <1>16, NewestRows
  <1>18. m <= w /\ w <= l + (m - n)
    BY <1>2, <1>3, <1>14, <1>17
  <1>19. ASSUME NEW i \in 1..w PROVE rows'[i] = received'[l + (m - n) - w + i]
    <2>1. t - w + i \in 1..t /\ l + (m - n) - t + (t - w + i) = l + (m - n) - w + i
      BY <1>2, <1>13, <1>17
    <2> QED
      BY <1>15, <1>17, <2>1
  <1>20. l + (m - n) = l + m - n
    BY <1>2
  <1>21. /\ received' \in Seq(Event)
         /\ Len(received') = Len(received) + Len(sending) - Overlap
         /\ \A i \in 1..Len(received) : received'[i] = received[i]
    BY <1>2, <1>9, <1>20
  <1>22. \A k \in 1..Len(sending) - Overlap : received'[Len(received) + k] = sending[Overlap + k]
    BY <1>2, <1>5, <1>9
  <1>23. /\ rows' \in Seq(Event) /\ Len(rows') <= KeepEvents
         /\ Len(sending) <= Len(rows') /\ Len(rows') <= Len(received')
    BY <1>2, <1>9, <1>16, <1>17, <1>18
  <1>24. ASSUME NEW i \in 1..Len(rows')
         PROVE  rows'[i] = received'[Len(received') - Len(rows') + i]
    <2>1. Len(rows') = w /\ Len(received') = l + (m - n)
      BY <1>9, <1>16
    <2>2. i \in 1..w
      BY <2>1
    <2>3. rows'[i] = received'[l + (m - n) - w + i]
      BY <1>19, <2>2
    <2> QED
      BY <2>1, <2>3
  <1> QED
    BY <1>21, <1>22, <1>23, <1>24

----------------------------------------------------------------------------
(* Steps that store.                                                       *)

LEMMA UploadedAfter ==
    ASSUME Inv, sending # <<>>, Stored(sending), board' = board
    PROVE  Uploaded' = First + Len(sending)
  <1>1. /\ DiagnosticsTypeOK /\ QueueFits /\ SendingFits /\ OverlapFits
    BY DEF Inv, Uploading
  <1>2. PICK n \in Nat, m \in Nat, l \in Nat, f \in Int :
           n = Overlap /\ m = Len(sending) /\ l = Len(received) /\ f = First
    <2>1. Overlap \in Nat /\ First \in Int
      BY <1>1, Domains, DiagnosticsAssumption DEF OverlapFits
    <2>2. Len(sending) \in Nat /\ Len(received) \in Nat
      BY <1>1, Domains
    <2> QED
      BY <2>1, <2>2
  <1>3. m >= 1 /\ n <= m /\ n <= l /\ m <= Len(queue) /\ Len(queue) \in Nat
        /\ DOMAIN queue = 1..Len(queue) /\ DOMAIN sending = 1..m
    BY <1>1, <1>2, Domains, EmptySeq DEF SendingFits, OverlapFits
  <1>4. m \in DOMAIN queue /\ m \in DOMAIN sending
    BY <1>3
  <1>5. sending[m] = queue[m] /\ queue[m].boot = board.boot /\ queue[m].sequence = f + m - 1
    BY <1>1, <1>2, <1>4 DEF SendingFits, QueueFits
  <1>6. PICK z \in Nat : z = Len(received') /\ z = l + m - n
    <2>1. l + m - n \in Nat
      BY <1>2, <1>3
    <2> QED
      BY <1>2, <2>1, StoredStep
  <1>7. z >= 1 /\ received'[z] = queue[m]
    <2>1. CASE n < m
      <3>1. m - n \in 1..m - n /\ l + (m - n) = z /\ n + (m - n) = m /\ z >= 1
        BY <1>2, <1>3, <1>6, <2>1
      <3>2. received'[l + (m - n)] = sending[n + (m - n)]
        BY <1>2, <3>1, StoredStep
      <3> QED
        BY <1>5, <3>1, <3>2
    <2>2. CASE n = m
      <3>1. l \in 1..l /\ n \in 1..n /\ z = l /\ l - n + n = l /\ z >= 1
        BY <1>2, <1>3, <1>6, <2>2
      <3>2. received'[l] = received[l]
        BY <1>2, <3>1, StoredStep
      <3>3. received[l - n + n] = queue[n]
        BY <1>1, <1>2, <3>1 DEF OverlapFits
      <3> QED
        BY <2>2, <3>1, <3>2, <3>3
    <2> QED
      BY <1>3, <2>1, <2>2
  <1>8. received' # <<>>
    <2> SUFFICES ASSUME received' = <<>> PROVE FALSE
      OBVIOUS
    <2>1. Len(received') = 0
      OBVIOUS
    <2> QED
      BY <1>6, <1>7, <2>1
  <1>9. f + m - 1 + 1 = f + m
    BY <1>2
  <1> QED
    BY <1>2, <1>5, <1>6, <1>7, <1>8, <1>9 DEF Uploaded

\* What is received now was received before, or it is of this upload.
LEMMA ReceivedFrom ==
    ASSUME Inv, sending # <<>>, Stored(sending), NEW j \in DOMAIN received'
    PROVE  \/ j \in DOMAIN received /\ received'[j] = received[j]
           \/ /\ j > Len(received)
              /\ received'[j].boot = board.boot
              /\ received'[j].sequence = Uploaded + (j - Len(received)) - 1
              /\ \E i \in DOMAIN queue : received'[j] = queue[i]
  <1>1. /\ DiagnosticsTypeOK /\ QueueFits /\ SendingFits /\ OverlapFits
    BY DEF Inv, Uploading
  <1>2. PICK n \in Nat, m \in Nat, l \in Nat, f \in Int, u \in Nat :
           n = Overlap /\ m = Len(sending) /\ l = Len(received) /\ f = First /\ u = Uploaded
    <2>1. Overlap \in Nat /\ First \in Int /\ Uploaded \in Nat
      BY <1>1, Domains, UploadedType, DiagnosticsAssumption DEF OverlapFits
    <2>2. Len(sending) \in Nat /\ Len(received) \in Nat
      BY <1>1, Domains
    <2> QED
      BY <2>1, <2>2
  <1>3. n = u - f /\ n <= m /\ m <= Len(queue) /\ Len(queue) \in Nat
        /\ DOMAIN queue = 1..Len(queue) /\ DOMAIN sending = 1..m /\ DOMAIN received = 1..l
    BY <1>1, <1>2, Domains DEF Overlap, SendingFits
  <1>4. DOMAIN received' = 1..l + m - n
    BY <1>2, StoredStep, LenProperties
  <1>5. CASE j <= l
    <2>1. j \in 1..l
      BY <1>2, <1>4, <1>5
    <2> QED
      BY <1>2, <1>3, <2>1, StoredStep
  <1>6. CASE j > l
    <2>1. j - l \in 1..m - n /\ n + (j - l) \in 1..m /\ l + (j - l) = j
      BY <1>2, <1>3, <1>4, <1>6
    <2>2. received'[l + (j - l)] = sending[n + (j - l)]
      BY <1>2, <2>1, StoredStep
    <2>3. n + (j - l) \in DOMAIN sending /\ n + (j - l) \in DOMAIN queue
      BY <1>3, <2>1
    <2>4. sending[n + (j - l)] = queue[n + (j - l)]
      BY <1>1, <2>3 DEF SendingFits
    <2>5. /\ queue[n + (j - l)].boot = board.boot
          /\ queue[n + (j - l)].sequence = f + (n + (j - l)) - 1
      BY <1>1, <1>2, <2>3 DEF QueueFits
    <2>6. f + (n + (j - l)) - 1 = u + (j - l) - 1
      BY <1>2, <1>3, <1>4, <1>6
    <2>7. received'[j] = queue[n + (j - l)]
      BY <2>1, <2>2, <2>4
    <2> QED
      BY <1>2, <1>6, <2>3, <2>5, <2>6, <2>7
  <1>7. j \in Int
    BY <1>4
  <1> QED
    BY <1>2, <1>5, <1>6, <1>7

LEMMA ReceivedConsecutive ==
    ASSUME Inv, sending # <<>>, Stored(sending)
    PROVE  Begun' /\ Consecutive'
  <1>1. /\ DiagnosticsTypeOK /\ Begun /\ Consecutive /\ WordsFit
    BY DEF Inv, History
  <1>2. PICK l \in Nat, u \in Nat : l = Len(received) /\ u = Uploaded
    <2>1. Len(received) \in Nat /\ Uploaded \in Nat
      BY <1>1, Domains, UploadedType
    <2> QED
      BY <2>1
  <1>3. /\ DOMAIN received = 1..l
        /\ DOMAIN received' = 1..Len(received') /\ Len(received') \in Nat
        /\ \A j \in DOMAIN received' : j \in Nat /\ j >= 1 /\ received'[j] \in Event
    <2>1. received' \in Seq(Event)
      BY StoredStep
    <2>2. DOMAIN received' = 1..Len(received') /\ Len(received') \in Nat
      BY <2>1
    <2> QED
      BY <1>1, <1>2, <2>1, <2>2, Domains, ElementOfSeq
  <1>4. \A j \in DOMAIN received' :
           \/ j \in DOMAIN received /\ received'[j] = received[j]
           \/ /\ j > l
              /\ received'[j].boot = board.boot
              /\ received'[j].sequence = u + (j - l) - 1
    BY <1>2, ReceivedFrom
  <1>5. \A j \in DOMAIN received : received[j].boot = board.boot => received[j].sequence = u - 1 - (l - j)
    BY <1>2, UploadedIsLast
  <1>6. DOMAIN received \subseteq DOMAIN received'
    <2>1. \A j \in 1..l : received'[j] = received[j]
      BY <1>2, StoredStep
    <2>2. Len(received') >= l
      <3>1. /\ Overlap <= Len(sending) /\ Overlap \in Nat /\ Len(sending) \in Nat
            /\ Len(received') = l + Len(sending) - Overlap
        BY <1>1, <1>2, Domains, StoredStep, DiagnosticsAssumption
           DEF Inv, Uploading, SendingFits, OverlapFits
      <3> QED
        BY <1>2, <3>1
    <2> QED
      BY <1>2, <1>3, <2>2
  <1>7. ASSUME NEW i \in DOMAIN received', NEW j \in DOMAIN received', i < j
        PROVE  \/ received'[i].boot < received'[j].boot
               \/ /\ received'[i].boot = received'[j].boot
                  /\ received'[j].sequence = received'[i].sequence + (j - i)
    <2>1. CASE i \in DOMAIN received /\ j \in DOMAIN received
      <3>1. received'[i] = received[i] /\ received'[j] = received[j]
        BY <1>2, <1>3, <2>1, StoredStep
      <3> QED
        BY <1>1, <1>7, <2>1, <3>1 DEF Consecutive
    <2>2. CASE i \in DOMAIN received /\ j \notin DOMAIN received
      <3>1. received'[i] = received[i]
        BY <1>2, <1>3, <2>2, StoredStep
      <3>2. received'[j].boot = board.boot /\ received'[j].sequence = u + (j - l) - 1
        BY <1>4, <2>2
      <3>3. received[i].boot <= board.boot /\ received[i].boot \in Nat /\ board.boot \in Nat
        <4>1. received[i] \in Event /\ received[i].boot \in 1..MaxBoots
          BY <1>3, <3>1, EventType
        <4> QED
          BY <1>1, <2>2, <4>1, Domains, DiagnosticsAssumption DEF WordsFit
      <3>4. CASE received[i].boot < board.boot
        BY <3>1, <3>2, <3>4
      <3>5. CASE received[i].boot = board.boot
        <4>1. received[i].sequence = u - 1 - (l - i)
          BY <1>5, <2>2, <3>5
        <4>2. u + (j - l) - 1 = u - 1 - (l - i) + (j - i)
          BY <1>2, <1>3
        <4> QED
          BY <3>1, <3>2, <3>5, <4>1, <4>2
      <3> QED
        BY <3>3, <3>4, <3>5
    <2>3. CASE i \notin DOMAIN received
      <3>1. i > l /\ received'[i].boot = board.boot /\ received'[i].sequence = u + (i - l) - 1
        BY <1>4, <2>3
      <3>2. j \notin DOMAIN received
        BY <1>2, <1>3, <1>7, <3>1
      <3>3. received'[j].boot = board.boot /\ received'[j].sequence = u + (j - l) - 1
        BY <1>4, <3>2
      <3>4. u + (j - l) - 1 = u + (i - l) - 1 + (j - i)
        BY <1>2, <1>3
      <3> QED
        BY <3>1, <3>3, <3>4
    <2> QED
      BY <2>1, <2>2, <2>3
  <1>8. ASSUME NEW j \in DOMAIN received'
        PROVE  \E i \in 1..j : received'[i].boot = received'[j].boot /\ received'[i].sequence = 0
    <2>1. CASE j \in DOMAIN received
      <3>1. PICK i \in 1..j : received[i].boot = received[j].boot /\ received[i].sequence = 0
        BY <1>1, <2>1 DEF Begun
      <3>2. i \in 1..l /\ j \in 1..l
        BY <1>3, <2>1
      <3>3. received'[i] = received[i] /\ received'[j] = received[j]
        BY <1>2, <3>2, StoredStep
      <3> QED
        BY <3>1, <3>3
    <2>2. CASE j \notin DOMAIN received
      <3>1. j > l /\ received'[j].boot = board.boot
        BY <1>4, <2>2
      <3>2. CASE u = 0
        <4>1. l + 1 \in 1..j /\ l + 1 \in DOMAIN received' /\ l + 1 \notin DOMAIN received
          BY <1>2, <1>3, <3>1
        <4>2. received'[l + 1].boot = board.boot
              /\ received'[l + 1].sequence = u + ((l + 1) - l) - 1
          BY <1>4, <4>1
        <4>3. u + ((l + 1) - l) - 1 = 0
          BY <1>2, <3>2
        <4> QED
          BY <3>1, <4>1, <4>2, <4>3
      <3>3. CASE u # 0
        <4>1. received # <<>> /\ received[l].boot = board.boot
          BY <1>2, <3>3 DEF Uploaded
        <4>2. l \in DOMAIN received
          BY <1>1, <1>2, <1>3, <4>1, Domains, EmptySeq
        <4>3. PICK i \in 1..l : received[i].boot = received[l].boot /\ received[i].sequence = 0
          BY <1>1, <4>2 DEF Begun
        <4>4. received'[i] = received[i] /\ i \in 1..j
          BY <1>2, <1>3, <3>1, StoredStep
        <4> QED
          BY <3>1, <4>1, <4>3, <4>4
      <3> QED
        BY <3>2, <3>3
    <2> QED
      BY <2>1, <2>2
  <1> QED
    BY <1>7, <1>8 DEF Begun, Consecutive

LEMMA StoredHistory ==
    ASSUME Inv, sending # <<>>, Stored(sending), board' = board, ended' = ended,
           \A i \in DOMAIN queue' : \E k \in DOMAIN queue : queue'[i] = queue[k]
    PROVE  History'
  <1>1. DiagnosticsTypeOK /\ WordsFit
    BY DEF Inv, History
  <1>2. RowsFit'
    <2>1. DOMAIN rows' = 1..Len(rows')
      BY StoredStep, LenProperties
    <2> QED
      BY <2>1, StoredStep DEF RowsFit
  <1>3. WordsFit'
    <2>2. \A i \in DOMAIN queue' : WordFits(queue'[i])
      BY <1>1 DEF WordsFit
    <2>3. \A j \in DOMAIN received' : received'[j].boot <= board.boot /\ WordFits(received'[j])
      <3> SUFFICES ASSUME NEW j \in DOMAIN received'
                   PROVE  received'[j].boot <= board.boot /\ WordFits(received'[j])
        OBVIOUS
      <3>1. CASE j \in DOMAIN received /\ received'[j] = received[j]
        BY <1>1, <3>1 DEF WordsFit
      <3>2. CASE received'[j].boot = board.boot /\ \E i \in DOMAIN queue : received'[j] = queue[i]
        BY <1>1, <3>2, Domains DEF WordsFit
      <3> QED
        BY <3>1, <3>2, ReceivedFrom
    <2> QED
      BY <1>1, <2>2, <2>3 DEF WordsFit, WordFits
  <1> QED
    BY <1>2, <1>3, ReceivedConsecutive DEF History

----------------------------------------------------------------------------
(* The steps.                                                              *)

LEMMA UploadStep ==
    ASSUME Inv, Upload
    PROVE  Uploading' /\ History'
  <1>1. /\ DiagnosticsTypeOK /\ QueueFits /\ SendingFits
        /\ sending # <<>> /\ Stored(sending) /\ board' = board /\ ended' = ended
        /\ sending' = <<>> /\ queue' = SubSeq(queue, Len(sending) + 1, Len(queue))
    BY DEF Inv, Uploading, Upload, Left
  <1>2. PICK m \in Nat, q \in Nat, f \in Int : m = Len(sending) /\ q = Len(queue) /\ f = First
    BY <1>1, Domains
  <1>3. m >= 1 /\ m <= q /\ DOMAIN queue = 1..q /\ f = board.next - q /\ board.next \in Nat
        /\ q <= board.next
    BY <1>1, <1>2, Domains, EmptySeq DEF SendingFits, QueueFits, First
  <1>4. /\ queue' \in Seq(Event)
        /\ Len(queue') = q - m
        /\ \A i \in 1..q - m : queue'[i] = queue[m + i]
    <2>1. \A i \in (m + 1)..q : queue[i] \in Event
      BY <1>1, <1>2, <1>3, Domains, ElementOfSeq
    <2>2. /\ SubSeq(queue, m + 1, q) \in Seq(Event)
          /\ Len(SubSeq(queue, m + 1, q)) = IF m + 1 <= q THEN q - (m + 1) + 1 ELSE 0
          /\ \A i \in 1..q - (m + 1) + 1 : SubSeq(queue, m + 1, q)[i] = queue[(m + 1) + i - 1]
      BY <2>1, SubSeqProperties
    <2>3. (IF m + 1 <= q THEN q - (m + 1) + 1 ELSE 0) = q - m /\ q - (m + 1) + 1 = q - m
      BY <1>2, <1>3
    <2>4. \A i \in 1..q - m : (m + 1) + i - 1 = m + i
      BY <1>2
    <2> QED
      BY <1>1, <1>2, <2>2, <2>3, <2>4
  <1>5. DOMAIN queue' = 1..q - m /\ q - m \in Nat
    BY <1>2, <1>3, <1>4
  <1>6. \A i \in DOMAIN queue' : m + i \in DOMAIN queue /\ queue'[i] = queue[m + i]
    <2>1. \A i \in 1..q - m : m + i \in 1..q
      BY <1>2, <1>3
    <2> QED
      BY <1>3, <1>4, <1>5, <2>1
  <1>7. First' = f + m
    <2>1. First' = board.next - (q - m)
      BY <1>1, <1>4 DEF First
    <2> QED
      BY <1>2, <1>3, <2>1
  <1>8. Overlap' = 0
    <2>1. Uploaded' = f + m
      BY <1>1, <1>2, UploadedAfter
    <2>2. Overlap' = (f + m) - (f + m)
      BY <1>7, <2>1 DEF Overlap
    <2> QED
      BY <1>2, <2>2
  <1>9. QueueFits'
    <2>1. ASSUME NEW i \in DOMAIN queue'
          PROVE  queue'[i].boot = board.boot /\ queue'[i].sequence = (f + m) + i - 1
      <3>1. queue[m + i].boot = board.boot /\ queue[m + i].sequence = f + (m + i) - 1
        BY <1>1, <1>2, <1>6 DEF QueueFits
      <3>2. f + (m + i) - 1 = (f + m) + i - 1
        BY <1>2, <1>5
      <3> QED
        BY <1>6, <3>1, <3>2
    <2>2. Len(queue') <= board.next
      BY <1>2, <1>3, <1>4
    <2> QED
      BY <1>1, <1>7, <2>1, <2>2 DEF QueueFits
  <1>10. SendingFits'
    BY <1>1 DEF SendingFits
  <1>11. OverlapFits'
    <2>1. Len(rows') \in Nat /\ Len(received') \in Nat /\ Len(queue') \in Nat
      BY <1>1, <1>4, <1>5, StoredStep, LenProperties
    <2>2. 0 \in 0..Batch
      BY DiagnosticsAssumption
    <2> QED
      BY <1>8, <2>1, <2>2 DEF OverlapFits
  <1>12. \A i \in DOMAIN queue' : \E k \in DOMAIN queue : queue'[i] = queue[k]
    BY <1>6
  <1> QED
    BY <1>1, <1>9, <1>10, <1>11, <1>12, StoredHistory DEF Uploading

\* The answer is lost, but the upload is stored: all of it overlaps.
LEMMA AnswerLost ==
    ASSUME Inv, sending # <<>>, Stored(sending), sending' = <<>>,
           UNCHANGED <<queue, board, ended>>
    PROVE  Uploading' /\ History'
  <1>1. /\ DiagnosticsTypeOK /\ QueueFits /\ SendingFits /\ OverlapFits
    BY DEF Inv, Uploading
  <1>2. PICK n \in Nat, m \in Nat, l \in Nat, f \in Int :
           n = Overlap /\ m = Len(sending) /\ l = Len(received) /\ f = First
    <2>1. Overlap \in Nat /\ First \in Int
      BY <1>1, Domains, DiagnosticsAssumption DEF OverlapFits
    <2>2. Len(sending) \in Nat /\ Len(received) \in Nat
      BY <1>1, Domains
    <2> QED
      BY <2>1, <2>2
  <1>3. n <= m /\ n <= l /\ m <= Len(queue) /\ m <= Batch /\ Batch \in Nat /\ DOMAIN sending = 1..m
    BY <1>1, <1>2, Domains, DiagnosticsAssumption DEF SendingFits, OverlapFits, DiagnosticsTypeOK
  <1>4. First' = f
    BY <1>2 DEF First
  <1>5. Overlap' = m
    <2>1. Uploaded' = f + m
      BY <1>2, UploadedAfter
    <2>2. Overlap' = (f + m) - f
      BY <1>4, <2>1 DEF Overlap
    <2> QED
      BY <1>2, <2>2
  <1>6. QueueFits'
    BY <1>1, <1>2, <1>4 DEF QueueFits
  <1>7. SendingFits'
    BY DEF SendingFits
  <1>8. Len(received') = l + m - n
    BY <1>2, StoredStep
  <1>9. ASSUME NEW k \in 1..m
        PROVE  received'[(l + m - n) - m + k] = queue[k]
    <2>1. CASE k <= n
      <3>1. k \in 1..n /\ l - n + k \in 1..l /\ (l + m - n) - m + k = l - n + k
        BY <1>2, <1>3, <2>1
      <3> QED
        BY <1>1, <1>2, <3>1, StoredStep DEF OverlapFits
    <2>2. CASE ~(k <= n)
      <3>1. k - n \in 1..m - n /\ (l + m - n) - m + k = l + (k - n) /\ n + (k - n) = k
        BY <1>2, <1>3, <2>2
      <3>2. received'[l + (k - n)] = sending[n + (k - n)]
        BY <1>2, <3>1, StoredStep
      <3>3. sending[k] = queue[k]
        BY <1>1, <1>3 DEF SendingFits
      <3> QED
        BY <3>1, <3>2, <3>3
    <2> QED
      BY <2>1, <2>2
  <1>10. OverlapFits'
    <2>1. m \in 0..Batch /\ m <= Len(queue') /\ m <= l + m - n
      BY <1>2, <1>3
    <2>2. m <= Len(rows')
      BY <1>2, StoredStep
    <2> QED
      BY <1>5, <1>8, <1>9, <2>1, <2>2 DEF OverlapFits
  <1>11. \A i \in DOMAIN queue' : \E k \in DOMAIN queue : queue'[i] = queue[k]
    OBVIOUS
  <1> QED
    BY <1>6, <1>7, <1>10, <1>11, StoredHistory DEF Uploading

\* Nothing is stored, queued or acknowledged.
LEMMA QuietStep ==
    ASSUME Inv, UNCHANGED <<queue, rows, received, ended>>,
           board'.boot = board.boot, board'.next = board.next,
           sending' # <<>> => /\ Overlap <= Len(sending')
                              /\ Len(sending') <= Len(queue)
                              /\ \A i \in DOMAIN sending' : sending'[i] = queue[i]
    PROVE  Uploading' /\ History'
  <1>1. Uploading /\ History
    BY DEF Inv
  <1>2. First' = First /\ Uploaded' = Uploaded
    BY DEF First, Uploaded
  <1>3. Overlap' = Overlap
    BY <1>2 DEF Overlap
  <1>4. Uploading'
    BY <1>1, <1>2, <1>3 DEF Uploading, QueueFits, SendingFits, OverlapFits
  <1>5. History'
    BY <1>1 DEF History, RowsFit, Begun, Consecutive, WordsFit, WordFits
  <1> QED
    BY <1>4, <1>5

\* An event is queued, or dropped with its number.
LEMMA AppendStep ==
    ASSUME Inv, UNCHANGED <<sending, rows, received, ended>>,
           queue' = Appended("other"), board'.boot = board.boot, board'.next = Numbered
    PROVE  Uploading' /\ History'
  <1>1. DiagnosticsTypeOK /\ Uploading /\ History
    BY DEF Inv
  <1>2. CASE ~Room
    <2>1. UNCHANGED queue /\ board'.next = board.next
      BY <1>2 DEF Appended, Numbered
    <2> QED
      BY <1>1, <2>1, QuietStep DEF Uploading, SendingFits
  <1>3. CASE Room
    <2> DEFINE e == [boot |-> board.boot, sequence |-> board.next, kind |-> "other",
                     operation |-> board.operation]
    <2>1. queue' = Append(queue, e) /\ board'.next = board.next + 1
      BY <1>3 DEF Appended, Numbered
    <2>2. e \in Event /\ e.boot = board.boot /\ e.sequence = board.next /\ e.kind = "other"
      BY <1>1, Domains DEF Event
    <2> HIDE DEF e
    <2>3. PICK q \in Nat, f \in Int, x \in Nat : q = Len(queue) /\ f = First /\ x = board.next
      BY <1>1, Domains
    <2>4. f = x - q /\ q <= x /\ DOMAIN queue = 1..q
      BY <1>1, <2>3, Domains DEF First, Uploading, QueueFits
    <2>5. /\ queue' \in Seq(Event) /\ Len(queue') = q + 1 /\ DOMAIN queue' = 1..q + 1
          /\ \A i \in 1..q : queue'[i] = queue[i]
          /\ queue'[q + 1] = e
      <3>1. queue \in Seq(Event)
        BY <1>1, Domains
      <3>2. /\ Append(queue, e) \in Seq(Event) /\ Len(Append(queue, e)) = Len(queue) + 1
            /\ \A i \in 1..Len(queue) : Append(queue, e)[i] = queue[i]
            /\ Append(queue, e)[Len(queue) + 1] = e
        BY <2>2, <3>1, AppendProperties
      <3>3. DOMAIN Append(queue, e) = 1..Len(Append(queue, e))
        BY <3>2, LenProperties
      <3> QED
        BY <2>1, <2>3, <3>2, <3>3
    <2>6. First' = f
      <3>1. First' = (x + 1) - (q + 1)
        BY <2>1, <2>3, <2>5 DEF First
      <3> QED
        BY <2>3, <2>4, <3>1
    <2>7. Overlap' = Overlap
      <3>1. Uploaded' = Uploaded
        BY DEF Uploaded
      <3> QED
        BY <2>3, <2>6, <3>1 DEF Overlap
    <2>8. QueueFits'
      <3>1. ASSUME NEW i \in DOMAIN queue'
            PROVE  queue'[i].boot = board.boot /\ queue'[i].sequence = f + i - 1
        <4>1. CASE i \in 1..q
          BY <1>1, <2>3, <2>4, <2>5, <4>1 DEF Uploading, QueueFits
        <4>2. CASE i = q + 1
          <5>1. f + i - 1 = x
            BY <2>3, <2>4, <4>2
          <5> QED
            BY <2>2, <2>3, <2>5, <4>2, <5>1
        <4> QED
          BY <2>3, <2>5, <4>1, <4>2
      <3>2. Len(queue') <= board'.next
        BY <2>1, <2>3, <2>4, <2>5
      <3> QED
        BY <2>6, <3>1, <3>2 DEF QueueFits
    <2>9. SendingFits'
      <3> SUFFICES ASSUME sending # <<>>
                   PROVE  /\ Overlap <= Len(sending) /\ Len(sending) <= q + 1
                          /\ \A i \in DOMAIN sending : sending[i] = queue'[i]
        BY <2>5, <2>7 DEF SendingFits
      <3>1. /\ Overlap <= Len(sending) /\ Len(sending) <= q
            /\ \A i \in DOMAIN sending : sending[i] = queue[i]
        BY <1>1, <2>3 DEF Uploading, SendingFits
      <3>2. Len(sending) \in Nat /\ DOMAIN sending = 1..Len(sending)
        BY <1>1, Domains
      <3> QED
        BY <2>3, <2>5, <3>1, <3>2
    <2>10. OverlapFits'
      <3>1. Overlap \in 0..Batch /\ Overlap <= q
            /\ \A k \in 1..Overlap : received[Len(received) - Overlap + k] = queue[k]
        BY <1>1, <2>3 DEF Uploading, OverlapFits
      <3>2. Overlap \in Nat
        BY <3>1, DiagnosticsAssumption
      <3>3. \A k \in 1..Overlap : queue'[k] = queue[k]
        BY <2>3, <2>5, <3>1, <3>2
      <3>4. Overlap <= Len(queue')
        BY <2>3, <2>5, <3>1, <3>2
      <3> QED
        BY <1>1, <2>7, <3>1, <3>3, <3>4 DEF Uploading, OverlapFits
    <2>11. WordsFit'
      <3>1. \A i \in DOMAIN queue' : WordFits(queue'[i])
        <4>1. WordFits(e)
          BY <2>2 DEF WordFits
        <4>2. \A i \in 1..q : WordFits(queue[i])
          BY <1>1, <2>4 DEF History, WordsFit
        <4>3. \A i \in 1..q + 1 : i \in 1..q \/ i = q + 1
          BY <2>3
        <4> QED
          BY <2>5, <4>1, <4>2, <4>3
      <3> QED
        BY <1>1, <3>1 DEF History, WordsFit, WordFits
    <2>12. RowsFit' /\ Begun' /\ Consecutive'
      BY <1>1 DEF History, RowsFit, Begun, Consecutive
    <2> QED
      BY <2>8, <2>9, <2>10, <2>11, <2>12 DEF Uploading, History
  <1> QED
    BY <1>2, <1>3

LEMMA UploadStarts ==
    ASSUME Inv, StartUpload
    PROVE  Uploading' /\ History' /\ sending' \in Seq(Event) /\ Len(sending') <= Batch
  <1>1. DiagnosticsTypeOK /\ OverlapFits
    BY DEF Inv, Uploading
  <1>2. PICK q \in Nat, n \in Nat : q = Len(queue) /\ n = Overlap
    <2>1. Len(queue) \in Nat /\ Overlap \in Nat
      BY <1>1, Domains, DiagnosticsAssumption DEF OverlapFits
    <2> QED
      BY <2>1
  <1>3. Batch \in Nat /\ n <= q /\ n <= Batch
    BY <1>1, <1>2, DiagnosticsAssumption DEF OverlapFits
  <1>4. PICK m \in Nat : m = IF q < Batch THEN q ELSE Batch
    BY <1>2, <1>3
  <1>5. m <= q /\ m <= Batch /\ n <= m
    BY <1>2, <1>3, <1>4
  <1>6. sending' = SubSeq(queue, 1, m)
    BY <1>2, <1>4 DEF StartUpload
  <1>7. \A i \in 1..m : queue[i] \in Event
    BY <1>1, <1>2, <1>5, Domains, ElementOfSeq
  <1>8. /\ SubSeq(queue, 1, m) \in Seq(Event)
        /\ Len(SubSeq(queue, 1, m)) = IF 1 <= m THEN m - 1 + 1 ELSE 0
        /\ \A i \in 1..m - 1 + 1 : SubSeq(queue, 1, m)[i] = queue[1 + i - 1]
    BY <1>7, SubSeqProperties
  <1>9. (IF 1 <= m THEN m - 1 + 1 ELSE 0) = m /\ m - 1 + 1 = m
    BY <1>4
  <1>10. sending' \in Seq(Event) /\ Len(sending') = m /\ DOMAIN sending' = 1..m
    BY <1>6, <1>8, <1>9, LenProperties
  <1>11. \A i \in 1..m : sending'[i] = queue[i]
    <2>1. \A i \in 1..m : 1 + i - 1 = i
      OBVIOUS
    <2> QED
      BY <1>6, <1>8, <1>9, <2>1
  <1>12. UNCHANGED <<queue, rows, received, ended, board>>
    BY DEF StartUpload
  <1> QED
    BY <1>2, <1>5, <1>10, <1>11, <1>12, QuietStep

\* What a restart writes: the boot event names an operation that the board may
\* have been running.
LEMMA RestartEffect ==
    ASSUME DiagnosticsTypeOK, Restart
    PROVE  \E read \in Operation, left \in Operation, word \in SUBSET Operation :
              /\ UNCHANGED faults \/ Fault
              /\ board' = Booted(board.boot + 1, left)
              /\ queue' = <<BootEvent(board.boot + 1, read)>>
              /\ ended' = Append(ended, word)
              /\ read \in word
  <1>1. board.stored \in Operation /\ board.operation \in Operation /\ Idle \in Operation
    BY Domains, DiagnosticsAssumption
  <1>2. PICK r \in BOOLEAN, w \in BOOLEAN :
           /\ IF r /\ w THEN UNCHANGED faults ELSE Fault
           /\ board' = Booted(board.boot + 1, IF w THEN Idle ELSE board.stored)
           /\ queue' = <<BootEvent(board.boot + 1, IF r THEN board.stored ELSE Idle)>>
           /\ ended' = Append(ended, IF r /\ board.operation = board.stored
                                     THEN {board.operation} ELSE Operation)
    BY DEF Restart
  <1>3. PICK read \in Operation : read = IF r THEN board.stored ELSE Idle
    BY <1>1
  <1>4. PICK left \in Operation : left = IF w THEN Idle ELSE board.stored
    BY <1>1
  <1>5. PICK word \in SUBSET Operation :
           word = IF r /\ board.operation = board.stored THEN {board.operation} ELSE Operation
    BY <1>1
  <1>6. read \in word
    BY <1>3, <1>5
  <1>7. UNCHANGED faults \/ Fault
    BY <1>2
  <1>8. /\ board' = Booted(board.boot + 1, left)
        /\ queue' = <<BootEvent(board.boot + 1, read)>>
        /\ ended' = Append(ended, word)
    BY <1>2, <1>3, <1>4, <1>5
  <1> QED
    BY <1>6, <1>7, <1>8

\* The board starts again with a queue of one.
LEMMA RestartStep ==
    ASSUME Inv, Restart
    PROVE  Uploading' /\ History'
  <1>1. DiagnosticsTypeOK /\ History
    BY DEF Inv
  <1>2. PICK read \in Operation, left \in Operation, w \in SUBSET Operation :
           /\ board' = Booted(board.boot + 1, left)
           /\ queue' = <<BootEvent(board.boot + 1, read)>>
           /\ ended' = Append(ended, w)
           /\ read \in w
    BY <1>1, RestartEffect
  <1>3. PICK b \in Nat : b = board.boot
    BY <1>1, Domains
  <1>4. board'.boot = b + 1 /\ board'.next = 1
    BY <1>2, <1>3 DEF Booted
  <1>5. UNCHANGED <<rows, received>> /\ sending' = <<>>
    BY DEF Restart
  <1>6. /\ Len(queue') = 1 /\ DOMAIN queue' = {1}
        /\ queue'[1] = [boot |-> b + 1, sequence |-> 0, kind |-> "boot", operation |-> read]
    BY <1>2, <1>3 DEF BootEvent
  <1>7. First' = 0
    BY <1>4, <1>6 DEF First
  <1>8. /\ DOMAIN received = 1..Len(received) /\ Len(received) \in Nat
        /\ \A i \in DOMAIN received : received[i] \in Event /\ received[i].boot \in Nat
                                      /\ received[i].boot <= b /\ WordFits(received[i])
    <2>1. \A i \in DOMAIN received : received[i] \in Event /\ received[i].boot \in Nat
      BY <1>1, Domains, ElementOfSeq, EventType, DiagnosticsAssumption
    <2> QED
      BY <1>1, <1>3, <2>1, Domains DEF History, WordsFit
  <1>9. Uploaded' = 0
    <2>1. ASSUME received # <<>>, received[Len(received)].boot = b + 1 PROVE FALSE
      <3>1. Len(received) \in DOMAIN received
        BY <1>1, <1>8, <2>1, Domains, EmptySeq
      <3> QED
        BY <1>3, <1>8, <2>1, <3>1
    <2> QED
      BY <1>4, <1>5, <2>1 DEF Uploaded
  <1>10. Overlap' = 0
    BY <1>7, <1>9 DEF Overlap
  <1>11. Uploading'
    <2>1. QueueFits'
      BY <1>4, <1>6, <1>7 DEF QueueFits
    <2>2. SendingFits'
      BY <1>5 DEF SendingFits
    <2>3. Len(rows') \in Nat /\ Len(received') \in Nat /\ 0 \in 0..Batch
      BY <1>1, <1>5, Domains, DiagnosticsAssumption
    <2>4. OverlapFits'
      BY <1>6, <1>10, <2>3 DEF OverlapFits
    <2> QED
      BY <2>1, <2>2, <2>4 DEF Uploading
  <1>12. WordsFit'
    <2>1. read \in w /\ w \in SUBSET Operation
      BY <1>2
    <2>2. ended \in Seq(SUBSET Operation) /\ Len(ended) = b - 1
      BY <1>1, <1>3 DEF DiagnosticsTypeOK, History, WordsFit
    <2>3. ended' = Append(ended, w)
      BY <1>2
    <2>4. /\ Len(ended') = Len(ended) + 1
          /\ \A i \in 1..Len(ended) : ended'[i] = ended[i]
          /\ ended'[Len(ended) + 1] = w
      BY <2>1, <2>2, <2>3, AppendProperties
    <2>5. Len(ended') = (b + 1) - 1 /\ ended'[b] = w
      BY <1>3, <2>2, <2>4
    <2>6. ASSUME NEW i \in DOMAIN received
          PROVE  /\ received[i].boot <= b + 1
                 /\ received[i].kind = "boot" /\ received[i].boot > 1
                       => received[i].operation \in ended'[received[i].boot - 1]
      <3>1. received[i].boot \in Nat /\ received[i].boot <= b /\ WordFits(received[i])
        BY <1>8
      <3>2. received[i].boot > 1 => received[i].boot - 1 \in 1..Len(ended)
        BY <1>3, <2>2, <3>1
      <3> QED
        BY <1>3, <2>4, <3>1, <3>2 DEF WordFits
    <2>7. queue'[1].operation \in ended'[queue'[1].boot - 1]
      <3>1. queue'[1].operation = read /\ queue'[1].boot - 1 = b
        BY <1>3, <1>6
      <3> QED
        BY <2>1, <2>5, <3>1
    <2> QED
      BY <1>4, <1>5, <1>6, <2>5, <2>6, <2>7 DEF WordsFit, WordFits
  <1>13. RowsFit' /\ Begun' /\ Consecutive'
    BY <1>1, <1>5 DEF History, RowsFit, Begun, Consecutive
  <1> QED
    BY <1>11, <1>12, <1>13 DEF History

----------------------------------------------------------------------------
(* Types are kept.                                                         *)

LEMMA AppendType ==
    ASSUME DiagnosticsTypeOK
    PROVE  /\ Appended("other") \in Seq(Event)
           /\ Len(Appended("other")) <= QueueSize
           /\ Numbered \in Nat
  <1>1. PICK q \in Nat : q = Len(queue) /\ q <= QueueSize /\ QueueSize \in Nat
    BY Domains, DiagnosticsAssumption DEF DiagnosticsTypeOK
  <1>2. Numbered \in Nat
    BY Domains DEF Numbered
  <1>3. CASE ~Room
    BY <1>1, <1>2, <1>3, Domains DEF Appended
  <1>4. CASE Room
    <2> DEFINE e == [boot |-> board.boot, sequence |-> board.next, kind |-> "other",
                     operation |-> board.operation]
    <2>1. e \in Event
      BY Domains DEF Event
    <2>2. Appended("other") = Append(queue, e)
      BY <1>4 DEF Appended
    <2> HIDE DEF e
    <2>3. Append(queue, e) \in Seq(Event) /\ Len(Append(queue, e)) = q + 1
      BY <1>1, <2>1, Domains, AppendProperties
    <2>4. q < QueueSize
      BY <1>1, <1>4 DEF Room
    <2> QED
      BY <1>1, <1>2, <2>2, <2>3, <2>4
  <1> QED
    BY <1>3, <1>4

LEMMA StoredType ==
    ASSUME Inv, sending # <<>>, Stored(sending)
    PROVE  rows' \in Seq(Event) /\ Len(rows') <= KeepEvents /\ received' \in Seq(Event)
  BY StoredStep

LEMMA FaultType ==
    ASSUME DiagnosticsTypeOK, Fault
    PROVE  faults' \in 0..MaxFaults
  BY DiagnosticsAssumption DEF DiagnosticsTypeOK, Fault

LEMMA RestartType ==
    ASSUME DiagnosticsTypeOK, Restart
    PROVE  DiagnosticsTypeOK'
  <1>1. PICK read \in Operation, left \in Operation, w \in SUBSET Operation :
           /\ UNCHANGED faults \/ Fault
           /\ board' = Booted(board.boot + 1, left)
           /\ queue' = <<BootEvent(board.boot + 1, read)>>
           /\ ended' = Append(ended, w)
    BY RestartEffect
  <1>2. read \in Operation /\ left \in Operation /\ Idle \in Operation
    BY <1>1, DiagnosticsAssumption
  <1>3. board.boot + 1 \in 1..MaxBoots
    BY Domains, DiagnosticsAssumption DEF Restart
  <1>4. board' \in [boot: 1..MaxBoots, next: Nat, operation: Operation, stored: Operation,
                    last: BOOLEAN]
    BY <1>1, <1>2, <1>3 DEF Booted
  <1>5. BootEvent(board.boot + 1, read) \in Event
    BY <1>2, <1>3 DEF BootEvent, Event
  <1>6. queue' \in Seq(Event) /\ Len(queue') <= QueueSize
    BY <1>1, <1>5, DiagnosticsAssumption
  <1>7. ended' \in Seq(SUBSET Operation)
    BY <1>1, AppendProperties DEF DiagnosticsTypeOK
  <1>8. faults' \in 0..MaxFaults
    BY <1>1, FaultType DEF DiagnosticsTypeOK
  <1>9. sending' \in Seq(Event) /\ Len(sending') <= Batch
    BY DiagnosticsAssumption DEF Restart
  <1> QED
    BY <1>4, <1>6, <1>7, <1>8, <1>9 DEF DiagnosticsTypeOK, Restart

LEMMA UploadType ==
    ASSUME Inv, Upload
    PROVE  DiagnosticsTypeOK'
  <1>1. DiagnosticsTypeOK /\ SendingFits
    BY DEF Inv, Uploading
  <1>2. PICK m \in Nat, q \in Nat : m = Len(sending) /\ q = Len(queue) /\ m <= q
    BY <1>1, Domains DEF Upload, SendingFits
  <1>3. queue' = SubSeq(queue, m + 1, q)
    BY <1>2 DEF Upload, Left
  <1>4. \A i \in (m + 1)..q : queue[i] \in Event
    BY <1>1, <1>2, Domains, ElementOfSeq
  <1>5. /\ queue' \in Seq(Event)
        /\ Len(queue') = IF m + 1 <= q THEN q - (m + 1) + 1 ELSE 0
    BY <1>3, <1>4, SubSeqProperties
  <1>6. (IF m + 1 <= q THEN q - (m + 1) + 1 ELSE 0) <= q
    BY <1>2
  <1>7. Len(queue') <= QueueSize
    <2>1. q <= QueueSize /\ QueueSize \in Nat
      BY <1>1, <1>2, DiagnosticsAssumption DEF DiagnosticsTypeOK
    <2>2. Len(queue') = q - m
      BY <1>2, <1>5
    <2> QED
      BY <1>2, <2>1, <2>2
  <1>8. sending' \in Seq(Event) /\ Len(sending') <= Batch
    BY DiagnosticsAssumption DEF Upload
  <1> QED
    BY <1>1, <1>5, <1>7, <1>8, StoredType DEF DiagnosticsTypeOK, Upload

LEMMA TypeStep ==
    ASSUME Inv, [Next]_vars
    PROVE  DiagnosticsTypeOK'
  <1>1. DiagnosticsTypeOK
    BY DEF Inv
  <1>2. CASE Report
    <2>1. events' \in 0..MaxEvents
      BY <1>1, <1>2, DiagnosticsAssumption DEF Report, DiagnosticsTypeOK
    <2>2. board' \in [boot: 1..MaxBoots, next: Nat, operation: Operation, stored: Operation,
                      last: BOOLEAN]
      BY <1>1, <1>2, AppendType DEF Report, DiagnosticsTypeOK
    <2> QED
      BY <1>1, <1>2, <2>1, <2>2, AppendType DEF Report, DiagnosticsTypeOK
  <1>3. ASSUME NEW o \in Operation, ChangeOperation(o)
        PROVE  DiagnosticsTypeOK'
    <2>1. faults' \in 0..MaxFaults
      BY <1>1, <1>3, FaultType DEF ChangeOperation, DiagnosticsTypeOK
    <2>2. board' \in [boot: 1..MaxBoots, next: Nat, operation: Operation, stored: Operation,
                      last: BOOLEAN]
      BY <1>1, <1>3 DEF ChangeOperation, DiagnosticsTypeOK
    <2> QED
      BY <1>1, <1>3, <2>1, <2>2 DEF ChangeOperation, DiagnosticsTypeOK
  <1>4. CASE Restart
    BY <1>1, <1>4, RestartType
  <1>5. CASE StartUpload
    BY <1>1, <1>5, UploadStarts DEF StartUpload, DiagnosticsTypeOK
  <1>6. CASE Upload
    BY <1>6, UploadType
  <1>7. CASE UploadLost
    <2>1. rows' \in Seq(Event) /\ Len(rows') <= KeepEvents /\ received' \in Seq(Event)
      BY <1>1, <1>7, StoredType DEF UploadLost, DiagnosticsTypeOK
    <2>2. faults' \in 0..MaxFaults
      BY <1>1, <1>7, FaultType DEF UploadLost
    <2>3. sending' \in Seq(Event) /\ Len(sending') <= Batch
      BY <1>7, DiagnosticsAssumption DEF UploadLost
    <2> QED
      BY <1>1, <1>7, <2>1, <2>2, <2>3 DEF UploadLost, DiagnosticsTypeOK
  <1>8. CASE RequestSnapshot
    BY <1>1, <1>8 DEF RequestSnapshot, DiagnosticsTypeOK, boardVars
  <1>9. CASE TakeSnapshot
    <2>1. queue' \in Seq(Event) /\ Len(queue') <= QueueSize
      BY <1>1, <1>9, AppendType DEF TakeSnapshot, DiagnosticsTypeOK
    <2>2. faults' \in 0..MaxFaults /\ snapshot' \in {"none", "queued", "applied"}
      BY <1>1, <1>9, FaultType DEF TakeSnapshot, DiagnosticsTypeOK
    <2>3. PICK x \in Nat : x = IF board.last THEN board.next ELSE Numbered
      BY <1>1, AppendType, Domains
    <2>4. \/ board' = [board EXCEPT !.next = x, !.last = FALSE]
          \/ board' = [board EXCEPT !.next = x, !.last = TRUE]
      BY <1>9, <2>3 DEF TakeSnapshot
    <2>5. board' \in [boot: 1..MaxBoots, next: Nat, operation: Operation, stored: Operation,
                      last: BOOLEAN]
      BY <1>1, <2>4 DEF DiagnosticsTypeOK
    <2> QED
      BY <1>1, <1>9, <2>1, <2>2, <2>5 DEF TakeSnapshot, DiagnosticsTypeOK
  <1>10. CASE UNCHANGED vars
    BY <1>1, <1>10 DEF vars, boardVars, DiagnosticsTypeOK
  <1> QED
    BY <1>2, <1>3, <1>4, <1>5, <1>6, <1>7, <1>8, <1>9, <1>10 DEF Next

----------------------------------------------------------------------------
(* The invariant.                                                          *)

LEMMA Initially ==
    ASSUME Init
    PROVE  Inv
  <1>1. /\ queue = <<BootEvent(1, Idle)>> /\ Len(queue) = 1 /\ DOMAIN queue = {1}
        /\ queue[1] = [boot |-> 1, sequence |-> 0, kind |-> "boot", operation |-> Idle]
    BY DEF Init, BootEvent
  <1>2. board = [boot |-> 1, next |-> 1, operation |-> Idle, stored |-> Idle, last |-> FALSE]
    BY DEF Init, Booted
  <1>3. /\ Len(rows) = 0 /\ DOMAIN rows = {} /\ Len(received) = 0 /\ DOMAIN received = {}
        /\ received = <<>> /\ sending = <<>> /\ Len(ended) = 0
    BY DEF Init
  <1>4. DiagnosticsTypeOK
    <2>1. queue[1] \in Event /\ queue \in Seq(Event) /\ Len(queue) <= QueueSize
      BY <1>1, DiagnosticsAssumption DEF Event
    <2>2. board \in [boot: 1..MaxBoots, next: Nat, operation: Operation, stored: Operation,
                     last: BOOLEAN]
      BY <1>2, DiagnosticsAssumption
    <2>3. rows \in Seq(Event) /\ received \in Seq(Event) /\ sending \in Seq(Event)
          /\ ended \in Seq(SUBSET Operation) /\ Len(sending) <= Batch /\ Len(rows) <= KeepEvents
      BY DiagnosticsAssumption DEF Init
    <2> QED
      BY <2>1, <2>2, <2>3, DiagnosticsAssumption DEF DiagnosticsTypeOK, Init
  <1>5. First = 0
    BY <1>1, <1>2 DEF First
  <1>6. Uploaded = 0
    BY <1>3 DEF Uploaded
  <1>7. Overlap = 0
    BY <1>5, <1>6 DEF Overlap
  <1>8. Uploading
    <2>1. 0 \in 0..Batch
      BY DiagnosticsAssumption
    <2> QED
      BY <1>1, <1>2, <1>3, <1>5, <1>7, <2>1
      DEF Uploading, QueueFits, SendingFits, OverlapFits
  <1>9. History
    BY <1>1, <1>2, <1>3 DEF History, RowsFit, Begun, Consecutive, WordsFit, WordFits
  <1> QED
    BY <1>4, <1>8, <1>9 DEF Inv

LEMMA Inductive ==
    ASSUME Inv, [Next]_vars
    PROVE  Inv'
  <1>1. Uploading /\ History
    BY DEF Inv
  <1>2. DiagnosticsTypeOK'
    BY TypeStep
  <1>3. SendingFits
    BY <1>1 DEF Uploading
  <1>4. CASE Report
    <2>1. board'.boot = board.boot /\ board'.next = Numbered
      BY <1>4 DEF Report, Inv, DiagnosticsTypeOK
    <2> QED
      BY <1>2, <1>4, <2>1, AppendStep DEF Report, Inv
  <1>5. ASSUME NEW o \in Operation, ChangeOperation(o)
        PROVE  Inv'
    <2>1. board'.boot = board.boot /\ board'.next = board.next
      BY <1>5 DEF ChangeOperation, Inv, DiagnosticsTypeOK
    <2> QED
      BY <1>2, <1>3, <1>5, <2>1, QuietStep DEF ChangeOperation, SendingFits, Inv
  <1>6. CASE Restart
    BY <1>2, <1>6, RestartStep DEF Inv
  <1>7. CASE StartUpload
    BY <1>2, <1>7, UploadStarts DEF Inv
  <1>8. CASE Upload
    BY <1>2, <1>8, UploadStep DEF Inv
  <1>9. CASE UploadLost
    <2>1. CASE Stored(sending)
      BY <1>2, <1>9, <2>1, AnswerLost DEF UploadLost, Inv
    <2>2. CASE UNCHANGED <<rows, received>>
      BY <1>2, <1>9, <2>2, QuietStep DEF UploadLost, Inv
    <2> QED
      BY <1>9, <2>1, <2>2 DEF UploadLost
  <1>10. CASE RequestSnapshot
    BY <1>2, <1>3, <1>10, QuietStep DEF RequestSnapshot, boardVars, SendingFits, Inv
  <1>11. CASE TakeSnapshot
    <2>1. board'.boot = board.boot
          /\ board'.next = IF board.last THEN board.next ELSE Numbered
      BY <1>11 DEF TakeSnapshot, Inv, DiagnosticsTypeOK
    <2>2. CASE board.last
      BY <1>2, <1>3, <1>11, <2>1, <2>2, QuietStep DEF TakeSnapshot, SendingFits, Inv
    <2>3. CASE ~board.last
      BY <1>2, <1>11, <2>1, <2>3, AppendStep DEF TakeSnapshot, Inv
    <2> QED
      BY <2>2, <2>3
  <1>12. CASE UNCHANGED vars
    BY <1>2, <1>3, <1>12, QuietStep DEF vars, boardVars, SendingFits, Inv
  <1> QED
    BY <1>4, <1>5, <1>6, <1>7, <1>8, <1>9, <1>10, <1>11, <1>12 DEF Next

THEOREM Invariant == Spec => []Inv
  <1>1. Init => Inv
    BY Initially
  <1>2. Inv /\ [Next]_vars => Inv'
    BY Inductive
  <1> QED
    BY <1>1, <1>2, PTL DEF Spec

----------------------------------------------------------------------------
(* What the invariant says.                                                *)

LEMMA Suffix ==
    ASSUME NEW S, NEW s \in Seq(S), NEW t \in Seq(S), Len(s) <= Len(t),
           \A i \in 1..Len(s) : s[i] = t[Len(t) - Len(s) + i]
    PROVE  IsSuffix(s, t)
  <1>1. PICK m \in Nat, n \in Nat : m = Len(s) /\ n = Len(t) /\ m <= n
    BY LenProperties
  <1>2. /\ Reverse(s) = [i \in 1..m |-> s[m - i + 1]]
        /\ Reverse(t) = [i \in 1..n |-> t[n - i + 1]]
    BY <1>1 DEF Reverse
  <1>3. /\ \A i \in 1..m : s[m - i + 1] \in S
        /\ \A i \in 1..n : t[n - i + 1] \in S
    <2>1. \A i \in 1..m : m - i + 1 \in 1..Len(s)
      BY <1>1
    <2>2. \A i \in 1..n : n - i + 1 \in 1..Len(t)
      BY <1>1
    <2> QED
      BY <2>1, <2>2, ElementOfSeq
  <1>4. Reverse(s) \in [1..m -> S] /\ Reverse(t) \in [1..n -> S]
    BY <1>2, <1>3
  <1>5. /\ Reverse(s) \in Seq(S) /\ Len(Reverse(s)) = m
        /\ Reverse(t) \in Seq(S) /\ Len(Reverse(t)) = n
    <2>1. ASSUME NEW k \in Nat, NEW f \in [1..k -> S]
          PROVE  f \in Seq(S) /\ Len(f) = k
      OBVIOUS
    <2> QED
      BY <1>1, <1>4, <2>1
  <1>6. ASSUME NEW i \in 1..m PROVE Reverse(s)[i] = Reverse(t)[i] /\ Reverse(t)[i] \in S
    <2>1. m - i + 1 \in 1..m /\ n - m + (m - i + 1) = n - i + 1 /\ i \in 1..n
      <3>1. m \in Nat /\ n \in Nat /\ m <= n
        BY <1>1
      <3>2. i \in Int /\ 1 <= i /\ i <= m
        BY <3>1
      <3>3. m - i + 1 \in 1..m
        BY <3>1, <3>2
      <3>4. n - m + (m - i + 1) = n - i + 1
        BY <3>1, <3>2
      <3>5. i \in 1..n
        BY <3>1, <3>2
      <3> QED
        BY <3>3, <3>4, <3>5
    <2>2. s[m - i + 1] = t[n - m + (m - i + 1)]
      BY <1>1, <2>1
    <2> QED
      BY <1>2, <1>3, <2>1, <2>2
  <1>7. m - 1 + 1 = m /\ \A i \in 1..m : 1 + i - 1 = i
    BY <1>1
  <1>8. ASSUME NEW r \in Seq(S), \A i \in 1..m : r[i] \in S /\ r[i] = Reverse(s)[i]
        PROVE  SubSeq(r, 1, m) = [i \in 1..m |-> Reverse(s)[i]]
    <2>1. SubSeq(r, 1, m) = [i \in 1..m - 1 + 1 |-> r[1 + i - 1]]
      BY <1>1
    <2> QED
      BY <1>7, <1>8, <2>1
  <1>9. SubSeq(Reverse(s), 1, m) = SubSeq(Reverse(t), 1, m)
    BY <1>5, <1>6, <1>8
  <1> QED
    BY <1>1, <1>5, <1>9 DEF IsSuffix, IsPrefix

LEMMA Exact ==
    ASSUME Inv
    PROVE  RecordIsExact
  <1>1. DiagnosticsTypeOK /\ QueueFits /\ OverlapFits /\ RowsFit /\ Begun /\ Consecutive
        /\ WordsFit
    BY DEF Inv, Uploading, History
  <1>2. InSequence
    <2>1. ASSUME queue # <<>> PROVE queue[1].sequence <= Uploaded
      <3>1. 1 \in DOMAIN queue
        BY <1>1, <2>1, Domains, EmptySeq
      <3>2. queue[1].sequence = First + 1 - 1
        BY <1>1, <3>1 DEF QueueFits
      <3>3. First \in Int /\ Uploaded \in Nat /\ Uploaded - First \in 0..Batch /\ Batch \in Nat
        BY <1>1, Domains, UploadedType, DiagnosticsAssumption DEF OverlapFits, Overlap
      <3> QED
        BY <3>2, <3>3
    <2> QED
      BY <1>1, <2>1 DEF InSequence, Begun, Consecutive
  <1>3. NewestKept
    <2>1. /\ rows \in Seq(Event) /\ received \in Seq(Event) /\ DOMAIN rows = 1..Len(rows)
      BY <1>1, Domains
    <2> QED
      BY <1>1, <2>1, Suffix DEF RowsFit, NewestKept
  <1>4. LastWordIsTrue
    BY <1>1 DEF WordsFit, WordFits, LastWordIsTrue
  <1> QED
    BY <1>2, <1>3, <1>4 DEF RecordIsExact

\* The queue, the upload in flight and the rows stay within their bounds
\* (append, diagnostic_batch, upload).
THEOREM DiagnosticsTypeCorrect == Spec => []DiagnosticsTypeOK
  <1>1. Inv => DiagnosticsTypeOK
    BY DEF Inv
  <1> QED
    BY <1>1, Invariant, PTL

\* No event of a boot is skipped, stored twice or stored out of order, the rows
\* are the newest of what came, and a boot event names the operation during
\* which the board went down, however uploads and answers are lost and boots
\* cut in (diagnostic_batch, diagnostic_ack, upload, diagnostic_operation).
THEOREM RecordAlwaysExact == Spec => []RecordIsExact
  <1>1. Inv => RecordIsExact
    BY Exact
  <1> QED
    BY <1>1, Invariant, PTL
=============================================================================
