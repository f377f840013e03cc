------------------------- MODULE NotifyBatchProofs -------------------------
(***************************************************************************)
(* Theorems about NotifyBatch, for any sizes, batches and lags: nothing is *)
(* used before its DMA has completed, and the issued ring is never         *)
(* overrun, though every side only knows old values, modulo the number of  *)
(* sequence numbers, of what the other sides did; every batch that is      *)
(* processed to the end is credited to its queue, no other; what is        *)
(* enqueued is what was issued, in that order; and when nothing can go on  *)
(* any more, nothing is left to be done.                                   *)
(***************************************************************************)
EXTENDS NotifyBatch, SequenceTheorems, WellFoundedInduction, TLAPS

Window == RingBatches * BatchSize

LsoPlaces == {"lso_get", "jumbo", "segment"}
Places == {"start", "wait_first", "process", "more", "wait_next", "credit"} \cup LsoPlaces

TypeOK ==
  /\ issued \in Seq(Batches)
  /\ {data_done, jumbo_done, data_refl, jumbo_refl, lso_put, taken, want,
      lso_taken, partial_served, num_avail} \subseteq Nat
  /\ batch_in \in Seq(Nat \ {0})
  /\ pc \in Places /\ mode \in {"full", "partial", "last"}

(* Messages asked for, and those of them that served does not count yet:   *)
(* the beginning of a batch that is fetched one message at a time.         *)
Asked == taken + want
Part ==
  IF pc = "start" \/ mode # "partial" THEN 0
  ELSE IF pc \in {"wait_first", "wait_next"} THEN partial_served + 1
  ELSE partial_served
Counted == Asked - Part

(* Messages processed to the end.                                          *)
Processed == taken - Len(batch_in)

(* Where the notifier is in its batch.                                     *)
Fetching ==
  /\ Counted \in Nat /\ Part \in 0 .. BatchSize
  /\ mode = "partial" /\ pc = "more" => partial_served < BatchSize
  /\ mode = "partial" /\ pc = "wait_first" => partial_served = 0
  /\ mode = "partial" /\ pc = "wait_next" => partial_served < BatchSize - 1
  /\ mode = "partial" /\ pc \in Places \ {"start", "wait_first", "wait_next"}
       => partial_served < BatchSize
  /\ pc = "more" => mode = "partial"
  /\ pc = "credit" => mode # "partial"
  /\ pc = "wait_next" => mode \in {"partial", "last"}
  /\ pc = "wait_first" => mode \in {"partial", "full"}
  /\ \A k \in 1 .. Len(batch_in) : batch_in[k] = Processed + k
  /\ pc \in {"process"} \cup LsoPlaces => batch_in # <<>> /\ want = 0
  /\ pc \in {"start", "more", "credit"} => batch_in = <<>> /\ want = 0
  /\ pc \in {"wait_first", "wait_next"} => (want = 0 <=> batch_in # <<>>)

(* The sequence numbers stand for numbers r, s, Counted and c, which are   *)
(* within a window of each other, and no more is asked for than is done.   *)
Stands(r, s, c) ==
  /\ served_refl = r % SeqNumbers /\ sent = s % SeqNumbers
  /\ served = Counted % SeqNumbers /\ complete = c % SeqNumbers
  /\ r <= s /\ s <= Counted /\ Asked <= c /\ c <= data_refl
  /\ Issued <= r + Window
  /\ mode = "partial" /\ pc # "start" => Counted + num_avail <= c

Numbers ==
  /\ data_refl <= data_done
  /\ \E r, s, c \in 0 .. Issued : Stands(r, s, c)

(* Entries of the LSO ring, for messages up to n: those of a message in    *)
(* lso are together, and the last of them is marked.                       *)
MostSegments == (JumboNumbers \div 2) - MaxJumboLag - 1
Entries(es, n, lso) ==
  /\ es \in Seq([message : Nat, eop : BOOLEAN, last : BOOLEAN])
  /\ lso \subseteq 1 .. n
  /\ \A k \in 1 .. Len(es) : es[k].message \in lso
  /\ \A l \in lso : \E k \in 1 .. Len(es) : es[k].message = l
  /\ \A j, k \in 1 .. Len(es) :
       /\ j < k => es[j].message <= es[k].message
       /\ j < k /\ es[j].last => es[j].message < es[k].message
       /\ j < k /\ es[j].message = es[k].message => k - j < MostSegments
  /\ \A k \in 1 .. Len(es) :
       ~es[k].last => k + 1 \in 1 .. Len(es) /\ es[k + 1].message = es[k].message

LsoMessages == {m \in 1 .. Issued : IsLso(Message(m))}

(* The notifier takes the entries of the message it processes.             *)
LsoPlace ==
  /\ Entries(lso_entries, Issued, LsoMessages)
  /\ lso_put <= Len(lso_entries) /\ lso_taken <= lso_put
  /\ pc \notin LsoPlaces =>
       \A k \in 1 .. Len(lso_entries) : k <= lso_taken <=> lso_entries[k].message <= Processed
  /\ pc = "lso_get" => /\ lso_taken + 1 \in 1 .. Len(lso_entries)
                       /\ lso_entries[lso_taken + 1].message = Processed + 1
  /\ pc \in {"jumbo", "segment"} => /\ lso_taken \in 1 .. Len(lso_entries)
                                    /\ lso_entries[lso_taken].message = Processed + 1

(* The DMAs under way, fifo, are those of the messages after m up to n and *)
(* of the entries after j of es; at[p] tells which is at p.  Each          *)
(* entry's comes after that of its message, and before the next message's. *)
Labelled(fifo, at, m, n, j, es) ==
  /\ fifo \in Seq({"data", "jumbo"}) /\ at \in [1 .. Len(fifo) -> Nat]
  /\ \A p \in 1 .. Len(fifo) :
       at[p] \in IF fifo[p] = "data" THEN m + 1 .. n ELSE j + 1 .. Len(es)
  /\ \A x \in m + 1 .. n : \E p \in 1 .. Len(fifo) : fifo[p] = "data" /\ at[p] = x
  /\ \A x \in j + 1 .. Len(es) : \E p \in 1 .. Len(fifo) : fifo[p] = "jumbo" /\ at[p] = x
  /\ \A p, q \in 1 .. Len(fifo) :
       /\ p < q /\ fifo[p] = fifo[q] => at[p] < at[q]
       /\ fifo[p] = "jumbo" /\ fifo[q] = "data" => (p < q <=> es[at[p]].message < at[q])

DmaOrder ==
  /\ data_done <= Issued
  /\ \E at \in [1 .. Len(dma_fifo) -> Nat] :
       Labelled(dma_fifo, at, data_done, Issued, jumbo_done, lso_entries)
  /\ \A k \in jumbo_done + 1 .. Len(lso_entries) : data_done <= lso_entries[k].message
  /\ jumbo_refl <= jumbo_done /\ jumbo_done <= jumbo_refl + MaxJumboLag
  /\ jumbo_done <= Len(lso_entries)

Waited == pc = "segment" => lso_taken <= jumbo_done

----------------------------------------------------------------------------
(* Arithmetic.                                                             *)

LEMMA Sizes ==
  /\ BatchSize \in Nat /\ BatchSize > 1
  /\ SeqNumbers \in Nat /\ SeqNumbers > 0
  /\ Window \in Nat /\ Window < SeqNumbers
  /\ (RingBatches - 1) * BatchSize = Window - BatchSize
  /\ MaxJumboLag \in Nat /\ JumboNumbers \in Nat /\ JumboNumbers > 0
BY BatchAssumption, WindowAssumption, JumboAssumption DEF Window

LEMMA Euclid ==
  ASSUME NEW a \in Int, NEW n \in Nat \ {0}
  PROVE  a = n * (a \div n) + (a % n) /\ (a % n) \in 0 .. n - 1 /\ (a \div n) \in Int
OBVIOUS

LEMMA MulLess ==
  ASSUME NEW n \in Nat \ {0}, NEW x \in Int, NEW y \in Int, x < y
  PROVE  n * x \in Int /\ n * y \in Int /\ n * x + n <= n * y
<1>1. y - x >= 1 /\ n * y = n * x + n * (y - x) /\ n * x \in Int /\ n * (y - x) \in Int
  OBVIOUS
<1>2. n * (y - x) >= n
  BY <1>1
<1> QED BY <1>1, <1>2

LEMMA EuclidUnique ==
  ASSUME NEW n \in Nat \ {0}, NEW x \in Int, NEW y \in Int,
         NEW r \in 0 .. n - 1, NEW s \in 0 .. n - 1, n * x + r = n * y + s
  PROVE  r = s
<1>1. CASE x < y
  BY <1>1, MulLess
<1>2. CASE y < x
  BY <1>2, MulLess
<1>3. CASE x = y
  BY <1>3
<1> QED BY <1>1, <1>2, <1>3

(* Whole turns do not count.                                               *)
LEMMA Turns ==
  ASSUME NEW n \in Nat \ {0}, NEW a \in Int, NEW k \in Int
  PROVE  (a + n * k) % n = a % n
<1> DEFINE b == a + n * k
<1>1. b \in Int /\ n * k \in Int
  OBVIOUS
<1>2. /\ a = n * (a \div n) + (a % n) /\ (a % n) \in 0 .. n - 1 /\ (a \div n) \in Int
      /\ b = n * (b \div n) + (b % n) /\ (b % n) \in 0 .. n - 1 /\ (b \div n) \in Int
  BY <1>1, Euclid
<1> DEFINE x == a \div n
           y == b \div n
           r == a % n
           s == b % n
<1>3. /\ a = n * x + r /\ b = n * y + s /\ x \in Int /\ y \in Int
      /\ r \in 0 .. n - 1 /\ s \in 0 .. n - 1 /\ b = a + n * k
  BY <1>2
<1> HIDE DEF x, y, r, s, b
<1>4. x + k \in Int /\ n * (x + k) = n * x + n * k
  BY <1>3
<1>5. n * x \in Int /\ n * k \in Int /\ n * y \in Int /\ n * (x + k) \in Int
  BY <1>3, <1>4
<1>6. n * (x + k) + r = n * y + s
  BY <1>3, <1>4, <1>5
<1>7. r = s
  BY <1>3, <1>4, <1>6, EuclidUnique
<1> QED BY <1>7 DEF r, s, b

LEMMA ModAdd ==
  ASSUME NEW n \in Nat \ {0}, NEW a \in Int, NEW b \in Int
  PROVE  ((a % n) + b) % n = (a + b) % n
<1>1. a = n * (a \div n) + (a % n) /\ (a % n) \in 0 .. n - 1 /\ (a \div n) \in Int
  BY Euclid
<1> DEFINE x == a \div n
           r == a % n
<1>2. a = n * x + r /\ x \in Int /\ r \in Int
  BY <1>1
<1> HIDE DEF x, r
<1>3. a + b = (r + b) + n * x /\ r + b \in Int
  BY <1>2
<1>4. ((r + b) + n * x) % n = (r + b) % n
  <2>1. n \in Nat \ {0} /\ r + b \in Int /\ x \in Int
    BY <1>2, <1>3
  <2> QED BY <2>1, Turns, Zenon
<1>5. (a + b) % n = (r + b) % n
  <2>1. a + b = (r + b) + n * x
    BY <1>3
  <2> QED BY <1>4, <2>1, Zenon
<1> QED BY <1>5 DEF r

LEMMA ModSub ==
  ASSUME NEW n \in Nat \ {0}, NEW a \in Int, NEW b \in Int
  PROVE  (a - (b % n)) % n = (a - b) % n
<1>1. b = n * (b \div n) + (b % n) /\ (b % n) \in 0 .. n - 1 /\ (b \div n) \in Int
  BY Euclid
<1> DEFINE x == b \div n
           r == b % n
           d == a - b
<1>2. b = n * x + r /\ x \in Int /\ r \in Int /\ d = a - b
  BY <1>1
<1> HIDE DEF x, r, d
<1>3. a - r = d + n * x /\ d \in Int
  BY <1>2
<1>4. (d + n * x) % n = d % n
  BY <1>2, <1>3, Turns
<1> QED BY <1>3, <1>4 DEF r, d

LEMMA ModSmall ==
  ASSUME NEW n \in Nat \ {0}, NEW a \in 0 .. n - 1
  PROVE  a % n = a
OBVIOUS

(* The difference of two numbers modulo n that are less than n apart.      *)
LEMMA Apart ==
  ASSUME NEW n \in Nat \ {0}, NEW a \in Nat, NEW b \in Nat, b <= a, a - b < n
  PROVE  ((a % n) - (b % n)) % n = a - b /\ (a - (b % n)) % n = a - b
<1>0. a \in Int /\ b \in Int
  OBVIOUS
<1>1. (a - (b % n)) % n = (a - b) % n
  BY <1>0, ModSub, Zenon
<1>2. ((a % n) + (0 - (b % n))) % n = (a + (0 - (b % n))) % n
  <2>1. (0 - (b % n)) \in Int
    BY <1>0, Euclid
  <2> QED BY <1>0, <2>1, ModAdd, Zenon
<1>3. (a - b) % n = a - b
  <2>1. a - b \in 0 .. n - 1
    BY <1>0
  <2> QED BY <2>1, ModSmall, Zenon
<1>4. /\ (a % n) + (0 - (b % n)) = (a % n) - (b % n)
      /\ a + (0 - (b % n)) = a - (b % n)
  <2> DEFINE r == b % n
             t == a % n
  <2>1. r \in Int /\ t \in Int
    BY <1>0, Euclid
  <2> HIDE DEF r, t
  <2>2. t + (0 - r) = t - r /\ a + (0 - r) = a - r
    BY <1>0, <2>1
  <2> QED BY <2>2 DEF r, t
<1> QED BY <1>1, <1>2, <1>3, <1>4, Zenon

----------------------------------------------------------------------------
(* Sequence numbers.                                                       *)
CInv == TypeOK /\ Fetching /\ Numbers

LEMMA IssuedNat ==
  ASSUME TypeOK
  PROVE  Issued \in Nat
BY Sizes DEF TypeOK, Issued

LEMMA Facts ==
  ASSUME CInv
  PROVE  /\ taken \in Nat /\ want \in Nat /\ Asked \in Nat /\ Asked = taken + want
         /\ Part \in 0 .. BatchSize /\ Part \in Nat /\ Counted \in Nat /\ Counted = Asked - Part
         /\ partial_served \in Nat /\ num_avail \in Nat /\ Issued \in Nat
         /\ data_refl \in Nat /\ data_done \in Nat /\ data_refl <= data_done
         /\ Counted <= Asked
<1>1. /\ taken \in Nat /\ want \in Nat /\ partial_served \in Nat /\ num_avail \in Nat
      /\ data_refl \in Nat /\ data_done \in Nat /\ Issued \in Nat
  BY IssuedNat DEF CInv, TypeOK
<1>2. Part \in 0 .. BatchSize /\ Counted \in Nat /\ data_refl <= data_done
  BY DEF CInv, Fetching, Numbers
<1>3. Part \in Nat /\ Asked \in Nat /\ Asked = taken + want /\ Counted = Asked - Part
  BY <1>1, <1>2, Sizes DEF Asked, Counted
<1>4. Counted <= Asked
  BY <1>3
<1> QED BY <1>1, <1>2, <1>3, <1>4

(* What a context computes from the sequence numbers it knows.             *)
LEMMA Differences ==
  ASSUME CInv, data_done <= Issued, NEW r \in 0 .. Issued, NEW s \in 0 .. Issued,
         NEW c \in 0 .. Issued, Stands(r, s, c)
  PROVE  /\ Minus(complete, served) = c - Counted
         /\ Minus(data_refl % SeqNumbers, served) = data_refl - Counted
         /\ Minus(Issued, served_refl) = Issued - r
<1>1. /\ Counted \in Nat /\ Issued \in Nat /\ data_refl \in Nat /\ r \in Nat /\ c \in Nat
      /\ r <= Counted /\ Counted <= c /\ c <= data_refl /\ data_refl <= Issued
      /\ Issued <= r + Window /\ SeqNumbers \in Nat \ {0} /\ Window < SeqNumbers
      /\ Window \in Nat
  BY Facts, Sizes DEF Stands
<1> HIDE DEF Counted, Issued
<1>2. /\ c - Counted < SeqNumbers /\ data_refl - Counted < SeqNumbers /\ Issued - r < SeqNumbers
      /\ Counted <= data_refl /\ r <= Issued
  BY <1>1
<1>3. ((c % SeqNumbers) - (Counted % SeqNumbers)) % SeqNumbers = c - Counted
  BY <1>1, <1>2, Apart, Zenon
<1>4. ((data_refl % SeqNumbers) - (Counted % SeqNumbers)) % SeqNumbers = data_refl - Counted
  BY <1>1, <1>2, Apart, Zenon
<1>5. (Issued - (r % SeqNumbers)) % SeqNumbers = Issued - r
  BY <1>1, <1>2, Apart, Zenon
<1> QED BY <1>3, <1>4, <1>5, Zenon DEF Stands, Minus

LEMMA InitCInv == Init => CInv
<1> SUFFICES ASSUME Init PROVE CInv
  OBVIOUS
<1>1. TypeOK
  BY DEF Init, TypeOK, Places
<1>2. Asked = 0 /\ Part = 0 /\ Counted = 0 /\ Processed = 0
  <2>1. taken = 0 /\ want = 0 /\ pc = "start" /\ Len(batch_in) = 0
    BY DEF Init
  <2> QED BY <2>1 DEF Asked, Part, Counted, Processed
<1>3. Fetching
  BY <1>2, Sizes DEF Init, Fetching, Places, LsoPlaces
<1>4. Issued = 0
  BY Sizes DEF Init, Issued
<1>5. 0 % SeqNumbers = 0
  BY Sizes
<1>6. Stands(0, 0, 0)
  BY <1>2, <1>4, <1>5, Sizes DEF Init, Stands
<1>7. Numbers
  BY <1>4, <1>6 DEF Init, Numbers
<1> QED BY <1>1, <1>3, <1>7 DEF CInv

(* A step of an engine: data_refl may grow, and nothing else matters.      *)
LEMMA EngineCInv ==
  ASSUME CInv, UNCHANGED <<issued, served_refl, counters, rings, context>>,
         data_refl <= data_refl', data_refl' <= data_done', TypeOK'
  PROVE  CInv'
<1>1. /\ Asked' = Asked /\ Part' = Part /\ Counted' = Counted /\ Processed' = Processed
      /\ Issued' = Issued
  BY DEF Asked, Part, Counted, Processed, Issued, rings, context
<1>2. Fetching'
  BY <1>1 DEF CInv, Fetching, rings, context
<1>3. PICK r, s, c \in 0 .. Issued : Stands(r, s, c)
  BY DEF CInv, Numbers
<1>4. c \in Nat /\ data_refl \in Nat /\ data_refl' \in Nat /\ c <= data_refl'
  <2>1. c \in Nat /\ data_refl \in Nat /\ c <= data_refl
    BY <1>3, Facts DEF Stands
  <2>2. data_refl' \in Nat
    BY DEF TypeOK
  <2> QED BY <2>1, <2>2
<1>5. Stands(r, s, c)'
  BY <1>1, <1>3, <1>4 DEF Stands, counters, context
<1>6. Numbers'
  BY <1>1, <1>3, <1>5 DEF Numbers
<1> QED BY <1>2, <1>6 DEF CInv

LEMMA IssueCInv ==
  ASSUME CInv, data_done <= Issued, NEW b \in Batches, IssueBatch(b)
  PROVE  CInv' /\ Issued' = Issued + BatchSize
<1>1. /\ issued' = Append(issued, b) /\ HasRoom
      /\ UNCHANGED <<data_done, jumbo_done, data_refl, jumbo_refl, lso_put,
                     served_refl, counters, rings, context>>
  BY DEF IssueBatch
<1>2. issued \in Seq(Batches) /\ issued' \in Seq(Batches) /\ Len(issued') = Len(issued) + 1
      /\ Len(issued) \in Nat
  BY <1>1 DEF CInv, TypeOK
<1>3. Issued' = Issued + BatchSize /\ Issued \in Nat /\ Issued' \in Nat
  BY <1>2, Sizes DEF Issued
<1>4. TypeOK'
  BY <1>1, <1>2 DEF CInv, TypeOK, rings, context
<1>5. /\ Asked' = Asked /\ Part' = Part /\ Counted' = Counted /\ Processed' = Processed
  BY <1>1 DEF Asked, Part, Counted, Processed, rings, context
<1>6. Fetching'
  BY <1>1, <1>5 DEF CInv, Fetching, rings, context
<1>7. PICK r, s, c \in 0 .. Issued : Stands(r, s, c)
  BY DEF CInv, Numbers
<1>8. Issued - r <= Window - BatchSize
  BY <1>1, <1>7, Differences, Sizes DEF HasRoom
<1>9. Issued' <= r + Window
  BY <1>3, <1>7, <1>8, Sizes
<1>10. Stands(r, s, c)'
  BY <1>1, <1>5, <1>7, <1>9 DEF Stands, counters, context
<1>11. {r, s, c} \subseteq 0 .. Issued'
  BY <1>3, <1>7, Sizes
<1>12. Numbers'
  BY <1>1, <1>10, <1>11 DEF CInv, Numbers
<1> QED BY <1>3, <1>4, <1>6, <1>12 DEF CInv

LEMMA ReflectCInv ==
  ASSUME CInv, data_done <= Issued, ServedReflected \/ distr_notify
  PROVE  CInv'
<1>1. UNCHANGED <<issued, data_refl, data_done, served, rings, context>>
  BY DEF ServedReflected, distr_notify, counters, issuer, rings, context
<1>2. TypeOK'
  <2>1. UNCHANGED <<jumbo_done, jumbo_refl, lso_put>>
    BY DEF ServedReflected, distr_notify, issuer
  <2> QED BY <1>1, <2>1 DEF CInv, TypeOK, rings, context
<1>3. /\ Asked' = Asked /\ Part' = Part /\ Counted' = Counted /\ Processed' = Processed
      /\ Issued' = Issued
  BY <1>1 DEF Asked, Part, Counted, Processed, Issued, rings, context
<1>4. Fetching'
  BY <1>1, <1>3 DEF CInv, Fetching, rings, context
<1>5. PICK r, s, c \in 0 .. Issued : Stands(r, s, c)
  BY DEF CInv, Numbers
<1>6. /\ r \in Nat /\ s \in Nat /\ c \in Nat /\ Issued \in Nat /\ Counted \in Nat
      /\ data_refl \in Nat /\ Window \in Nat /\ Asked \in Nat /\ Counted <= Asked
      /\ data_refl <= Issued /\ num_avail \in Nat
  BY <1>5, Facts, Sizes
<1>7. CASE ServedReflected
  <2>1. served_refl' = sent /\ UNCHANGED <<sent, complete>>
    BY <1>7 DEF ServedReflected, counters
  <2>2. r <= s /\ Issued <= r + Window
    BY <1>5 DEF Stands
  <2>3. Issued <= s + Window
    BY <1>6, <2>2
  <2>4. Stands(s, s, c)'
    BY <1>1, <1>3, <1>5, <1>6, <2>1, <2>3 DEF Stands, context
  <2> QED BY <1>1, <1>2, <1>3, <1>4, <1>5, <2>4 DEF CInv, Numbers
<1>8. CASE distr_notify
  <2>1. /\ complete' = data_refl % SeqNumbers /\ sent' = served
        /\ served_refl' = served_refl
    BY <1>8 DEF distr_notify, issuer
  <2>2. /\ r <= Counted /\ c <= data_refl /\ Asked <= c
        /\ (mode = "partial" /\ pc # "start" => Counted + num_avail <= c)
    BY <1>5, <1>6 DEF Stands
  <2>3. /\ Asked <= data_refl
        /\ (mode = "partial" /\ pc # "start" => Counted + num_avail <= data_refl)
    BY <1>6, <2>2
  <2>4. Stands(r, Counted, data_refl)'
    BY <1>1, <1>3, <1>5, <1>6, <2>1, <2>2, <2>3 DEF Stands, context
  <2>5. Counted \in 0 .. Issued /\ data_refl \in 0 .. Issued
    BY <1>6, <2>3
  <2> QED BY <1>1, <1>2, <1>3, <1>4, <1>5, <2>4, <2>5 DEF CInv, Numbers
<1> QED BY <1>7, <1>8

(* A step of the notifier that neither asks for messages nor looks at the  *)
(* sequence numbers.                                                       *)
LEMMA NumbersKept ==
  ASSUME CInv, UNCHANGED <<issued, data_done, data_refl, served_refl, counters>>,
         Asked' = Asked, Counted' = Counted,
         mode' = "partial" /\ pc' # "start" =>
           mode = "partial" /\ pc # "start" /\ num_avail' = num_avail
  PROVE  Numbers'
<1>1. PICK r, s, c \in 0 .. Issued : Stands(r, s, c)
  BY DEF CInv, Numbers
<1>2. Issued' = Issued
  BY DEF Issued
<1>3. Stands(r, s, c)'
  BY <1>1, <1>2 DEF Stands, counters
<1> QED BY <1>1, <1>2, <1>3 DEF CInv, Numbers

(* The notifier's own state, spelled out.                                  *)
LEMMA Places2 ==
  ASSUME CInv
  PROVE  /\ batch_in \in Seq(Nat \ {0}) /\ Len(batch_in) \in Nat /\ Processed = taken - Len(batch_in)
         /\ pc \in Places /\ mode \in {"full", "partial", "last"}
         /\ (batch_in = <<>> <=> Len(batch_in) = 0)
BY DEF CInv, TypeOK, Processed

LEMMA GetDoneCInv ==
  ASSUME CInv, GetDone
  PROVE  CInv'
<1>1. /\ want > 0 /\ want \in Nat /\ taken \in Nat
      /\ batch_in' = [k \in 1 .. want |-> taken + k]
      /\ taken' = taken + want /\ want' = 0
      /\ UNCHANGED <<issuer, counters, lso_taken, pc, mode, num_avail, partial_served>>
  BY Facts DEF GetDone
<1>2. /\ batch_in' \in Seq(Nat \ {0}) /\ Len(batch_in') = want /\ batch_in' # <<>>
      /\ \A k \in 1 .. Len(batch_in') : batch_in'[k] = taken + k
  BY <1>1
<1>3. Asked' = Asked /\ Processed' = taken
  BY <1>1, <1>2 DEF Asked, Processed
<1>4. Part' = Part /\ Counted' = Counted
  BY <1>1, <1>3 DEF Part, Counted
<1>5. TypeOK'
  <2>1. taken' \in Nat /\ want' \in Nat
    BY <1>1
  <2> QED BY <1>1, <1>2, <2>1 DEF CInv, TypeOK, issuer
<1>6. Fetching'
  <2>1. pc \in {"wait_first", "wait_next"}
    BY <1>1, Places2 DEF CInv, Fetching, Places, LsoPlaces
  <2>2. \A k \in 1 .. Len(batch_in') : batch_in'[k] = Processed' + k
    BY <1>2, <1>3
  <2> QED BY <1>1, <1>2, <1>4, <2>1, <2>2 DEF CInv, Fetching, Places, LsoPlaces
<1>7. Numbers'
  BY <1>1, <1>3, <1>4, NumbersKept DEF issuer
<1> QED BY <1>5, <1>6, <1>7 DEF CInv

LEMMA StartCInv ==
  ASSUME CInv, data_done <= Issued, StartFull \/ StartPartial
  PROVE  CInv'
<1>1. /\ pc = "start" /\ pc' = "wait_first" /\ num_avail' = Minus(complete, served)
      /\ UNCHANGED <<issuer, complete, sent, taken, lso_taken, batch_in>>
  BY DEF StartFull, StartPartial, counters
<1>2. /\ Part = 0 /\ want = 0 /\ Counted = taken /\ taken \in Nat /\ batch_in = <<>>
      /\ batch_in \in Seq(Nat \ {0})
  <2>1. Part = 0 /\ want = 0 /\ batch_in = <<>>
    BY <1>1 DEF Part, CInv, Fetching
  <2> QED BY <2>1, Facts, Places2
<1>3. PICK r, s, c \in 0 .. Issued : Stands(r, s, c)
  BY DEF CInv, Numbers
<1>4. /\ num_avail' = c - taken /\ c \in Nat /\ r \in Nat /\ s \in Nat /\ Issued' = Issued
      /\ taken <= c /\ num_avail' \in Nat /\ s <= taken /\ served = taken % SeqNumbers
  <2>1. /\ num_avail' = c - taken /\ Asked = taken /\ Asked <= c /\ s <= Counted
        /\ served = Counted % SeqNumbers
    BY <1>1, <1>2, <1>3, Differences, Facts DEF Stands
  <2>2. c \in Nat /\ r \in Nat /\ s \in Nat
    BY <1>3, Facts
  <2> QED BY <1>1, <1>2, <2>1, <2>2 DEF Issued, issuer
<1>5. CASE StartFull
  <2>1. /\ want' = BatchSize /\ mode' = "full" /\ num_avail' >= BatchSize
        /\ served' = (served + BatchSize) % SeqNumbers
        /\ partial_served' = partial_served
    BY <1>5 DEF StartFull
  <2>2. /\ Part' = 0 /\ Asked' = taken + BatchSize /\ Counted' = taken + BatchSize
        /\ Processed' = Processed /\ want' > 0 /\ want' \in Nat /\ Asked' \in Nat
    BY <1>1, <1>2, <2>1, Sizes DEF Part, Asked, Counted, Processed
  <2>3. served' = (taken + BatchSize) % SeqNumbers
    <3>1. taken \in Int /\ BatchSize \in Int /\ SeqNumbers \in Nat \ {0}
      BY <1>2, Sizes
    <3>2. ((taken % SeqNumbers) + BatchSize) % SeqNumbers = (taken + BatchSize) % SeqNumbers
      BY <3>1, ModAdd, Zenon
    <3> QED BY <1>4, <2>1, <3>2
  <2>4. TypeOK'
    BY <1>1, <1>2, <1>4, <2>1, <2>2 DEF CInv, TypeOK, Places, issuer
  <2>5. Fetching'
    BY <1>1, <1>2, <2>1, <2>2, Sizes DEF CInv, Fetching, Places, LsoPlaces
  <2>6. Asked' <= c /\ s <= Counted'
    BY <1>2, <1>4, <2>1, <2>2, Sizes
  <2>7. Stands(r, s, c)'
    BY <1>1, <1>3, <1>4, <2>1, <2>2, <2>3, <2>6 DEF Stands, issuer
  <2> QED BY <1>1, <1>3, <1>4, <2>4, <2>5, <2>7 DEF CInv, Numbers, issuer
<1>6. CASE StartPartial
  <2>1. /\ want' = 1 /\ mode' = "partial" /\ num_avail' >= 1
        /\ served' = served /\ partial_served' = 0
    BY <1>6, Sizes DEF StartPartial, counters
  <2>2. /\ Part' = 1 /\ Asked' = taken + 1 /\ Counted' = taken
        /\ Processed' = Processed /\ want' \in Nat
    BY <1>1, <1>2, <2>1, Sizes DEF Part, Asked, Counted, Processed
  <2>4. TypeOK'
    BY <1>1, <1>2, <1>4, <2>1, <2>2 DEF CInv, TypeOK, Places, issuer
  <2>5. Fetching'
    BY <1>1, <1>2, <2>1, <2>2, Sizes DEF CInv, Fetching, Places, LsoPlaces
  <2>6. Asked' <= c /\ Counted' + num_avail' <= c
    BY <1>2, <1>4, <2>1, <2>2
  <2>7. Stands(r, s, c)'
    BY <1>1, <1>3, <1>4, <2>1, <2>2, <2>6 DEF Stands, issuer
  <2> QED BY <1>1, <1>3, <1>4, <2>4, <2>5, <2>7 DEF CInv, Numbers, issuer
<1> QED BY <1>5, <1>6

LEMMA ArrivedCInv ==
  ASSUME CInv, FirstArrived \/ NextArrived
  PROVE  CInv'
<1>1. /\ want = 0 /\ pc \in {"wait_first", "wait_next"} /\ pc' = "process"
      /\ UNCHANGED <<issuer, counters, rings, mode, num_avail, batch_in>>
      /\ partial_served \in Nat
  BY Facts DEF FirstArrived, NextArrived
<1>2. /\ mode # "partial" => partial_served' = partial_served
      /\ mode = "partial" => partial_served' = partial_served + 1
      /\ mode = "partial" => partial_served + 1 < BatchSize
  <2>1. CASE FirstArrived
    BY <1>1, <2>1, Sizes DEF FirstArrived, CInv, Fetching
  <2>2. CASE NextArrived
    BY <1>1, <2>2, Sizes DEF NextArrived, CInv, Fetching
  <2> QED BY <2>1, <2>2
<1>3. Part' = Part
  BY <1>1, <1>2 DEF Part
<1>4. Asked' = Asked /\ Counted' = Counted /\ Processed' = Processed
  BY <1>1, <1>3 DEF Asked, Counted, Processed, rings
<1>5. TypeOK'
  <2>1. partial_served' \in Nat
    BY <1>1, <1>2, Places2
  <2> QED BY <1>1, <2>1 DEF CInv, TypeOK, Places, issuer, rings
<1>6. Fetching'
  BY <1>1, <1>2, <1>3, <1>4 DEF CInv, Fetching, Places, LsoPlaces, rings
<1>7. Numbers'
  BY <1>1, <1>4, NumbersKept DEF issuer
<1> QED BY <1>5, <1>6, <1>7 DEF CInv

LEMMA WaitsCInv ==
  ASSUME CInv, data_done <= Issued, WaitForMore \/ JumboWait
  PROVE  CInv'
<1>1. /\ pc \in {"more", "jumbo"}
      /\ IF pc = "more" THEN pc' = "more" ELSE pc' \in {"jumbo", "segment"}
      /\ complete' = data_refl % SeqNumbers /\ num_avail' = Minus(complete', served)
      /\ UNCHANGED <<issuer, served, sent, rings, mode, partial_served, batch_in>>
  BY DEF WaitForMore, JumboWait
<1>2. /\ Asked' = Asked /\ Part' = Part /\ Counted' = Counted /\ Processed' = Processed
      /\ Issued' = Issued
  BY <1>1 DEF Asked, Part, Counted, Processed, Issued, rings, issuer
<1>3. PICK r, s, c \in 0 .. Issued : Stands(r, s, c)
  BY DEF CInv, Numbers
<1>4. num_avail' = data_refl - Counted
  BY <1>1, <1>3, Differences
<1>5. /\ Asked <= data_refl /\ data_refl \in 0 .. Issued /\ num_avail' \in Nat
      /\ Counted + num_avail' <= data_refl
  <2>1. Asked <= c /\ c <= data_refl
    BY <1>3 DEF Stands
  <2> QED BY <1>3, <1>4, <2>1, Facts
<1>6. TypeOK'
  BY <1>1, <1>5 DEF CInv, TypeOK, Places, LsoPlaces, issuer, rings
<1>7. Fetching'
  BY <1>1, <1>2 DEF CInv, Fetching, Places, LsoPlaces, rings
<1>8. Stands(r, s, data_refl)'
  BY <1>1, <1>2, <1>3, <1>5 DEF Stands, issuer
<1> QED BY <1>1, <1>2, <1>3, <1>5, <1>6, <1>7, <1>8 DEF CInv, Numbers, issuer

LEMMA FetchCInv ==
  ASSUME CInv, FetchNext
  PROVE  CInv'
<1>1. /\ pc = "more" /\ pc' = "wait_next" /\ want' = 1 /\ num_avail > partial_served
      /\ UNCHANGED <<issuer, complete, sent, taken, lso_taken, num_avail,
                     partial_served, batch_in>>
  BY DEF FetchNext, MoreDone
<1>2. /\ mode = "partial" /\ want = 0 /\ batch_in = <<>> /\ Part = partial_served
      /\ partial_served < BatchSize
  BY <1>1 DEF Part, CInv, Fetching
<1>3. /\ taken \in Nat /\ Asked = taken /\ Counted = taken - partial_served
      /\ partial_served \in Nat /\ Counted \in Nat /\ num_avail \in Nat
  BY <1>2, Facts
<1>4. PICK r, s, c \in 0 .. Issued : Stands(r, s, c)
  BY DEF CInv, Numbers
<1>5. /\ Counted + num_avail <= c /\ served = Counted % SeqNumbers /\ s <= Counted
      /\ c \in Nat /\ s \in Nat
  BY <1>1, <1>2, <1>4, Facts DEF Stands
<1>6. Asked' = taken + 1 /\ Asked' <= c /\ Processed' = Processed /\ Issued' = Issued
  BY <1>1, <1>3, <1>5 DEF Asked, Processed, Issued, issuer
<1>7. CASE AtLast
  <2>1. mode' = "last" /\ served' = (served + BatchSize) % SeqNumbers
    BY <1>1, <1>7 DEF FetchNext
  <2>2. partial_served = BatchSize - 1
    BY <1>7 DEF AtLast
  <2>3. Part' = 0 /\ Counted' = Counted + BatchSize
    BY <1>1, <1>3, <1>6, <2>1, <2>2, Sizes DEF Part, Counted
  <2>4. served' = (Counted + BatchSize) % SeqNumbers
    <3> DEFINE k == Counted
    <3>1. k \in Int /\ BatchSize \in Int /\ SeqNumbers \in Nat \ {0}
      BY <1>3, Sizes
    <3> HIDE DEF k
    <3>2. ((k % SeqNumbers) + BatchSize) % SeqNumbers = (k + BatchSize) % SeqNumbers
      BY <3>1, ModAdd, Zenon
    <3> USE DEF k
    <3> QED BY <1>5, <2>1, <3>2
  <2>5. TypeOK'
    BY <1>1, <2>1 DEF CInv, TypeOK, Places, issuer
  <2>6. Fetching'
    BY <1>1, <1>2, <1>3, <1>6, <2>1, <2>3, Sizes DEF CInv, Fetching, Places, LsoPlaces
  <2>7. s <= Counted'
    BY <1>3, <1>5, <2>3, Sizes
  <2>8. Stands(r, s, c)'
    BY <1>1, <1>4, <1>6, <2>1, <2>3, <2>4, <2>7 DEF Stands, issuer
  <2> QED BY <1>1, <1>4, <1>6, <2>5, <2>6, <2>8 DEF CInv, Numbers, issuer
<1>8. CASE ~AtLast
  <2>1. mode' = mode /\ served' = served
    BY <1>1, <1>8 DEF FetchNext
  <2>2. partial_served < BatchSize - 1
    BY <1>2, <1>3, <1>8, Sizes DEF AtLast
  <2>3. Part' = partial_served + 1 /\ Counted' = Counted
    BY <1>1, <1>2, <1>3, <1>6, <2>1 DEF Part, Counted
  <2>5. TypeOK'
    BY <1>1, <2>1 DEF CInv, TypeOK, Places, issuer
  <2>6. Fetching'
    BY <1>1, <1>2, <1>3, <1>6, <2>1, <2>2, <2>3, Sizes DEF CInv, Fetching, Places, LsoPlaces
  <2>8. Stands(r, s, c)'
    BY <1>1, <1>2, <1>4, <1>5, <1>6, <2>1, <2>3 DEF Stands, issuer
  <2> QED BY <1>1, <1>4, <1>6, <2>5, <2>6, <2>8 DEF CInv, Numbers, issuer
<1> QED BY <1>7, <1>8

(* A message is finished.                                                  *)
LEMMA FinishCInv ==
  ASSUME CInv, pc \in {"process", "segment"}, FinishMessage,
         UNCHANGED <<issued, data_done, jumbo_done, data_refl, jumbo_refl, lso_put,
                     served_refl, counters, rings, mode, num_avail, partial_served>>
  PROVE  CInv' /\ Processed' = Processed + 1
<1>1. /\ batch_in # <<>> /\ batch_in' = Tail(batch_in) /\ want = 0
      /\ pc' = IF batch_in' # <<>> THEN "process"
               ELSE IF mode = "partial" THEN "more" ELSE "credit"
  BY DEF FinishMessage, CInv, Fetching, LsoPlaces
<1>2. /\ batch_in \in Seq(Nat \ {0}) /\ batch_in' \in Seq(Nat \ {0}) /\ Len(batch_in') = Len(batch_in) - 1
      /\ Len(batch_in) \in Nat /\ Len(batch_in) > 0
      /\ \A k \in 1 .. Len(batch_in') : /\ k + 1 \in 1 .. Len(batch_in)
                                        /\ batch_in'[k] = batch_in[k + 1]
  BY <1>1, Places2
<1>3. taken \in Nat /\ taken' = taken /\ want' = want
  BY Facts DEF rings
<1>4. Processed' = Processed + 1 /\ Processed = taken - Len(batch_in)
  BY <1>2, <1>3 DEF Processed
<1>5. Asked' = Asked /\ Part' = Part /\ Counted' = Counted
  <2>1. Asked' = Asked
    BY <1>3 DEF Asked
  <2>2. Part' = Part
    BY <1>1 DEF Part
  <2> QED BY <2>1, <2>2 DEF Counted
<1>6. TypeOK'
  BY <1>1, <1>2 DEF CInv, TypeOK, Places, LsoPlaces, rings
<1>7. \A k \in 1 .. Len(batch_in') : batch_in'[k] = Processed' + k
  <2> SUFFICES ASSUME NEW k \in 1 .. Len(batch_in') PROVE batch_in'[k] = Processed' + k
    OBVIOUS
  <2>1. batch_in'[k] = Processed + (k + 1)
    BY <1>2 DEF CInv, Fetching
  <2>2. Processed \in Int
    BY <1>2, <1>3, <1>4
  <2> QED BY <1>4, <2>1, <2>2
<1>8. Fetching'
  <2>1. mode = "partial" => partial_served < BatchSize
    BY DEF CInv, Fetching, Places, LsoPlaces
  <2> QED BY <1>1, <1>3, <1>5, <1>7, <2>1 DEF CInv, Fetching, Places, LsoPlaces
<1>9. Numbers'
  BY <1>1, <1>5, NumbersKept
<1> QED BY <1>4, <1>6, <1>8, <1>9 DEF CInv

(* The context goes on within a message, or to its next batch.             *)
LEMMA OnwardsCInv ==
  ASSUME CInv,
         ProcessLso \/ LsoGet \/ Credit \/ QcAddDone
           \/ (pc = "segment" /\ pc' = "lso_get" /\ UNCHANGED batch_in
               /\ UNCHANGED <<issuer, counters, rings, mode, num_avail, partial_served>>)
  PROVE  CInv'
<1>1. /\ UNCHANGED <<issuer, counters, taken, want, mode, num_avail, partial_served, batch_in>>
      /\ lso_taken' \in Nat
      /\ \/ pc \in {"process"} \cup LsoPlaces /\ pc' \in LsoPlaces
         \/ pc = "credit" /\ pc' = "start"
         \/ pc' = pc
  BY DEF ProcessLso, LsoGet, Credit, QcAddDone, rings, context, CInv, TypeOK, LsoPlaces
<1>2. pc = "credit" => mode # "partial" /\ want = 0 /\ batch_in = <<>>
  BY DEF CInv, Fetching
<1>3. Asked' = Asked /\ Processed' = Processed /\ Part' = Part
  <2>1. Part' = Part
    BY <1>1, <1>2 DEF Part, LsoPlaces
  <2> QED BY <1>1, <2>1 DEF Asked, Processed
<1>4. Counted' = Counted
  BY <1>3 DEF Counted
<1>5. TypeOK'
  BY <1>1 DEF CInv, TypeOK, Places, issuer
<1>6. Fetching'
  BY <1>1, <1>2, <1>3, <1>4 DEF CInv, Fetching, Places, LsoPlaces
<1>7. Numbers'
  BY <1>1, <1>3, <1>4, NumbersKept DEF issuer, LsoPlaces
<1> QED BY <1>5, <1>6, <1>7 DEF CInv

LEMMA StutterCInv == ASSUME CInv, UNCHANGED vars PROVE CInv'
<1>1. UNCHANGED <<issued, served_refl, counters, rings, context>>
      /\ data_refl <= data_refl' /\ data_refl' <= data_done'
  BY Facts DEF vars, issuer
<1>2. TypeOK'
  BY DEF vars, issuer, rings, context, CInv, TypeOK
<1> QED BY <1>1, <1>2, EngineCInv

(* The engines that move counters on.                                      *)
LEMMA CounterCInv ==
  ASSUME CInv, PutLso \/ DmaDone \/ DataReflected \/ JumboReflected
  PROVE  CInv'
<1>1. /\ UNCHANGED <<issued, served_refl, counters, rings, context>>
      /\ data_done' \in Nat /\ data_done <= data_done'
      /\ \/ data_refl' = data_refl
         \/ data_refl' = data_done /\ data_done' = data_done
  BY SMTT(30), Facts DEF PutLso, DmaDone, DataReflected, JumboReflected
<1>2. /\ data_refl \in Nat /\ data_done \in Nat /\ data_refl <= data_done
      /\ data_refl' \in Nat /\ data_refl <= data_refl' /\ data_refl' <= data_done'
  BY <1>1, Facts
<1>3. jumbo_done' \in Nat /\ jumbo_refl' \in Nat /\ lso_put' \in Nat
  <2>1. jumbo_done \in Nat /\ jumbo_refl \in Nat /\ lso_put \in Nat
    BY DEF CInv, TypeOK
  <2> QED BY <2>1 DEF PutLso, DmaDone, DataReflected, JumboReflected
<1>4. TypeOK'
  BY <1>1, <1>2, <1>3 DEF CInv, TypeOK, rings, context
<1> QED BY <1>1, <1>2, <1>4, EngineCInv

LEMMA NextCInv == CInv /\ data_done <= Issued /\ [Next]_vars => CInv'
<1> SUFFICES ASSUME CInv, data_done <= Issued, [Next]_vars PROVE CInv'
  OBVIOUS
<1>1. CASE PutLso \/ DmaDone \/ DataReflected \/ JumboReflected
  BY <1>1, CounterCInv
<1>2. CASE ServedReflected \/ distr_notify
  BY <1>2, ReflectCInv
<1>3. CASE GetDone
  BY <1>3, GetDoneCInv
<1>4. CASE QcAddDone \/ ProcessLso \/ LsoGet \/ Credit
  BY <1>4, OnwardsCInv
<1>5. CASE StartFull \/ StartPartial
  BY <1>5, StartCInv
<1>6. CASE FirstArrived \/ NextArrived
  BY <1>6, ArrivedCInv
<1>7. CASE WaitForMore \/ JumboWait
  BY <1>7, WaitsCInv
<1>8. CASE FetchNext
  BY <1>8, FetchCInv
<1>9. CASE ProcessPacket \/ ProcessNone
  BY <1>9, FinishCInv DEF ProcessPacket, ProcessNone, issuer
<1>10. CASE Segment
  <2>1. /\ pc = "segment"
        /\ \/ FinishMessage
           \/ pc' = "lso_get" /\ UNCHANGED batch_in
        /\ UNCHANGED <<issuer, counters, rings, mode, num_avail, partial_served>>
    BY <1>10 DEF Segment
  <2>2. CASE FinishMessage
    BY <2>1, <2>2, FinishCInv DEF issuer
  <2>3. CASE pc' = "lso_get" /\ UNCHANGED batch_in
    BY <2>1, <2>3, OnwardsCInv
  <2> QED BY <2>1, <2>2, <2>3
<1>11. ASSUME NEW b \in Batches, IssueBatch(b) PROVE CInv'
  BY <1>11, IssueCInv
<1>12. CASE UNCHANGED vars
  BY <1>12, StutterCInv
<1> QED BY <1>1, <1>2, <1>3, <1>4, <1>5, <1>6, <1>7, <1>8, <1>9, <1>10, <1>11, <1>12
    DEF Next, notify, Engines

----------------------------------------------------------------------------
(* Induction: what does not hold of all numbers has a least exception.     *)
LEMMA LeastNat ==
  ASSUME NEW T \in SUBSET Nat, T # {}
  PROVE  \E x \in T : \A y \in T : x <= y
<1>1. IsWellFoundedOn(OpToRel(<, Nat), Nat)
  BY NatLessThanWellFounded
<1>2. PICK x \in T : \A y \in T : ~(<<y, x>> \in OpToRel(<, Nat))
  BY <1>1, WFMin
<1>3. \A y \in T : ~(y < x)
  BY <1>2 DEF OpToRel
<1> QED BY <1>3

(* The provers reason about concatenation better when it has a name.       *)
Cat(s, t) == s \o t

(* What FlattenSeq computes, one sequence of ss after the other.           *)
Flat(fl, ss, n) == fl[1] = ss[1] /\ \A i \in 2 .. n : fl[i] = fl[i - 1] \o ss[i]

LEMMA FlatExists ==
  ASSUME NEW S, NEW n \in Nat \ {0}, NEW ss \in [1 .. n -> Seq(S)]
  PROVE  \E fl \in [1 .. n -> Seq(S)] : Flat(fl, ss, n)
<1> DEFINE Good(k) == \E fl \in [1 .. k -> Seq(S)] : Flat(fl, ss, k)
           Bad == {k \in 1 .. n : ~Good(k)}
<1>1. SUFFICES ASSUME Bad # {} PROVE FALSE
  OBVIOUS
<1>2. PICK k \in Bad : \A j \in Bad : k <= j
  <2>1. Bad \in SUBSET Nat
    OBVIOUS
  <2> QED BY <1>1, <2>1, LeastNat
<1>3. CASE k = 1
  <2>1. [i \in 1 .. 1 |-> ss[1]] \in [1 .. 1 -> Seq(S)]
    OBVIOUS
  <2>2. Flat([i \in 1 .. 1 |-> ss[1]], ss, 1)
    BY DEF Flat
  <2> QED BY <1>2, <1>3, <2>1, <2>2
<1>4. CASE k > 1
  <2>1. Good(k - 1)
    <3>1. k - 1 \in 1 .. n /\ ~(k <= k - 1)
      BY <1>2, <1>4
    <3>2. k - 1 \notin Bad
      BY <1>2, <3>1
    <3> QED BY <3>1, <3>2
  <2>2. PICK g \in [1 .. k - 1 -> Seq(S)] : Flat(g, ss, k - 1)
    BY <2>1
  <2> DEFINE h == [i \in 1 .. k |-> IF i = k THEN g[k - 1] \o ss[k] ELSE g[i]]
  <2>3. k - 1 \in 1 .. k - 1 /\ k \in 1 .. n
    BY <1>2, <1>4
  <2>4. g[k - 1] \o ss[k] \in Seq(S)
    BY <2>3
  <2>5. h \in [1 .. k -> Seq(S)]
    BY <2>4
  <2>6. h[1] = ss[1]
    BY <1>4, <2>2, <2>3 DEF Flat
  <2>7. ASSUME NEW i \in 2 .. k PROVE h[i] = h[i - 1] \o ss[i]
    <3>1. CASE i = k
      <4>1. k \in 1 .. k /\ k - 1 \in 1 .. k /\ k - 1 # k
        BY <1>2, <1>4
      <4>2. h[k] = g[k - 1] \o ss[k] /\ h[k - 1] = g[k - 1]
        BY <4>1
      <4> QED BY <3>1, <4>2
    <3>2. CASE i # k
      <4>1. i \in 2 .. k - 1 /\ i \in 1 .. k /\ i - 1 \in 1 .. k /\ i - 1 # k
        BY <1>2, <3>2
      <4>2. h[i] = g[i] /\ h[i - 1] = g[i - 1]
        BY <3>2, <4>1
      <4> QED BY <2>2, <4>1, <4>2 DEF Flat
    <3> QED BY <3>1, <3>2
  <2>8. Flat(h, ss, k)
    BY <2>6, <2>7 DEF Flat
  <2> QED BY <1>2, <2>5, <2>8
<1> QED BY <1>2, <1>3, <1>4

LEMMA Flattened ==
  ASSUME NEW S, NEW n \in Nat \ {0}, NEW ss \in [1 .. n -> Seq(S)]
  PROVE  \E fl \in [1 .. n -> Seq(S)] : Flat(fl, ss, n) /\ FlattenSeq(ss) = fl[n]
<1>1. PICK g \in [1 .. n -> Seq(S)] : Flat(g, ss, n)
  BY FlatExists
<1>2. Len(ss) = n /\ n # 0
  OBVIOUS
<1> DEFINE Step(f) == [i \in 1 .. n |-> IF i = 1 THEN ss[i] ELSE f[i - 1] \o ss[i]]
           fl == CHOOSE f : f = Step(f)
<1>3. g = Step(g)
  <2>1. ASSUME NEW i \in 1 .. n PROVE g[i] = Step(g)[i]
    <3>1. Step(g)[i] = IF i = 1 THEN ss[i] ELSE g[i - 1] \o ss[i]
      OBVIOUS
    <3>2. CASE i = 1
      BY <1>1, <3>1, <3>2 DEF Flat
    <3>3. CASE i # 1
      <4>1. i \in 2 .. n
        BY <3>3
      <4> QED BY <1>1, <3>1, <3>3, <4>1 DEF Flat
    <3> QED BY <3>2, <3>3
  <2>2. g = [i \in 1 .. n |-> g[i]]
    OBVIOUS
  <2> QED BY <2>1, <2>2
<1>4. fl = Step(fl)
  BY <1>3
<1>5. FlattenSeq(ss) = fl[n]
  BY <1>2 DEF FlattenSeq
<1> HIDE DEF fl
<1>6. \A i \in 1 .. n : fl[i] = g[i]
  <2> DEFINE Bad == {i \in 1 .. n : fl[i] # g[i]}
  <2>1. SUFFICES ASSUME Bad # {} PROVE FALSE
    OBVIOUS
  <2>2. PICK k \in Bad : \A j \in Bad : k <= j
    <3>1. Bad \in SUBSET Nat
      OBVIOUS
    <3> QED BY <2>1, <3>1, LeastNat
  <2>3. CASE k = 1
    BY <1>1, <1>4, <2>2, <2>3 DEF Flat
  <2>4. CASE k # 1
    <3>1. k - 1 \in 1 .. n /\ k - 1 \notin Bad /\ k \in 2 .. n
      BY <2>2, <2>4
    <3>2. fl[k - 1] = g[k - 1]
      BY <3>1
    <3>3. fl[k] = fl[k - 1] \o ss[k]
      BY <1>4, <2>4, <3>1
    <3>4. g[k] = g[k - 1] \o ss[k]
      BY <1>1, <3>1 DEF Flat
    <3> QED BY <2>2, <3>2, <3>3, <3>4
  <2> QED BY <2>3, <2>4
<1>7. FlattenSeq(ss) = g[n]
  BY <1>5, <1>6
<1> QED BY <1>1, <1>7

LEMMA CatAssociative ==
  ASSUME NEW S, NEW s \in Seq(S), NEW t \in Seq(S), NEW u \in Seq(S)
  PROVE  Cat(Cat(s, t), u) = Cat(s, Cat(t, u))
BY DEF Cat

(* Appending a flattened sequence is appending one sequence at a time.     *)
LEMMA CatTyped ==
  ASSUME NEW S, NEW s \in Seq(S), NEW t \in Seq(S)
  PROVE  Cat(s, t) \in Seq(S)
BY DEF Cat

Builds(f, s0, ss, n) ==
  /\ f[0] = s0 /\ f[n] = Cat(s0, FlattenSeq(ss))
  /\ \A i \in 1 .. n : f[i] = Cat(f[i - 1], ss[i])

LEMMA Appended ==
  ASSUME NEW S, NEW n \in Nat \ {0}, NEW ss \in [1 .. n -> Seq(S)], NEW s0 \in Seq(S)
  PROVE  \E f \in [0 .. n -> Seq(S)] : Builds(f, s0, ss, n)
<1>1. PICK fl \in [1 .. n -> Seq(S)] : Flat(fl, ss, n) /\ FlattenSeq(ss) = fl[n]
  BY Flattened
<1>a. fl[1] = ss[1] /\ \A i \in 2 .. n : fl[i] = Cat(fl[i - 1], ss[i])
  BY <1>1 DEF Flat, Cat
<1> DEFINE f == [i \in 0 .. n |-> IF i = 0 THEN s0 ELSE Cat(s0, fl[i])]
<1>2. f \in [0 .. n -> Seq(S)]
  <2>1. ASSUME NEW i \in 1 .. n PROVE Cat(s0, fl[i]) \in Seq(S)
    BY CatTyped
  <2> QED BY <2>1
<1>3. f[0] = s0 /\ f[n] = Cat(s0, FlattenSeq(ss))
  BY <1>1
<1>4. ASSUME NEW i \in 1 .. n PROVE f[i] = Cat(f[i - 1], ss[i])
  <2>1. f[i] = Cat(s0, fl[i]) /\ fl[i] \in Seq(S) /\ ss[i] \in Seq(S)
    OBVIOUS
  <2>2. CASE i = 1
    BY <1>a, <2>1, <2>2
  <2>3. CASE i # 1
    <3>1. i \in 2 .. n /\ i - 1 \in 1 .. n /\ i - 1 \in 0 .. n /\ i - 1 # 0
      BY <2>3
    <3>2. /\ fl[i] = Cat(fl[i - 1], ss[i]) /\ fl[i - 1] \in Seq(S)
          /\ f[i - 1] = Cat(s0, fl[i - 1])
      BY <1>a, <3>1
    <3>3. Cat(Cat(s0, fl[i - 1]), ss[i]) = Cat(s0, Cat(fl[i - 1], ss[i]))
      <4> HIDE DEF f
      <4>1. s0 \in Seq(S) /\ fl[i - 1] \in Seq(S) /\ ss[i] \in Seq(S)
        BY <2>1, <3>2
      <4> QED BY <4>1, CatAssociative, SMT
    <3> QED BY <2>1, <3>2, <3>3
  <2> QED BY <2>2, <2>3
<1>5. Builds(f, s0, ss, n)
  BY <1>3, <1>4 DEF Builds
<1> QED BY <1>2, <1>5

(* What holds of 0 and, with i - 1, of i, holds up to n.                   *)
LEMMA UpTo ==
  ASSUME NEW n \in Nat, NEW T \in SUBSET (0 .. n), 0 \in T,
         \A i \in 1 .. n : i - 1 \in T => i \in T
  PROVE  n \in T
<1> DEFINE Bad == (0 .. n) \ T
<1>1. SUFFICES ASSUME Bad # {} PROVE FALSE
  OBVIOUS
<1>2. Bad \in SUBSET Nat
  OBVIOUS
<1>3. PICK k \in Bad : \A j \in Bad : k <= j
  BY <1>1, <1>2, LeastNat
<1>4. k \in 1 .. n /\ k - 1 \in 0 .. n /\ ~(k <= k - 1)
  BY <1>3
<1>5. k - 1 \in T
  BY <1>3, <1>4
<1> QED BY <1>3, <1>4, <1>5

----------------------------------------------------------------------------
(* One message more: its DMAs and its entries.                             *)
Entry == [message : Nat, eop : BOOLEAN, last : BOOLEAN]

IsMessage(msg) ==
  \/ msg \in {<<"packet">>, <<"none">>}
  \/ /\ msg[1] = "lso" /\ msg[2] \in Seq(BOOLEAN) \ {<<>>}
     /\ Len(msg[2]) <= MostSegments

SegmentsOf(msg) == IF IsLso(msg) THEN Len(msg[2]) ELSE 0

LEMMA MessagesTyped ==
  ASSUME NEW b \in Batches, NEW i \in 1 .. BatchSize
  PROVE  IsMessage(b.messages[i])
<1>1. \/ b.messages[i] \in {<<"packet">>, <<"none">>}
      \/ b.messages[i][1] = "lso" /\ b.messages[i][2] \in Seq(BOOLEAN) \ {<<>>}
  BY BatchAssumption
<1>2. CASE b.messages[i][1] = "lso" /\ b.messages[i][2] \in Seq(BOOLEAN) \ {<<>>}
  <2>1. Len(b.messages[i][2]) + MaxJumboLag < JumboNumbers \div 2
    BY <1>2, JumboAssumption DEF IsLso
  <2>a. JumboNumbers \in Int /\ 2 \in Nat \ {0}
    BY Sizes
  <2>b. (JumboNumbers \div 2) \in Int
    BY <2>a, Euclid, Zenon
  <2>2. Len(b.messages[i][2]) \in Nat /\ MaxJumboLag \in Nat /\ (JumboNumbers \div 2) \in Int
    BY <1>2, <2>b, Sizes
  <2>3. Len(b.messages[i][2]) <= MostSegments
    BY <2>1, <2>2 DEF MostSegments
  <2> QED BY <1>2, <2>3 DEF IsMessage
<1> QED BY <1>1, <1>2 DEF IsMessage

LEMMA MessageShape ==
  ASSUME NEW msg, IsMessage(msg), NEW m \in Nat
  PROVE  /\ SegmentsOf(msg) \in Nat /\ (SegmentsOf(msg) <= MostSegments \/ SegmentsOf(msg) = 0)
         /\ IsLso(msg) <=> SegmentsOf(msg) # 0
         /\ Dmas(msg) \in Seq({"data", "jumbo"}) /\ Len(Dmas(msg)) = SegmentsOf(msg) + 1
         /\ Dmas(msg)[1] = "data"
         /\ \A p \in 2 .. SegmentsOf(msg) + 1 : Dmas(msg)[p] = "jumbo"
         /\ EntriesOf(m, msg) \in Seq(Entry) /\ Len(EntriesOf(m, msg)) = SegmentsOf(msg)
         /\ \A k \in 1 .. SegmentsOf(msg) :
              /\ EntriesOf(m, msg)[k].message = m
              /\ EntriesOf(m, msg)[k].last <=> k = SegmentsOf(msg)
<1>1. CASE msg \in {<<"packet">>, <<"none">>}
  <2>1. ~IsLso(msg)
    BY <1>1 DEF IsLso
  <2>2. SegmentsOf(msg) = 0
    BY <2>1 DEF SegmentsOf
  <2>3. Dmas(msg) = <<"data">> \o <<>>
    BY <2>1 DEF Dmas
  <2>4. EntriesOf(m, msg) = <<>>
    BY <2>1 DEF EntriesOf
  <2> QED BY <2>1, <2>2, <2>3, <2>4
<1>2. CASE /\ msg[1] = "lso" /\ msg[2] \in Seq(BOOLEAN) \ {<<>>}
           /\ Len(msg[2]) <= MostSegments
  <2>1. IsLso(msg)
    BY <1>2 DEF IsLso
  <2> DEFINE g == Len(msg[2])
             js == [i \in 1 .. g |-> "jumbo"]
             en == [i \in 1 .. g |-> [message |-> m, eop |-> msg[2][i], last |-> i = g]]
  <2>2. SegmentsOf(msg) = g /\ g \in Nat /\ g # 0
    BY <1>2, <2>1 DEF SegmentsOf
  <2>3. Dmas(msg) = <<"data">> \o js
    BY <2>1 DEF Dmas
  <2>4. EntriesOf(m, msg) = en
    BY <2>1 DEF EntriesOf
  <2>5. \A i \in 1 .. g : msg[2][i] \in BOOLEAN
    BY <1>2
  <2> HIDE DEF g
  <2>6. /\ en \in Seq(Entry) /\ Len(en) = g
        /\ \A k \in 1 .. g : en[k].message = m /\ (en[k].last <=> k = g)
    <3>1. ASSUME NEW i \in 1 .. g
          PROVE  [message |-> m, eop |-> msg[2][i], last |-> i = g] \in Entry
      BY <2>5 DEF Entry
    <3>2. en \in [1 .. g -> Entry]
      BY <3>1
    <3>3. en \in Seq(Entry) /\ Len(en) = g
      BY <2>2, <3>2
    <3>4. ASSUME NEW k \in 1 .. g PROVE en[k].message = m /\ (en[k].last <=> k = g)
      OBVIOUS
    <3> QED BY <3>3, <3>4
  <2>7. js \in Seq({"data", "jumbo"}) /\ Len(js) = g /\ \A i \in 1 .. g : js[i] = "jumbo"
    BY <2>2
  <2> HIDE DEF js, en
  <2>8. /\ Dmas(msg) \in Seq({"data", "jumbo"}) /\ Len(Dmas(msg)) = g + 1
        /\ Dmas(msg)[1] = "data" /\ \A p \in 2 .. g + 1 : Dmas(msg)[p] = "jumbo"
    BY <2>2, <2>3, <2>7
  <2>9. g <= MostSegments
    BY <1>2 DEF g
  <2> QED BY <2>1, <2>2, <2>4, <2>6, <2>8, <2>9
<1> QED BY <1>1, <1>2 DEF IsMessage

(* Concatenation, place by place.                                          *)
LEMMA CatPlaces ==
  ASSUME NEW S, NEW s \in Seq(S), NEW t \in Seq(S)
  PROVE  /\ Cat(s, t) \in Seq(S) /\ Len(Cat(s, t)) = Len(s) + Len(t)
         /\ \A i \in 1 .. Len(s) : Cat(s, t)[i] = s[i]
         /\ \A i \in 1 .. Len(t) : Cat(s, t)[Len(s) + i] = t[i]
BY DEF Cat

(* es2 has g entries more than es, for message m.                          *)
Extends(es, es2, m, g) ==
  /\ Len(es2) = Len(es) + g
  /\ \A k \in 1 .. Len(es) : es2[k] = es[k]
  /\ \A k \in Len(es) + 1 .. Len(es2) : es2[k].message = m

LEMMA OneMoreMessage ==
  ASSUME NEW n \in Nat, NEW msg, IsMessage(msg), NEW es, NEW lso, Entries(es, n, lso),
         NEW es2, es2 = Cat(es, EntriesOf(n + 1, msg))
  PROVE  /\ Entries(es2, n + 1, IF IsLso(msg) THEN lso \cup {n + 1} ELSE lso)
         /\ Extends(es, es2, n + 1, SegmentsOf(msg))
<1> DEFINE g == SegmentsOf(msg)
           ns == EntriesOf(n + 1, msg)
           L == Len(es)
<1>1. /\ g \in Nat /\ (g <= MostSegments \/ g = 0) /\ (IsLso(msg) <=> g # 0)
      /\ ns \in Seq(Entry) /\ Len(ns) = g
      /\ \A k \in 1 .. g : ns[k].message = n + 1 /\ (ns[k].last <=> k = g)
  BY MessageShape
<1>2. es \in Seq(Entry) /\ L \in Nat
  BY DEF Entries, Entry
<1> HIDE DEF ns, g
<1>3. /\ es2 \in Seq(Entry) /\ Len(es2) = L + g
      /\ \A k \in 1 .. L : es2[k] = es[k]
      /\ \A k \in 1 .. g : es2[L + k] = ns[k]
  <2>1. es2 = Cat(es, ns)
    BY DEF ns
  <2>2. /\ Cat(es, ns) \in Seq(Entry) /\ Len(Cat(es, ns)) = Len(es) + Len(ns)
        /\ \A i \in 1 .. Len(es) : Cat(es, ns)[i] = es[i]
        /\ \A i \in 1 .. Len(ns) : Cat(es, ns)[Len(es) + i] = ns[i]
    <3>1. es \in Seq(Entry) /\ ns \in Seq(Entry)
      BY <1>1, <1>2
    <3> QED BY <3>1 DEF Cat
  <2> QED BY <1>1, <2>1, <2>2
<1>4. /\ lso \subseteq 1 .. n
      /\ \A k \in 1 .. L : es[k].message \in lso /\ es[k].message \in 1 .. n
      /\ \A l \in lso : \E k \in 1 .. L : es[k].message = l
      /\ \A j, k \in 1 .. L :
           /\ j < k => es[j].message <= es[k].message
           /\ j < k /\ es[j].last => es[j].message < es[k].message
           /\ j < k /\ es[j].message = es[k].message => k - j < MostSegments
      /\ \A k \in 1 .. L :
           ~es[k].last => k + 1 \in 1 .. L /\ es[k + 1].message = es[k].message
  BY DEF Entries
<1> HIDE DEF L
<1>5. \A k \in L + 1 .. L + g : /\ es2[k].message = n + 1
                                /\ es2[k].last <=> k = L + g
  <2> SUFFICES ASSUME NEW k \in L + 1 .. L + g
               PROVE  es2[k].message = n + 1 /\ (es2[k].last <=> k = L + g)
    OBVIOUS
  <2>1. k - L \in 1 .. g /\ L + (k - L) = k
    BY <1>1, <1>2
  <2>2. es2[k] = ns[k - L]
    BY <1>3, <2>1
  <2>3. ns[k - L].message = n + 1 /\ (ns[k - L].last <=> k - L = g)
    BY <1>1, <2>1
  <2>4. k - L = g <=> k = L + g
    BY <1>1, <1>2, <2>1
  <2> QED BY <2>2, <2>3, <2>4
<1> DEFINE lso2 == IF IsLso(msg) THEN lso \cup {n + 1} ELSE lso
<1>6. lso2 \subseteq 1 .. n + 1
  <2>1. ASSUME NEW l \in lso2 PROVE l \in 1 .. n + 1
    <3>1. l \in 1 .. n \/ l = n + 1
      BY <1>4
    <3> QED BY <3>1
  <2> QED BY <2>1
<1>7. ASSUME NEW k \in 1 .. L + g
      PROVE  k \in 1 .. L \/ (k \in L + 1 .. L + g /\ g # 0)
  BY <1>1, <1>2
<1>8. \A k \in 1 .. L + g : es2[k].message \in lso2
  BY <1>1, <1>3, <1>4, <1>5, <1>7
<1>9. \A l \in lso2 : \E k \in 1 .. L + g : es2[k].message = l
  <2> SUFFICES ASSUME NEW l \in lso2 PROVE \E k \in 1 .. L + g : es2[k].message = l
    OBVIOUS
  <2>1. CASE l \in lso
    <3>1. PICK k \in 1 .. L : es[k].message = l
      BY <1>4, <2>1
    <3>2. k \in 1 .. L + g
      BY <1>1, <1>2
    <3> QED BY <1>3, <3>1, <3>2
  <2>2. CASE l \notin lso
    <3>1. l = n + 1 /\ g # 0
      BY <1>1, <2>2
    <3>2. L + 1 \in L + 1 .. L + g /\ L + 1 \in 1 .. L + g
      BY <1>1, <1>2, <3>1
    <3> QED BY <1>5, <3>1, <3>2
  <2> QED BY <2>1, <2>2
<1>10. ASSUME NEW j \in 1 .. L + g, NEW k \in 1 .. L + g, j < k
       PROVE  /\ es2[j].message <= es2[k].message
              /\ es2[j].last => es2[j].message < es2[k].message
              /\ es2[j].message = es2[k].message => k - j < MostSegments
  <2>1. CASE k \in 1 .. L
    <3>1. j \in 1 .. L
      BY <1>2, <1>10, <2>1
    <3> QED BY <1>3, <1>4, <1>10, <2>1, <3>1
  <2>2. CASE k \in L + 1 .. L + g /\ j \in 1 .. L
    <3>1. es2[k].message = n + 1 /\ es2[j].message \in 1 .. n
      BY <1>3, <1>4, <1>5, <2>2
    <3> QED BY <3>1
  <2>3. CASE k \in L + 1 .. L + g /\ j \in L + 1 .. L + g
    <3>1. es2[k].message = n + 1 /\ es2[j].message = n + 1
      BY <1>5, <2>3
    <3>2. j # L + g
      BY <1>1, <1>2, <1>10, <2>3
    <3>3. ~es2[j].last
      BY <1>5, <2>3, <3>2
    <3>4. MostSegments \in Int
      BY Sizes, Euclid DEF MostSegments
    <3>5. k - j < g /\ g # 0
      BY <1>1, <1>2, <2>3
    <3>6. k - j < MostSegments
      BY <1>1, <1>2, <2>3, <3>4, <3>5
    <3> QED BY <3>1, <3>3, <3>6
  <2> QED BY <1>7, <2>1, <2>2, <2>3
<1>11. ASSUME NEW k \in 1 .. L + g, ~es2[k].last
       PROVE  k + 1 \in 1 .. L + g /\ es2[k + 1].message = es2[k].message
  <2>1. CASE k \in 1 .. L
    <3>1. k + 1 \in 1 .. L /\ es[k + 1].message = es[k].message
      BY <1>3, <1>4, <1>11, <2>1
    <3>2. k + 1 \in 1 .. L + g
      BY <1>1, <1>2, <3>1
    <3> QED BY <1>3, <2>1, <3>1, <3>2
  <2>2. CASE k \in L + 1 .. L + g
    <3>1. k # L + g
      BY <1>5, <1>11, <2>2
    <3>2. k + 1 \in L + 1 .. L + g /\ k + 1 \in 1 .. L + g
      BY <1>1, <1>2, <2>2, <3>1
    <3> QED BY <1>5, <2>2, <3>2
  <2> QED BY <1>7, <2>1, <2>2
<1>12. Entries(es2, n + 1, lso2)
  BY SMTT(30), <1>3, <1>6, <1>8, <1>9, <1>10, <1>11 DEF Entries, Entry
<1>13. Extends(es, es2, n + 1, SegmentsOf(msg))
  BY <1>3, <1>5 DEF L, g, Extends
<1> QED BY <1>12, <1>13

LEMMA OneMoreLabelled ==
  ASSUME NEW n \in Nat, NEW m \in Nat, m <= n, NEW j \in Nat, NEW msg, IsMessage(msg),
         NEW es, NEW lso, Entries(es, n, lso), j <= Len(es),
         NEW es2, es2 = Cat(es, EntriesOf(n + 1, msg)),
         NEW f, NEW at, Labelled(f, at, m, n, j, es),
         NEW f2, f2 = Cat(f, Dmas(msg))
  PROVE  \E at2 \in [1 .. Len(f2) -> Nat] : Labelled(f2, at2, m, n + 1, j, es2)
<1> DEFINE g == SegmentsOf(msg)
           ds == Dmas(msg)
           L == Len(es)
           N == Len(f)
<1>1. /\ g \in Nat /\ ds \in Seq({"data", "jumbo"}) /\ Len(ds) = g + 1
      /\ ds[1] = "data" /\ \A p \in 2 .. g + 1 : ds[p] = "jumbo"
  BY MessageShape
<1>2. /\ Len(es2) = L + g
      /\ \A k \in 1 .. L : es2[k] = es[k]
      /\ \A k \in L + 1 .. L + g : es2[k].message = n + 1
  <2>1. Extends(es, es2, n + 1, SegmentsOf(msg))
    BY OneMoreMessage, Zenon
  <2> QED BY <2>1 DEF Extends
<1>3. /\ f \in Seq({"data", "jumbo"}) /\ N \in Nat /\ L \in Nat /\ j <= L
      /\ at \in [1 .. N -> Nat]
      /\ \A k \in 1 .. L : es[k].message \in 1 .. n
  <2>1. \A k \in 1 .. Len(es) : es[k].message \in lso
    BY DEF Entries
  <2>2. lso \subseteq 1 .. n /\ Len(es) \in Nat
    BY DEF Entries
  <2>3. f \in Seq({"data", "jumbo"}) /\ at \in [1 .. Len(f) -> Nat]
    BY DEF Labelled
  <2>4. N \in Nat
    BY <2>3
  <2> QED BY <2>1, <2>2, <2>3, <2>4
<1> HIDE DEF ds, g
<1>4. /\ f2 \in Seq({"data", "jumbo"}) /\ Len(f2) = N + g + 1
      /\ \A p \in 1 .. N : f2[p] = f[p]
      /\ f2[N + 1] = "data"
      /\ \A p \in N + 2 .. N + g + 1 : f2[p] = "jumbo"
  <2>1. f2 = f \o ds
    BY DEF ds, Cat
  <2>2. /\ f2 \in Seq({"data", "jumbo"}) /\ Len(f2) = Len(f) + Len(ds)
        /\ \A p \in 1 .. Len(f) : f2[p] = f[p]
        /\ \A p \in 1 .. Len(ds) : f2[Len(f) + p] = ds[p]
    <3>1. f \in Seq({"data", "jumbo"}) /\ ds \in Seq({"data", "jumbo"})
      BY <1>1, <1>3
    <3> HIDE DEF N
    <3> QED BY <2>1, <3>1
  <2>3. f2[N + 1] = "data"
    BY <1>1, <2>2
  <2>4. ASSUME NEW p \in N + 2 .. N + g + 1 PROVE f2[p] = "jumbo"
    <3>1. p - N \in 2 .. g + 1 /\ p - N \in 1 .. g + 1 /\ N + (p - N) = p
      BY <1>1, <1>3
    <3>2. f2[p] = ds[p - N]
      BY <1>1, <2>2, <3>1
    <3> QED BY <1>1, <3>1, <3>2
  <2> QED BY <1>1, <1>3, <2>2, <2>3, <2>4
<1>a. g \in Nat /\ N \in Nat /\ L \in Nat /\ j <= L /\ m <= n
  BY <1>1, <1>3
<1>5. /\ \A p \in 1 .. N : at[p] \in IF f[p] = "data" THEN m + 1 .. n ELSE j + 1 .. L
      /\ \A x \in m + 1 .. n : \E p \in 1 .. N : f[p] = "data" /\ at[p] = x
      /\ \A x \in j + 1 .. L : \E p \in 1 .. N : f[p] = "jumbo" /\ at[p] = x
      /\ \A p, q \in 1 .. N :
           /\ p < q /\ f[p] = f[q] => at[p] < at[q]
           /\ f[p] = "jumbo" /\ f[q] = "data" => (p < q <=> es[at[p]].message < at[q])
  BY DEF Labelled
<1> HIDE DEF L, N
<1> DEFINE at2 == [p \in 1 .. N + g + 1 |->
                     IF p <= N THEN at[p]
                     ELSE IF p = N + 1 THEN n + 1 ELSE L + (p - (N + 1))]
           D2 == 1 .. N + g + 1
<1>6. /\ \A p \in 1 .. N : at2[p] = at[p]
      /\ at2[N + 1] = n + 1
      /\ \A p \in N + 2 .. N + g + 1 : at2[p] = L + (p - (N + 1))
  BY <1>1, <1>3
<1>7. ASSUME NEW p \in D2
      PROVE  p \in 1 .. N \/ p = N + 1 \/ p \in N + 2 .. N + g + 1
  <2>1. p \in Nat /\ 1 <= p /\ p <= N + g + 1
    BY <1>7, <1>a
  <2> HIDE DEF D2
  <2>2. p <= N \/ p = N + 1 \/ N + 2 <= p
    BY <2>1, <1>a
  <2> QED BY <1>a, <2>1, <2>2
<1>8. at2 \in [D2 -> Nat]
  <2>1. ASSUME NEW p \in D2
        PROVE  (IF p <= N THEN at[p]
                ELSE IF p = N + 1 THEN n + 1 ELSE L + (p - (N + 1))) \in Nat
    BY <1>1, <1>3, <1>7
  <2> QED BY <2>1
<1> HIDE DEF at2
<1>9. \A p \in N + 2 .. N + g + 1 :
        at2[p] \in L + 1 .. L + g /\ es2[at2[p]].message = n + 1 /\ at2[p] \in j + 1 .. L + g
  <2> SUFFICES ASSUME NEW p \in N + 2 .. N + g + 1
               PROVE  at2[p] \in L + 1 .. L + g /\ es2[at2[p]].message = n + 1
                      /\ at2[p] \in j + 1 .. L + g
    OBVIOUS
  <2>1. at2[p] \in L + 1 .. L + g
    BY <1>1, <1>3, <1>6
  <2> QED BY <1>1, <1>2, <1>3, <2>1
<1>10. ASSUME NEW p \in D2
       PROVE  at2[p] \in IF f2[p] = "data" THEN m + 1 .. n + 1 ELSE j + 1 .. L + g
  <2>1. CASE p \in 1 .. N
    <3>1. at[p] \in IF f[p] = "data" THEN m + 1 .. n ELSE j + 1 .. L
      BY <1>5, <2>1
    <3>2. at2[p] = at[p] /\ f2[p] = f[p]
      BY <1>4, <1>6, <2>1
    <3> QED BY <1>1, <1>3, <3>1, <3>2
  <2>2. CASE p = N + 1
    BY <1>4, <1>6, <2>2
  <2>3. CASE p \in N + 2 .. N + g + 1
    BY <1>4, <1>9, <2>3
  <2> QED BY <1>7, <2>1, <2>2, <2>3
<1>11. ASSUME NEW x \in m + 1 .. n + 1 PROVE \E p \in D2 : f2[p] = "data" /\ at2[p] = x
  <2>1. CASE x = n + 1
    <3>1. N + 1 \in D2
      BY <1>1, <1>3
    <3> QED BY <1>4, <1>6, <2>1, <3>1
  <2>2. CASE x # n + 1
    <3>1. PICK p \in 1 .. N : f[p] = "data" /\ at[p] = x
      <4>1. x \in m + 1 .. n
        BY <2>2
      <4> QED BY <1>5, <4>1
    <3>2. p \in D2
      BY <1>1, <1>3
    <3> QED BY <1>4, <1>6, <3>1, <3>2
  <2> QED BY <2>1, <2>2
<1>12. ASSUME NEW x \in j + 1 .. L + g PROVE \E p \in D2 : f2[p] = "jumbo" /\ at2[p] = x
  <2>1. CASE x <= L
    <3>1. PICK p \in 1 .. N : f[p] = "jumbo" /\ at[p] = x
      <4>1. x \in j + 1 .. L
        BY <1>3, <2>1
      <4> QED BY <1>5, <4>1
    <3>2. p \in D2
      BY <1>1, <1>3
    <3> QED BY <1>4, <1>6, <3>1, <3>2
  <2>2. CASE ~(x <= L)
    <3>1. /\ x - L + (N + 1) \in N + 2 .. N + g + 1 /\ x - L + (N + 1) \in D2
          /\ L + ((x - L + (N + 1)) - (N + 1)) = x
      BY <1>a, <2>2
    <3> QED BY <1>4, <1>6, <3>1
  <2> QED BY <2>1, <2>2
<1>13. ASSUME NEW p \in D2, NEW q \in D2
       PROVE  /\ p < q /\ f2[p] = f2[q] => at2[p] < at2[q]
              /\ f2[p] = "jumbo" /\ f2[q] = "data" =>
                   (p < q <=> es2[at2[p]].message < at2[q])
  <2>1. CASE p \in 1 .. N /\ q \in 1 .. N
    <3>1. at2[p] = at[p] /\ f2[p] = f[p] /\ at2[q] = at[q] /\ f2[q] = f[q]
      BY <1>4, <1>6, <2>1
    <3>2. f[p] = "jumbo" => es2[at[p]] = es[at[p]]
      <4>1. f[p] = "jumbo" => at[p] \in j + 1 .. L
        BY <1>5, <2>1
      <4>2. f[p] = "jumbo" => at[p] \in 1 .. L
        BY <1>a, <4>1
      <4> QED BY <1>2, <4>2
    <3>3. /\ p < q /\ f[p] = f[q] => at[p] < at[q]
          /\ f[p] = "jumbo" /\ f[q] = "data" => (p < q <=> es[at[p]].message < at[q])
      BY <1>5, <2>1
    <3> QED BY <3>1, <3>2, <3>3
  <2>2. CASE p \in 1 .. N /\ q = N + 1
    <3>1. at2[p] = at[p] /\ f2[p] = f[p] /\ at2[q] = n + 1 /\ f2[q] = "data" /\ p < q
      BY <1>3, <1>4, <1>6, <2>2
    <3>2. f[p] = "data" => at[p] \in m + 1 .. n
      BY <1>5, <2>2
    <3>3. f[p] = "jumbo" => es2[at[p]].message \in 1 .. n
      <4>1. f[p] = "jumbo" => at[p] \in j + 1 .. L
        BY <1>5, <2>2
      <4>2. f[p] = "jumbo" => at[p] \in 1 .. L
        BY <1>a, <4>1
      <4>3. f[p] = "jumbo" => es2[at[p]] = es[at[p]]
        BY <1>2, <4>2
      <4> QED BY <1>3, <4>2, <4>3
    <3> QED BY <3>1, <3>2, <3>3
  <2>3. CASE p \in 1 .. N /\ q \in N + 2 .. N + g + 1
    <3>1. at2[p] = at[p] /\ f2[p] = f[p] /\ at2[q] \in L + 1 .. L + g /\ f2[q] = "jumbo"
      BY <1>4, <1>6, <1>9, <2>3
    <3>2. f[p] = "jumbo" => at[p] \in j + 1 .. L
      BY <1>5, <2>3
    <3>3. p < q => f2[p] # f2[q] \/ at2[p] < at2[q]
      BY <1>a, <3>1, <3>2
    <3> QED BY <3>1, <3>3
  <2>4. CASE p = N + 1 /\ q \in 1 .. N
    BY <1>3, <1>4, <2>4
  <2>5. CASE p = N + 1 /\ (q = N + 1 \/ q \in N + 2 .. N + g + 1)
    BY <1>3, <1>4, <2>5
  <2>6. CASE p \in N + 2 .. N + g + 1 /\ q \in 1 .. N
    <3>0. ~(p < q)
      BY <1>a, <2>6
    <3>1. ~(p < q) /\ f2[q] = f[q] /\ at2[q] = at[q] /\ es2[at2[p]].message = n + 1
      BY <1>4, <1>6, <1>9, <2>6, <3>0
    <3>2. f[q] = "data" => at[q] \in m + 1 .. n
      BY <1>5, <2>6
    <3> QED BY <3>1, <3>2
  <2>7. CASE p \in N + 2 .. N + g + 1 /\ q = N + 1
    <3>0. ~(p < q)
      BY <1>a, <2>7
    <3>1. ~(p < q) /\ at2[q] = n + 1 /\ es2[at2[p]].message = n + 1
          /\ f2[p] = "jumbo" /\ f2[q] = "data"
      BY <1>4, <1>6, <1>9, <2>7, <3>0
    <3> QED BY <3>1
  <2>8. CASE p \in N + 2 .. N + g + 1 /\ q \in N + 2 .. N + g + 1
    <3>1. f2[q] = "jumbo" /\ at2[p] = L + (p - (N + 1)) /\ at2[q] = L + (q - (N + 1))
      BY <1>4, <1>6, <2>8
    <3> QED BY SMTT(30), <1>1, <1>3, <3>1
  <2> QED BY <1>7, <2>1, <2>2, <2>3, <2>4, <2>5, <2>6, <2>7, <2>8
<1>14. Len(f2) = N + g + 1 /\ at2 \in [1 .. Len(f2) -> Nat] /\ D2 = 1 .. Len(f2)
  BY <1>4, <1>8
<1> HIDE DEF D2
<1>15. Labelled(f2, at2, m, n + 1, j, es2)
  BY <1>2, <1>4, <1>10, <1>11, <1>12, <1>13, <1>14 DEF Labelled
<1> QED BY <1>14, <1>15

----------------------------------------------------------------------------
(* The messages of the batches that were issued.                           *)
LEMMA Quotient ==
  ASSUME NEW n \in Nat \ {0}, NEW x \in Int, NEW r \in 0 .. n - 1
  PROVE  (n * x + r) \div n = x /\ (n * x + r) % n = r
<1> DEFINE a == n * x + r
<1>1. a \in Int /\ n * x \in Int
  OBVIOUS
<1>2. a = n * (a \div n) + (a % n) /\ (a % n) \in 0 .. n - 1 /\ (a \div n) \in Int
  BY <1>1, Euclid, Zenon
<1> DEFINE y == a \div n
           s == a % n
<1>3. n * x + r = n * y + s /\ s \in 0 .. n - 1 /\ y \in Int
  BY <1>2
<1> HIDE DEF y, s, a
<1>4. r = s
  BY <1>3, EuclidUnique
<1>5. x = y
  <2>1. n * x = n * y
    <3>1. n * y \in Int
      BY <1>3
    <3> QED BY <1>1, <1>3, <1>4, <3>1
  <2>2. ~(x < y)
    BY <1>3, <2>1, MulLess
  <2>3. ~(y < x)
    BY <1>3, <2>1, MulLess
  <2> QED BY <1>3, <2>2, <2>3
<1> QED BY <1>4, <1>5 DEF y, s, a

LEMMA QuotientBelow ==
  ASSUME NEW n \in Nat \ {0}, NEW a \in Nat, NEW q \in Nat, a < n * q
  PROVE  (a \div n) \in 0 .. q - 1
<1>1. a = n * (a \div n) + (a % n) /\ (a % n) \in 0 .. n - 1 /\ (a \div n) \in Int
  BY Euclid
<1> DEFINE y == a \div n
           s == a % n
<1>2. a = n * y + s /\ s \in 0 .. n - 1 /\ y \in Int
  BY <1>1
<1> HIDE DEF y, s
<1>3. n * y \in Int /\ n * q \in Int /\ n * 0 = 0
  BY <1>2
<1>4. ~(y < 0)
  <2>1. y < 0 => n * y + n <= n * 0
    BY <1>2, MulLess
  <2> QED BY <1>2, <1>3, <2>1
<1>5. ~(q < y)
  <2>1. q < y => n * q + n <= n * y
    BY <1>2, MulLess
  <2> QED BY <1>2, <1>3, <2>1
<1>6. y # q
  BY <1>2, <1>3
<1>7. y \in 0 .. q - 1
  BY <1>2, <1>4, <1>5, <1>6
<1> QED BY <1>7 DEF y

(* Where a message is.                                                     *)
LEMMA InBatchNo ==
  ASSUME TypeOK, NEW m \in 1 .. Issued
  PROVE  /\ ((m - 1) \div BatchSize) + 1 \in 1 .. Len(issued)
         /\ ((m - 1) % BatchSize) + 1 \in 1 .. BatchSize
<1>1. BatchSize \in Nat \ {0} /\ Len(issued) \in Nat /\ Issued = BatchSize * Len(issued)
  BY SMTT(30), Sizes DEF TypeOK, Issued
<1>2. BatchSize * Len(issued) \in Nat
  BY <1>1, IssuedNat
<1>3. m - 1 \in Nat /\ m - 1 < BatchSize * Len(issued)
  BY <1>1, <1>2
<1>4. ((m - 1) \div BatchSize) \in 0 .. Len(issued) - 1
  BY <1>1, <1>3, QuotientBelow
<1>5. ((m - 1) % BatchSize) \in 0 .. BatchSize - 1
  <2>1. m - 1 \in Int
    BY <1>3
  <2> QED BY <1>1, <2>1, Euclid, Zenon
<1> DEFINE y == (m - 1) \div BatchSize
           s == (m - 1) % BatchSize
<1>6. y \in 0 .. Len(issued) - 1 /\ s \in 0 .. BatchSize - 1
  BY <1>4, <1>5
<1> HIDE DEF y, s
<1>7. y + 1 \in 1 .. Len(issued) /\ s + 1 \in 1 .. BatchSize
  BY <1>1, <1>6
<1> QED BY <1>7 DEF y, s

LEMMA IssuedMessages ==
  ASSUME TypeOK, NEW m \in 1 .. Issued
  PROVE  IsMessage(Message(m))
<1>1. BatchOf(m) \in Batches
  <2>1. ((m - 1) \div BatchSize) + 1 \in 1 .. Len(issued)
    BY InBatchNo
  <2> QED BY SMTT(30), <2>1 DEF BatchOf, TypeOK
<1>2. ((m - 1) % BatchSize) + 1 \in 1 .. BatchSize
  BY InBatchNo
<1> QED BY <1>1, <1>2, MessagesTyped DEF Message

(* Message m when is holds the batches issued.                             *)
MessageIn(is, m) == is[((m - 1) \div BatchSize) + 1].messages[((m - 1) % BatchSize) + 1]

LEMMA NewMessages ==
  ASSUME TypeOK, NEW b \in Batches
  PROVE  /\ \A m \in 1 .. Issued : MessageIn(Append(issued, b), m) = Message(m)
         /\ \A i \in 1 .. BatchSize :
              MessageIn(Append(issued, b), Issued + i) = b.messages[i]
<1>1. BatchSize \in Nat \ {0} /\ Len(issued) \in Nat /\ Issued = BatchSize * Len(issued)
  BY Sizes DEF TypeOK, Issued
<1>2. ASSUME NEW m \in 1 .. Issued PROVE MessageIn(Append(issued, b), m) = Message(m)
  <2> DEFINE k == ((m - 1) \div BatchSize) + 1
  <2>1. k \in 1 .. Len(issued)
    BY InBatchNo
  <2> HIDE DEF k
  <2>2. Append(issued, b)[k] = issued[k]
    BY <2>1 DEF TypeOK
  <2> QED BY <2>2 DEF k, MessageIn, Message, BatchOf
<1>3. ASSUME NEW i \in 1 .. BatchSize
      PROVE  MessageIn(Append(issued, b), Issued + i) = b.messages[i]
  <2> DEFINE L == Len(issued)
             r == i - 1
  <2>1. r \in 0 .. BatchSize - 1 /\ L \in Int
    BY <1>1
  <2>2. (Issued + i) - 1 = BatchSize * L + r
    <3>1. BatchSize * L \in Nat
      BY <1>1, IssuedNat
    <3> QED BY <1>1, <3>1
  <2> HIDE DEF r, L
  <2>3. (BatchSize * L + r) \div BatchSize = L /\ (BatchSize * L + r) % BatchSize = r
    BY <1>1, <2>1, Quotient
  <2>4. /\ (((Issued + i) - 1) \div BatchSize) + 1 = L + 1
        /\ (((Issued + i) - 1) % BatchSize) + 1 = r + 1
    BY <2>2, <2>3, Zenon
  <2>5. MessageIn(Append(issued, b), Issued + i) = Append(issued, b)[L + 1].messages[r + 1]
    <3> DEFINE x == (((Issued + i) - 1) \div BatchSize) + 1
               y == (((Issued + i) - 1) % BatchSize) + 1
    <3>1. x = L + 1 /\ y = r + 1
      BY <2>4, Zenon
    <3>2. MessageIn(Append(issued, b), Issued + i) = Append(issued, b)[x].messages[y]
      BY Zenon DEF MessageIn
    <3> HIDE DEF x, y
    <3> QED BY <3>1, <3>2, Zenon
  <2>6. Append(issued, b)[L + 1] = b
    BY DEF TypeOK, L
  <2>7. r + 1 = i
    BY <1>1 DEF r
  <2> QED BY <2>5, <2>6, <2>7
<1> QED BY <1>2, <1>3

(* A batch is issued.                                                      *)
LEMMA IssueOrder ==
  ASSUME TypeOK, LsoPlace, DmaOrder, NEW b \in Batches, IssueBatch(b)
  PROVE  /\ Entries(lso_entries', Issued', LsoMessages')
         /\ \E at \in [1 .. Len(dma_fifo') -> Nat] :
              Labelled(dma_fifo', at, data_done, Issued', jumbo_done, lso_entries')
         /\ Len(lso_entries) <= Len(lso_entries')
         /\ \A k \in 1 .. Len(lso_entries) : lso_entries'[k] = lso_entries[k]
         /\ \A k \in Len(lso_entries) + 1 .. Len(lso_entries') :
              lso_entries'[k].message \in Nat /\ lso_entries'[k].message > Issued
<1> DEFINE N == Issued
           B == BatchSize
           msg(i) == b.messages[i]
           ds == [i \in 1 .. B |-> Dmas(msg(i))]
           es == [i \in 1 .. B |-> EntriesOf(N + i, msg(i))]
           LL == Len(lso_entries)
           lsos(i) == LsoMessages \cup {N + k : k \in {x \in 1 .. i : IsLso(msg(x))}}
<1>1. /\ B \in Nat \ {0} /\ N \in Nat /\ Issued' = N + B
      /\ dma_fifo' = dma_fifo \o FlattenSeq(ds)
      /\ lso_entries' = lso_entries \o FlattenSeq(es)
      /\ issued' = Append(issued, b)
  <2>1. /\ issued' = Append(issued, b)
        /\ dma_fifo' = dma_fifo \o FlattenSeq(ds)
        /\ lso_entries' = lso_entries \o FlattenSeq(es)
    BY DEF IssueBatch
  <2>2. Len(issued') = Len(issued) + 1 /\ Len(issued) \in Nat
    BY <2>1 DEF TypeOK
  <2>3. Issued' = N + B
    BY <2>2, Sizes DEF Issued
  <2> QED BY <2>1, <2>3, Sizes, IssuedNat
<1>2. \A i \in 1 .. B : IsMessage(msg(i))
  BY MessagesTyped
<1>3. ds \in [1 .. B -> Seq({"data", "jumbo"})]
  <2>1. ASSUME NEW i \in 1 .. B PROVE Dmas(msg(i)) \in Seq({"data", "jumbo"})
    <3>1. IsMessage(msg(i)) /\ 0 \in Nat
      BY <1>2
    <3> QED BY <3>1, MessageShape
  <2> QED BY <2>1
<1>4. es \in [1 .. B -> Seq(Entry)]
  <2>1. ASSUME NEW i \in 1 .. B PROVE EntriesOf(N + i, msg(i)) \in Seq(Entry)
    <3>1. IsMessage(msg(i)) /\ N + i \in Nat
      BY <1>1, <1>2
    <3> QED BY <3>1, MessageShape
  <2> QED BY <2>1
<1>5. \A i \in 1 .. B : ds[i] = Dmas(msg(i)) /\ es[i] = EntriesOf(N + i, msg(i))
  OBVIOUS
<1>6. PICK at0 \in [1 .. Len(dma_fifo) -> Nat] :
        Labelled(dma_fifo, at0, data_done, N, jumbo_done, lso_entries)
  BY DEF DmaOrder
<1>7. /\ dma_fifo \in Seq({"data", "jumbo"}) /\ lso_entries \in Seq(Entry)
      /\ Entries(lso_entries, N, LsoMessages) /\ LL \in Nat
      /\ jumbo_done \in Nat /\ jumbo_done <= LL /\ data_done \in Nat /\ data_done <= N
  <2>1. dma_fifo \in Seq({"data", "jumbo"})
    BY <1>6 DEF Labelled
  <2>2. Entries(lso_entries, N, LsoMessages)
    BY DEF LsoPlace
  <2>3. lso_entries \in Seq(Entry)
    BY <2>2 DEF Entries, Entry
  <2>4. jumbo_done \in Nat /\ jumbo_done <= LL /\ data_done \in Nat /\ data_done <= N
    BY DEF TypeOK, DmaOrder
  <2> QED BY <2>1, <2>2, <2>3, <2>4
<1> HIDE DEF N, B, msg, ds, es, LL
<1>8. PICK F \in [0 .. B -> Seq({"data", "jumbo"})] :
        /\ F[0] = dma_fifo /\ F[B] = Cat(dma_fifo, FlattenSeq(ds))
        /\ \A i \in 1 .. B : F[i] = Cat(F[i - 1], ds[i])
  <2>1. \E f \in [0 .. B -> Seq({"data", "jumbo"})] : Builds(f, dma_fifo, ds, B)
    BY <1>1, <1>3, <1>7, Appended, Zenon
  <2> QED BY <2>1 DEF Builds
<1>9. PICK G \in [0 .. B -> Seq(Entry)] :
        /\ G[0] = lso_entries /\ G[B] = Cat(lso_entries, FlattenSeq(es))
        /\ \A i \in 1 .. B : G[i] = Cat(G[i - 1], es[i])
  <2>1. \E f \in [0 .. B -> Seq(Entry)] : Builds(f, lso_entries, es, B)
    BY <1>1, <1>4, <1>7, Appended, Zenon
  <2> QED BY <2>1 DEF Builds
<1> DEFINE Ordered(i) == \E at \in [1 .. Len(F[i]) -> Nat] :
                           Labelled(F[i], at, data_done, N + i, jumbo_done, G[i])
           After(i) == /\ LL <= Len(G[i])
                       /\ \A k \in 1 .. LL : G[i][k] = lso_entries[k]
                       /\ \A k \in LL + 1 .. Len(G[i]) :
                            G[i][k].message \in Nat /\ G[i][k].message > N
           Fine(i) == Entries(G[i], N + i, lsos(i)) /\ Ordered(i) /\ After(i)
           T == {i \in 0 .. B : Fine(i)}
<1>10. 0 \in T
  <2>1. lsos(0) = LsoMessages
    OBVIOUS
  <2>2. N + 0 = N
    BY <1>1
  <2>3. After(0)
    BY <1>7, <1>9 DEF LL
  <2>4. Ordered(0)
    BY <1>6, <1>8, <1>9, <2>2
  <2>5. Entries(G[0], N + 0, lsos(0))
    BY <1>7, <1>9, <2>1, <2>2
  <2> QED BY SMTT(30), <1>1, <2>3, <2>4, <2>5
<1>11. ASSUME NEW i \in 1 .. B, i - 1 \in T PROVE i \in T
  <2> DEFINE n == N + (i - 1)
             m == msg(i)
  <2>1. /\ Entries(G[i - 1], n, lsos(i - 1)) /\ Ordered(i - 1) /\ After(i - 1)
    BY <1>11
  <2>2. PICK at \in [1 .. Len(F[i - 1]) -> Nat] :
          Labelled(F[i - 1], at, data_done, n, jumbo_done, G[i - 1])
    BY <2>1
  <2>3. /\ n \in Nat /\ n + 1 = N + i /\ data_done <= n /\ n >= N
        /\ IsMessage(m) /\ i - 1 \in 0 .. B /\ i \in 0 .. B
    BY SMTT(30), <1>1, <1>2, <1>7
  <2> HIDE DEF n, m, Ordered, After, lsos
  <2>4. F[i] = Cat(F[i - 1], Dmas(m)) /\ G[i] = Cat(G[i - 1], EntriesOf(n + 1, m))
    BY <1>5, <1>8, <1>9, <2>3 DEF m
  <2>5. LL <= Len(G[i - 1]) /\ jumbo_done <= Len(G[i - 1]) /\ Len(G[i - 1]) \in Nat
    <3>1. G[i - 1] \in Seq(Entry)
      BY <2>3
    <3>2. Len(G[i - 1]) \in Nat
      BY <3>1
    <3> QED BY <1>7, <2>1, <3>2 DEF After
  <2>6. /\ Entries(G[i], n + 1, IF IsLso(m) THEN lsos(i - 1) \cup {n + 1} ELSE lsos(i - 1))
        /\ Extends(G[i - 1], G[i], n + 1, SegmentsOf(m))
    BY <2>1, <2>3, <2>4, OneMoreMessage, Zenon
  <2>7. lsos(i) = IF IsLso(m) THEN lsos(i - 1) \cup {n + 1} ELSE lsos(i - 1)
    <3>1. 1 .. i = (1 .. i - 1) \cup {i}
      BY <2>3
    <3>2. {x \in 1 .. i : IsLso(msg(x))} =
            IF IsLso(m) THEN {x \in 1 .. i - 1 : IsLso(msg(x))} \cup {i}
            ELSE {x \in 1 .. i - 1 : IsLso(msg(x))}
      BY <3>1 DEF m
    <3> QED BY <2>3, <3>2 DEF lsos
  <2>8. \E at2 \in [1 .. Len(F[i]) -> Nat] :
          Labelled(F[i], at2, data_done, n + 1, jumbo_done, G[i])
    BY <1>7, <2>1, <2>2, <2>3, <2>4, <2>5, OneMoreLabelled, Zenon
  <2>9. After(i)
    <3>1. SegmentsOf(m) \in Nat
      BY <2>3, MessageShape
    <3>2. /\ Len(G[i]) = Len(G[i - 1]) + SegmentsOf(m)
          /\ \A k \in 1 .. Len(G[i - 1]) : G[i][k] = G[i - 1][k]
          /\ \A k \in Len(G[i - 1]) + 1 .. Len(G[i]) : G[i][k].message = n + 1
      BY <2>6 DEF Extends
    <3>3. LL <= Len(G[i])
      BY <1>7, <2>5, <3>1, <3>2
    <3>4. \A k \in 1 .. LL : k \in 1 .. Len(G[i - 1])
      BY <1>7, <2>5
    <3>5. ASSUME NEW k \in LL + 1 .. Len(G[i])
          PROVE  G[i][k].message \in Nat /\ G[i][k].message > N
      <4>1. CASE k \in 1 .. Len(G[i - 1])
        <5>1. k \in LL + 1 .. Len(G[i - 1])
          BY <4>1
        <5> QED BY <2>1, <3>2, <4>1, <5>1 DEF After
      <4>2. CASE k \in Len(G[i - 1]) + 1 .. Len(G[i])
        <5>1. G[i][k].message = n + 1
          BY <3>2, <4>2
        <5>2. n + 1 \in Nat /\ n + 1 > N
          BY <1>1, <2>3
        <5> QED BY <5>1, <5>2
      <4>3. k \in 1 .. Len(G[i - 1]) \/ k \in Len(G[i - 1]) + 1 .. Len(G[i])
        BY <1>7, <2>5
      <4> QED BY <4>1, <4>2, <4>3
    <3> QED BY <2>1, <3>2, <3>3, <3>4, <3>5 DEF After
  <2> QED BY <2>3, <2>6, <2>7, <2>8, <2>9 DEF Ordered
<1>12. Fine(B)
  <2> HIDE DEF Fine
  <2>1. B \in T
    BY <1>1, <1>10, <1>11, UpTo
  <2> QED BY <2>1
<1>13. F[B] = dma_fifo' /\ G[B] = lso_entries' /\ N + B = Issued'
  BY <1>1, <1>8, <1>9 DEF Cat
<1>14. lsos(B) = LsoMessages'
  <2>1. \A m \in 1 .. N + B : Message(m)' = MessageIn(Append(issued, b), m)
    BY <1>1 DEF Message, BatchOf, MessageIn
  <2>2. /\ \A m \in 1 .. N : MessageIn(Append(issued, b), m) = Message(m)
        /\ \A i \in 1 .. B : MessageIn(Append(issued, b), N + i) = msg(i)
    BY NewMessages DEF N, B, msg
  <2>3. LsoMessages' = {m \in 1 .. N + B : IsLso(MessageIn(Append(issued, b), m))}
    <3>1. LsoMessages' = {m \in 1 .. N + B : IsLso(Message(m)')}
      BY <1>1 DEF LsoMessages, IsLso
    <3> QED BY <2>1, <3>1
  <2>4. LsoMessages = {m \in 1 .. N : IsLso(Message(m))}
    BY DEF LsoMessages, N
  <2>5. ASSUME NEW m \in lsos(B) PROVE m \in LsoMessages'
    <3>1. CASE m \in LsoMessages
      <4>1. m \in 1 .. N /\ m \in 1 .. N + B
        BY <1>1, <2>4, <3>1
      <4> QED BY <2>2, <2>3, <2>4, <3>1, <4>1
    <3>2. CASE m \notin LsoMessages
      <4>1. PICK k \in {x \in 1 .. B : IsLso(msg(x))} : m = N + k
        BY <3>2
      <4>2. N + k \in 1 .. N + B
        BY <1>1, <4>1
      <4> QED BY <2>2, <2>3, <4>1, <4>2
    <3> QED BY <3>1, <3>2
  <2>6. ASSUME NEW m \in LsoMessages' PROVE m \in lsos(B)
    <3>1. m \in 1 .. N + B /\ IsLso(MessageIn(Append(issued, b), m))
      BY <2>3
    <3>2. CASE m \in 1 .. N
      BY <2>2, <2>4, <3>1, <3>2
    <3>3. CASE m \notin 1 .. N
      <4>1. m - N \in 1 .. B /\ N + (m - N) = m
        BY <1>1, <3>1, <3>3
      <4>2. IsLso(msg(m - N))
        BY <2>2, <3>1, <4>1
      <4> QED BY <4>1, <4>2
    <3> QED BY <3>2, <3>3
  <2> QED BY <2>5, <2>6
<1> HIDE DEF lsos
<1> QED BY <1>12, <1>13, <1>14 DEF LL, N

----------------------------------------------------------------------------
(* The LSO ring, the DMAs under way, and the wait for a segment's DMA.     *)
Enqueued ==
  /\ out \in Seq([packet : Seq(Nat), paced_by : Nat])
  /\ SegmentsAreDone

IInv == CInv /\ LsoPlace /\ DmaOrder /\ Waited /\ Enqueued

LEMMA SameMessages ==
  ASSUME UNCHANGED issued
  PROVE  Issued' = Issued /\ LsoMessages' = LsoMessages
BY DEF Issued, LsoMessages, Message, BatchOf, IsLso

(* The message that is processed has arrived, so its DMA has completed.    *)
LEMMA AtHead ==
  ASSUME CInv, data_done <= Issued, pc \in {"process"} \cup LsoPlaces
  PROVE  /\ Head(batch_in) = Processed + 1 /\ Processed \in Nat
         /\ Processed + 1 <= data_done /\ Processed + 1 \in 1 .. Issued
         /\ Processed + 1 <= Asked
<1>1. batch_in # <<>> /\ want = 0
  BY DEF CInv, Fetching
<1>2. /\ batch_in \in Seq(Nat \ {0}) /\ Len(batch_in) \in Nat /\ Len(batch_in) > 0
      /\ Processed = taken - Len(batch_in) /\ Head(batch_in) = batch_in[1]
      /\ 1 \in 1 .. Len(batch_in)
  BY <1>1, Places2
<1>3. batch_in[1] = Processed + 1 /\ batch_in[1] \in Nat \ {0}
  BY <1>2 DEF CInv, Fetching
<1>4. PICK r, s, c \in 0 .. Issued : Stands(r, s, c)
  BY DEF CInv, Numbers
<1>5. taken \in Nat /\ Asked = taken /\ Asked <= c /\ c <= data_refl /\ c \in Nat
  BY <1>1, <1>4, Facts DEF Stands
<1>6. /\ data_refl \in Nat /\ data_done \in Nat /\ data_refl <= data_done
      /\ Issued \in Nat
  BY Facts
<1>7. Processed \in Nat
  BY <1>2, <1>3, <1>5
<1> QED BY <1>2, <1>3, <1>5, <1>6, <1>7

(* What is issued, put and taken stays, and so does the place in it.       *)
LEMMA PlaceKept ==
  ASSUME LsoPlace, UNCHANGED <<issued, lso_entries, lso_taken>>, Processed' = Processed,
         lso_put \in Nat, lso_put <= lso_put', lso_put' <= Len(lso_entries), lso_put' \in Nat,
         lso_taken \in Nat,
         \/ pc' \notin LsoPlaces /\ pc \notin LsoPlaces
         \/ pc' = pc
         \/ pc = "jumbo" /\ pc' = "segment"
  PROVE  LsoPlace'
<1>1. Issued' = Issued /\ LsoMessages' = LsoMessages
  BY SameMessages
<1>2. Entries(lso_entries, Issued, LsoMessages)' /\ lso_put' <= Len(lso_entries')
  <2>1. Entries(lso_entries, Issued, LsoMessages)
    BY DEF LsoPlace
  <2> QED BY <1>1, <2>1 DEF Entries
<1>3. lso_taken' <= lso_put'
  BY DEF LsoPlace
<1> QED BY <1>2, <1>3 DEF LsoPlace, LsoPlaces

LEMMA IssuePlace ==
  ASSUME CInv, LsoPlace, DmaOrder, NEW b \in Batches, IssueBatch(b)
  PROVE  LsoPlace' /\ DmaOrder'
<1>1. /\ UNCHANGED <<data_done, jumbo_done, jumbo_refl, lso_put, lso_taken, taken, pc, batch_in>>
      /\ Processed' = Processed
  BY DEF IssueBatch, rings, context, Processed
<1>2. /\ Entries(lso_entries', Issued', LsoMessages')
      /\ \E at \in [1 .. Len(dma_fifo') -> Nat] :
           Labelled(dma_fifo', at, data_done, Issued', jumbo_done, lso_entries')
      /\ Len(lso_entries) <= Len(lso_entries')
      /\ \A k \in 1 .. Len(lso_entries) : lso_entries'[k] = lso_entries[k]
      /\ \A k \in Len(lso_entries) + 1 .. Len(lso_entries') :
           lso_entries'[k].message \in Nat /\ lso_entries'[k].message > Issued
  <2>1. TypeOK
    BY DEF CInv
  <2> QED BY <2>1, IssueOrder
<1>3. /\ Issued \in Nat /\ Issued' = Issued + BatchSize /\ data_done <= Issued
      /\ data_done \in Nat /\ BatchSize \in Nat
  <2>1. data_done <= Issued
    BY DEF DmaOrder
  <2> QED BY <2>1, IssueCInv, Facts, Sizes
<1>4. /\ Len(lso_entries) \in Nat /\ Len(lso_entries') \in Nat
      /\ lso_put \in Nat /\ lso_taken \in Nat /\ lso_put <= Len(lso_entries)
      /\ lso_taken <= lso_put /\ jumbo_done \in Nat /\ jumbo_done <= Len(lso_entries)
  BY SMTT(30), <1>2 DEF LsoPlace, DmaOrder, CInv, TypeOK, Entries
<1>5. Processed \in Int /\ Processed <= Issued
  <2>1. PICK r, s, c \in 0 .. Issued : Stands(r, s, c)
    BY DEF CInv, Numbers
  <2>2. taken <= c /\ taken \in Nat /\ c \in 0 .. Issued
    BY <2>1, Facts DEF Stands
  <2>3. Processed = taken - Len(batch_in) /\ Len(batch_in) \in Nat
    BY Places2
  <2> QED BY <1>3, <2>2, <2>3
<1>6. ASSUME pc \notin LsoPlaces, NEW k \in 1 .. Len(lso_entries')
      PROVE  k <= lso_taken <=> lso_entries'[k].message <= Processed
  <2>1. CASE k \in 1 .. Len(lso_entries)
    BY <1>2, <1>6, <2>1 DEF LsoPlace
  <2>2. CASE k \notin 1 .. Len(lso_entries)
    <3>1. k \in Len(lso_entries) + 1 .. Len(lso_entries')
      BY <1>4, <2>2
    <3>2. lso_entries'[k].message \in Nat /\ lso_entries'[k].message > Issued
      BY <1>2, <3>1
    <3>3. ~(k <= lso_taken)
      BY <1>4, <3>1
    <3>4. ~(lso_entries'[k].message <= Processed)
      BY <1>3, <1>5, <3>2
    <3> QED BY <3>3, <3>4
  <2> QED BY <2>1, <2>2
<1>7. pc = "lso_get" => /\ lso_taken + 1 \in 1 .. Len(lso_entries')
                        /\ lso_entries'[lso_taken + 1].message = Processed + 1
  <2> SUFFICES ASSUME pc = "lso_get"
               PROVE  /\ lso_taken + 1 \in 1 .. Len(lso_entries')
                      /\ lso_entries'[lso_taken + 1].message = Processed + 1
    OBVIOUS
  <2>1. /\ lso_taken + 1 \in 1 .. Len(lso_entries)
        /\ lso_entries[lso_taken + 1].message = Processed + 1
    BY DEF LsoPlace
  <2>2. lso_taken + 1 \in 1 .. Len(lso_entries')
    BY <1>2, <1>4, <2>1
  <2> QED BY <1>2, <2>1, <2>2
<1>8. pc \in {"jumbo", "segment"} => /\ lso_taken \in 1 .. Len(lso_entries')
                                     /\ lso_entries'[lso_taken].message = Processed + 1
  <2> SUFFICES ASSUME pc \in {"jumbo", "segment"}
               PROVE  /\ lso_taken \in 1 .. Len(lso_entries')
                      /\ lso_entries'[lso_taken].message = Processed + 1
    OBVIOUS
  <2>1. /\ lso_taken \in 1 .. Len(lso_entries)
        /\ lso_entries[lso_taken].message = Processed + 1
    BY DEF LsoPlace
  <2>2. lso_taken \in 1 .. Len(lso_entries')
    BY <1>2, <1>4, <2>1
  <2> QED BY <1>2, <2>1, <2>2
<1>9. LsoPlace'
  <2>1. lso_put' <= Len(lso_entries') /\ lso_taken' <= lso_put'
    BY <1>1, <1>2, <1>4
  <2>2. Entries(lso_entries, Issued, LsoMessages)'
    BY <1>2
  <2> QED BY <1>1, <1>6, <1>7, <1>8, <2>1, <2>2 DEF LsoPlace
<1>10. ASSUME NEW k \in jumbo_done + 1 .. Len(lso_entries')
       PROVE  data_done <= lso_entries'[k].message
  <2>1. CASE k \in 1 .. Len(lso_entries)
    <3>1. k \in jumbo_done + 1 .. Len(lso_entries)
      BY <2>1
    <3> QED BY <1>2, <2>1, <3>1 DEF DmaOrder
  <2>2. CASE k \notin 1 .. Len(lso_entries)
    <3>1. k \in Len(lso_entries) + 1 .. Len(lso_entries')
      BY <1>4, <2>2
    <3>2. lso_entries'[k].message \in Nat /\ lso_entries'[k].message > Issued
      BY <1>2, <3>1
    <3> QED BY <1>3, <3>2
  <2> QED BY <2>1, <2>2
<1>11. DmaOrder'
  <2>1. data_done' <= Issued' /\ jumbo_done' <= Len(lso_entries')
    BY <1>1, <1>2, <1>3, <1>4
  <2>2. jumbo_refl' <= jumbo_done' /\ jumbo_done' <= jumbo_refl' + MaxJumboLag
    BY <1>1 DEF DmaOrder
  <2> QED BY <1>1, <1>2, <1>10, <2>1, <2>2 DEF DmaOrder
<1> QED BY <1>9, <1>11

LEMMA EntryMessages ==
  ASSUME LsoPlace
  PROVE  /\ Len(lso_entries) \in Nat
         /\ \A k \in 1 .. Len(lso_entries) : lso_entries[k].message \in Nat
<1>1. lso_entries \in Seq(Entry)
  BY DEF LsoPlace, Entries, Entry
<1>2. \A k \in 1 .. Len(lso_entries) : lso_entries[k] \in Entry
  BY <1>1
<1>3. \A x \in Entry : x.message \in Nat
  BY DEF Entry
<1>4. Len(lso_entries) \in Nat
  BY <1>1
<1> QED BY <1>2, <1>3, <1>4

(* A message is finished when none of its entries is left.                 *)
LEMMA FinishPlace ==
  ASSUME CInv, LsoPlace, DmaOrder, ProcessPacket \/ ProcessNone
  PROVE  LsoPlace'
<1>1. /\ pc = "process" /\ pc' \notin LsoPlaces /\ FinishMessage
      /\ UNCHANGED <<issued, lso_entries, lso_put, lso_taken, taken>>
      /\ ~IsLso(Message(Head(batch_in)))
  BY DEF ProcessPacket, ProcessNone, FinishMessage, LsoPlaces, IsLso, issuer, rings
<1>2. Processed' = Processed + 1
  <2>1. UNCHANGED <<issued, data_done, jumbo_done, data_refl, jumbo_refl, lso_put,
                    served_refl, counters, rings, mode, num_avail, partial_served>>
    BY DEF ProcessPacket, ProcessNone, issuer
  <2> QED BY <1>1, <2>1, FinishCInv
<1>3. /\ Head(batch_in) = Processed + 1 /\ Processed \in Nat
      /\ Processed + 1 \in 1 .. Issued
  <2>1. data_done <= Issued
    BY DEF DmaOrder
  <2> QED BY <1>1, <2>1, AtHead
<1>4. Issued' = Issued /\ LsoMessages' = LsoMessages
  BY <1>1, SameMessages
<1>5. Processed + 1 \notin LsoMessages
  BY <1>1, <1>3 DEF LsoMessages
<1>6. Entries(lso_entries, Issued, LsoMessages) /\ pc \notin LsoPlaces
  BY <1>1 DEF LsoPlace, LsoPlaces
<1>7. \A k \in 1 .. Len(lso_entries) :
        k <= lso_taken <=> lso_entries[k].message <= Processed + 1
  <2> SUFFICES ASSUME NEW k \in 1 .. Len(lso_entries)
               PROVE  k <= lso_taken <=> lso_entries[k].message <= Processed + 1
    OBVIOUS
  <2>1. lso_entries[k].message \in LsoMessages
    BY <1>6 DEF Entries
  <2>2. lso_entries[k].message # Processed + 1 /\ lso_entries[k].message \in Nat
    BY <1>5, <2>1, IssuedNat DEF LsoMessages, CInv
  <2>3. k <= lso_taken <=> lso_entries[k].message <= Processed
    BY <1>6 DEF LsoPlace
  <2> QED BY <1>3, <2>2, <2>3
<1>8. lso_put' <= Len(lso_entries') /\ lso_taken' <= lso_put'
  BY <1>1 DEF LsoPlace
<1>9. Entries(lso_entries, Issued, LsoMessages)'
  BY <1>1, <1>4, <1>6 DEF Entries
<1> QED BY <1>1, <1>2, <1>7, <1>8, <1>9 DEF LsoPlace, LsoPlaces

LEMMA ProcessLsoPlace ==
  ASSUME CInv, LsoPlace, DmaOrder, ProcessLso
  PROVE  LsoPlace'
<1>1. /\ pc = "process" /\ pc' = "lso_get"
      /\ UNCHANGED <<issued, lso_entries, lso_put, lso_taken, taken, batch_in>>
      /\ IsLso(Message(Head(batch_in)))
  BY DEF ProcessLso, issuer, rings
<1>2. /\ Head(batch_in) = Processed + 1 /\ Processed \in Nat
      /\ Processed + 1 \in 1 .. Issued
  <2>1. data_done <= Issued
    BY DEF DmaOrder
  <2> QED BY <1>1, <2>1, AtHead
<1>3. Issued' = Issued /\ LsoMessages' = LsoMessages /\ Processed' = Processed
  BY <1>1, SameMessages DEF Processed
<1>4. Entries(lso_entries, Issued, LsoMessages) /\ pc \notin LsoPlaces
  BY <1>1 DEF LsoPlace, LsoPlaces
<1>5. Processed + 1 \in LsoMessages
  BY <1>1, <1>2 DEF LsoMessages
<1>6. PICK k \in 1 .. Len(lso_entries) : lso_entries[k].message = Processed + 1
  BY <1>4, <1>5 DEF Entries
<1>7. /\ lso_taken \in Nat /\ Len(lso_entries) \in Nat
      /\ \A i \in 1 .. Len(lso_entries) :
           /\ lso_entries[i].message \in Nat
           /\ i <= lso_taken <=> lso_entries[i].message <= Processed
  <2>1. lso_taken \in Nat
    BY DEF CInv, TypeOK
  <2> QED BY <1>4, <2>1, EntryMessages DEF LsoPlace
<1>8. ~(k <= lso_taken)
  BY <1>2, <1>6, <1>7
<1>9. lso_taken + 1 \in 1 .. Len(lso_entries) /\ lso_taken + 1 <= k
  BY <1>7, <1>8
<1>10. lso_entries[lso_taken + 1].message <= lso_entries[k].message
  <2>1. CASE lso_taken + 1 = k
    BY <1>2, <1>6, <2>1
  <2>2. CASE lso_taken + 1 # k
    <3>1. lso_taken + 1 < k
      BY <1>7, <1>9, <2>2
    <3> QED BY <1>4, <1>9, <3>1 DEF Entries
  <2> QED BY <2>1, <2>2
<1>11. lso_entries[lso_taken + 1].message = Processed + 1
  <2>1. ~(lso_taken + 1 <= lso_taken)
    BY <1>7
  <2>2. ~(lso_entries[lso_taken + 1].message <= Processed)
    BY <1>7, <1>9, <2>1
  <2>3. lso_entries[lso_taken + 1].message \in Nat
    BY <1>7, <1>9
  <2> QED BY <1>2, <1>6, <1>10, <2>2, <2>3
<1>12. lso_put' <= Len(lso_entries') /\ lso_taken' <= lso_put'
  BY <1>1 DEF LsoPlace
<1>13. Entries(lso_entries, Issued, LsoMessages)'
  BY <1>1, <1>3, <1>4 DEF Entries
<1> QED BY <1>1, <1>3, <1>9, <1>11, <1>12, <1>13 DEF LsoPlace, LsoPlaces

LEMMA LsoGetPlace ==
  ASSUME CInv, LsoPlace, LsoGet
  PROVE  LsoPlace'
<1>1. /\ pc = "lso_get" /\ pc' \in {"jumbo", "segment"}
      /\ lso_taken < lso_put /\ lso_taken' = lso_taken + 1
      /\ UNCHANGED <<issued, lso_entries, lso_put, taken, batch_in>>
  BY DEF LsoGet, issuer
<1>2. Issued' = Issued /\ LsoMessages' = LsoMessages /\ Processed' = Processed
  BY <1>1, SameMessages DEF Processed
<1>3. /\ lso_taken + 1 \in 1 .. Len(lso_entries)
      /\ lso_entries[lso_taken + 1].message = Processed + 1
  BY <1>1 DEF LsoPlace
<1>4. lso_put' <= Len(lso_entries') /\ lso_taken' <= lso_put'
  <2>1. lso_taken \in Nat /\ lso_put \in Nat
    BY DEF CInv, TypeOK
  <2> QED BY <1>1, <2>1 DEF LsoPlace
<1>5. Entries(lso_entries, Issued, LsoMessages)'
  BY <1>1, <1>2 DEF LsoPlace, Entries
<1> QED BY <1>1, <1>2, <1>3, <1>4, <1>5 DEF LsoPlace, LsoPlaces

LEMMA SegmentPlace ==
  ASSUME CInv, LsoPlace, DmaOrder, Segment
  PROVE  LsoPlace'
<1> DEFINE e == lso_entries[lso_taken]
<1>1. /\ pc = "segment"
      /\ UNCHANGED <<issued, lso_entries, lso_put, lso_taken, taken>>
      /\ IF e.last THEN FinishMessage ELSE pc' = "lso_get" /\ UNCHANGED batch_in
  BY DEF Segment, LastEntry, issuer, rings
<1>2. Issued' = Issued /\ LsoMessages' = LsoMessages
  BY <1>1, SameMessages
<1>3. /\ Entries(lso_entries, Issued, LsoMessages)
      /\ lso_taken \in 1 .. Len(lso_entries) /\ e.message = Processed + 1
      /\ Len(lso_entries) \in Nat
  BY <1>1 DEF LsoPlace, Entries
<1>4. lso_put' <= Len(lso_entries') /\ lso_taken' <= lso_put'
  BY <1>1 DEF LsoPlace
<1>5. Entries(lso_entries, Issued, LsoMessages)'
  BY <1>1, <1>2, <1>3 DEF Entries
<1>6. CASE e.last
  <2>1. Processed' = Processed + 1 /\ pc' \notin LsoPlaces
    <3>1. UNCHANGED <<issued, data_done, jumbo_done, data_refl, jumbo_refl, lso_put,
                      served_refl, counters, rings, mode, num_avail, partial_served>>
      BY DEF Segment, issuer
    <3> QED BY <1>1, <1>6, <3>1, FinishCInv DEF FinishMessage, LsoPlaces
  <2>2. ASSUME NEW k \in 1 .. Len(lso_entries)
        PROVE  k <= lso_taken <=> lso_entries[k].message <= Processed + 1
    <3>1. CASE k = lso_taken
      <4>1. e.message \in Nat
        BY <1>3, EntryMessages
      <4> QED BY <1>3, <3>1, <4>1
    <3>2. CASE k < lso_taken
      <4>1. lso_entries[k].message <= e.message
        BY <1>3, <3>2 DEF Entries
      <4> QED BY <1>3, <3>2, <4>1
    <3>3. CASE lso_taken < k
      <4>1. e.message < lso_entries[k].message
        <5>1. \A x, y \in 1 .. Len(lso_entries) :
                x < y /\ lso_entries[x].last => lso_entries[x].message < lso_entries[y].message
          BY <1>3 DEF Entries
        <5> QED BY <1>3, <1>6, <3>3, <5>1
      <4>2. lso_entries[k].message \in Nat /\ e.message \in Nat
        BY <1>3, EntryMessages
      <4>3. ~(lso_entries[k].message <= Processed + 1)
        BY <1>3, <4>1, <4>2
      <4>4. ~(k <= lso_taken)
        BY <1>3, <3>3
      <4> QED BY <4>3, <4>4
    <3> QED BY <1>3, <3>1, <3>2, <3>3
  <2> QED BY <1>1, <1>4, <1>5, <2>1, <2>2 DEF LsoPlace, LsoPlaces
<1>7. CASE ~e.last
  <2>1. pc' = "lso_get" /\ Processed' = Processed
    BY <1>1, <1>7 DEF Processed
  <2>2. lso_taken + 1 \in 1 .. Len(lso_entries) /\ lso_entries[lso_taken + 1].message = e.message
    BY <1>3, <1>7 DEF Entries
  <2> QED BY <1>1, <1>3, <1>4, <1>5, <2>1, <2>2 DEF LsoPlace, LsoPlaces
<1> QED BY <1>6, <1>7

(* A DMA completes: it is that of the next message or of the next entry.   *)
LEMMA DmaDoneOrder ==
  ASSUME CInv, LsoPlace, DmaOrder, DmaDone
  PROVE  DmaOrder'
<1>1. PICK at \in [1 .. Len(dma_fifo) -> Nat] :
        Labelled(dma_fifo, at, data_done, Issued, jumbo_done, lso_entries)
  BY DEF DmaOrder
<1> DEFINE N == Len(dma_fifo)
           L == Len(lso_entries)
<1>2. /\ dma_fifo \in Seq({"data", "jumbo"}) /\ N \in Nat /\ N # 0
      /\ Head(dma_fifo) = dma_fifo[1] /\ dma_fifo' = Tail(dma_fifo)
      /\ Issued' = Issued /\ Issued \in Nat
      /\ UNCHANGED <<issued, lso_entries, jumbo_refl>>
      /\ data_done \in Nat /\ jumbo_done \in Nat /\ jumbo_refl \in Nat /\ L \in Nat
      /\ MaxJumboLag \in Nat
  <2>1. dma_fifo \in Seq({"data", "jumbo"})
    BY <1>1 DEF Labelled
  <2>2. L \in Nat
    BY DEF LsoPlace, Entries
  <2>3. Issued' = Issued /\ UNCHANGED <<issued, lso_entries, jumbo_refl>>
        /\ dma_fifo # <<>> /\ dma_fifo' = Tail(dma_fifo)
    BY DEF DmaDone, Issued
  <2>4. data_done \in Nat /\ jumbo_done \in Nat /\ jumbo_refl \in Nat /\ Issued \in Nat
    BY IssuedNat DEF CInv, TypeOK
  <2> QED BY <2>1, <2>2, <2>3, <2>4, Sizes
<1>3. /\ dma_fifo' \in Seq({"data", "jumbo"}) /\ Len(dma_fifo') = N - 1
      /\ \A p \in 1 .. N - 1 : p + 1 \in 1 .. N /\ dma_fifo'[p] = dma_fifo[p + 1]
  BY <1>2
<1>4. /\ \A p \in 1 .. N : dma_fifo[p] \in {"data", "jumbo"} /\ at[p] \in Nat
      /\ \A p \in 1 .. N :
           at[p] \in IF dma_fifo[p] = "data" THEN data_done + 1 .. Issued
                                             ELSE jumbo_done + 1 .. L
      /\ \A x \in data_done + 1 .. Issued :
           \E p \in 1 .. N : dma_fifo[p] = "data" /\ at[p] = x
      /\ \A x \in jumbo_done + 1 .. L : \E p \in 1 .. N : dma_fifo[p] = "jumbo" /\ at[p] = x
      /\ \A p, q \in 1 .. N :
           /\ p < q /\ dma_fifo[p] = dma_fifo[q] => at[p] < at[q]
           /\ dma_fifo[p] = "jumbo" /\ dma_fifo[q] = "data" =>
                (p < q <=> lso_entries[at[p]].message < at[q])
  BY <1>1, <1>2 DEF Labelled
<1>5. \A k \in 1 .. L : lso_entries[k].message \in Nat
  BY EntryMessages
<1>6. \A k \in jumbo_done + 1 .. L : data_done <= lso_entries[k].message
  BY DEF DmaOrder
<1> HIDE DEF N, L
<1> DEFINE at2 == [p \in 1 .. N - 1 |-> at[p + 1]]
<1>7. at2 \in [1 .. N - 1 -> Nat] /\ \A p \in 1 .. N - 1 : at2[p] = at[p + 1]
  BY <1>3, <1>4
<1> HIDE DEF at2
<1>8. 1 \in 1 .. N /\ \A q \in 1 .. N : q = 1 \/ (1 < q /\ q - 1 \in 1 .. N - 1 /\ (q - 1) + 1 = q)
  BY <1>2
<1>9. ASSUME NEW p \in 1 .. N - 1, NEW q \in 1 .. N - 1
      PROVE  /\ p < q /\ dma_fifo'[p] = dma_fifo'[q] => at2[p] < at2[q]
             /\ dma_fifo'[p] = "jumbo" /\ dma_fifo'[q] = "data" =>
                  (p < q <=> lso_entries[at2[p]].message < at2[q])
  <2>1. p + 1 \in 1 .. N /\ q + 1 \in 1 .. N /\ (p < q <=> p + 1 < q + 1)
    BY <1>3
  <2>2. /\ dma_fifo'[p] = dma_fifo[p + 1] /\ dma_fifo'[q] = dma_fifo[q + 1]
        /\ at2[p] = at[p + 1] /\ at2[q] = at[q + 1]
    BY <1>3, <1>7
  <2> DEFINE x == p + 1
             y == q + 1
  <2>3. x \in 1 .. N /\ y \in 1 .. N
    BY <2>1
  <2> HIDE DEF x, y
  <2>4. /\ x < y /\ dma_fifo[x] = dma_fifo[y] => at[x] < at[y]
        /\ dma_fifo[x] = "jumbo" /\ dma_fifo[y] = "data" =>
             (x < y <=> lso_entries[at[x]].message < at[y])
    BY <1>4, <2>3
  <2> QED BY <2>1, <2>2, <2>4 DEF x, y
<1>10. CASE dma_fifo[1] = "data"
  <2>1. data_done' = data_done + 1 /\ jumbo_done' = jumbo_done
    BY <1>2, <1>10 DEF DmaDone
  <2>2. at[1] \in data_done + 1 .. Issued
    BY <1>4, <1>8, <1>10
  <2>3. PICK p \in 1 .. N : dma_fifo[p] = "data" /\ at[p] = data_done + 1
    <3>1. data_done + 1 \in data_done + 1 .. Issued
      BY <1>2, <2>2
    <3> QED BY <1>4, <3>1
  <2>4. at[1] = data_done + 1
    <3>1. CASE p = 1
      BY <2>3, <3>1
    <3>2. CASE p # 1
      <4>1. 1 < p /\ at[1] < at[p]
        BY <1>4, <1>8, <1>10, <2>3, <3>2
      <4> QED BY <1>2, <2>2, <2>3, <4>1
    <3> QED BY <3>1, <3>2
  <2>5. ASSUME NEW q \in 1 .. N - 1
        PROVE  at2[q] \in IF dma_fifo'[q] = "data" THEN data_done + 1 + 1 .. Issued
                                                   ELSE jumbo_done + 1 .. L
    <3>1. q + 1 \in 1 .. N /\ 1 < q + 1 /\ dma_fifo'[q] = dma_fifo[q + 1] /\ at2[q] = at[q + 1]
      BY <1>2, <1>3, <1>7
    <3>2. CASE dma_fifo[q + 1] = "data"
      <4>1. at[1] < at[q + 1] /\ at[q + 1] \in data_done + 1 .. Issued
        BY <1>4, <1>8, <1>10, <3>1, <3>2
      <4> QED BY <1>2, <2>4, <3>1, <3>2, <4>1
    <3>3. CASE dma_fifo[q + 1] # "data"
      BY <1>4, <3>1, <3>3
    <3> QED BY <3>2, <3>3
  <2>6. ASSUME NEW x \in data_done + 1 + 1 .. Issued
        PROVE  \E q \in 1 .. N - 1 : dma_fifo'[q] = "data" /\ at2[q] = x
    <3>1. x \in data_done + 1 .. Issued /\ x # data_done + 1
      BY <1>2
    <3>2. PICK q \in 1 .. N : dma_fifo[q] = "data" /\ at[q] = x
      BY <1>4, <3>1
    <3>3. q - 1 \in 1 .. N - 1 /\ (q - 1) + 1 = q
      BY <1>8, <2>4, <3>1, <3>2
    <3> QED BY <1>3, <1>7, <3>2, <3>3
  <2>7. ASSUME NEW x \in jumbo_done + 1 .. L
        PROVE  \E q \in 1 .. N - 1 : dma_fifo'[q] = "jumbo" /\ at2[q] = x
    <3>2. PICK q \in 1 .. N : dma_fifo[q] = "jumbo" /\ at[q] = x
      BY <1>4
    <3>3. q - 1 \in 1 .. N - 1 /\ (q - 1) + 1 = q
      BY <1>8, <1>10, <3>2
    <3> QED BY <1>3, <1>7, <3>2, <3>3
  <2>8. Labelled(dma_fifo', at2, data_done + 1, Issued, jumbo_done, lso_entries)
    BY <1>3, <1>7, <1>9, <2>5, <2>6, <2>7 DEF Labelled, L
  <2>9. ASSUME NEW k \in jumbo_done + 1 .. L
        PROVE  data_done + 1 <= lso_entries[k].message
    <3>1. PICK q \in 1 .. N : dma_fifo[q] = "jumbo" /\ at[q] = k
      BY <1>4
    <3>2. 1 < q
      BY <1>8, <1>10, <3>1
    <3>3. ~(q < 1) /\ q \in Nat
      BY <3>2
    <3>4. ~(lso_entries[k].message < at[1])
      BY <1>4, <1>8, <1>10, <3>1, <3>3
    <3>5. lso_entries[k].message \in Nat
      BY <1>2, <1>5
    <3> QED BY <1>2, <2>4, <3>4, <3>5
  <2>10. data_done + 1 <= Issued
    BY <1>2, <2>2
  <2>11. \E a \in [1 .. Len(dma_fifo') -> Nat] :
           Labelled(dma_fifo', a, data_done + 1, Issued, jumbo_done, lso_entries)
    BY <1>3, <1>7, <2>8
  <2> QED BY <1>2, <2>1, <2>9, <2>10, <2>11 DEF DmaOrder, L
<1>11. CASE dma_fifo[1] = "jumbo"
  <2>1. /\ data_done' = data_done /\ jumbo_done' = jumbo_done + 1
        /\ jumbo_done - jumbo_refl < MaxJumboLag
    BY <1>2, <1>11 DEF DmaDone
  <2>2. at[1] \in jumbo_done + 1 .. L
    BY <1>4, <1>8, <1>11
  <2>3. PICK p \in 1 .. N : dma_fifo[p] = "jumbo" /\ at[p] = jumbo_done + 1
    <3>1. jumbo_done + 1 \in jumbo_done + 1 .. L
      BY <1>2, <2>2
    <3> QED BY <1>4, <3>1
  <2>4. at[1] = jumbo_done + 1
    <3>1. CASE p = 1
      BY <2>3, <3>1
    <3>2. CASE p # 1
      <4>1. 1 < p /\ at[1] < at[p]
        BY <1>4, <1>8, <1>11, <2>3, <3>2
      <4> QED BY <1>2, <2>2, <2>3, <4>1
    <3> QED BY <3>1, <3>2
  <2>5. ASSUME NEW q \in 1 .. N - 1
        PROVE  at2[q] \in IF dma_fifo'[q] = "data" THEN data_done + 1 .. Issued
                                                   ELSE jumbo_done + 1 + 1 .. L
    <3>1. q + 1 \in 1 .. N /\ 1 < q + 1 /\ dma_fifo'[q] = dma_fifo[q + 1] /\ at2[q] = at[q + 1]
      BY <1>2, <1>3, <1>7
    <3>2. CASE dma_fifo[q + 1] = "data"
      BY <1>4, <3>1, <3>2
    <3>3. CASE dma_fifo[q + 1] # "data"
      <4>1. at[1] < at[q + 1] /\ at[q + 1] \in jumbo_done + 1 .. L
        BY <1>4, <1>8, <1>11, <3>1, <3>3
      <4>2. at[q + 1] \in jumbo_done + 1 + 1 .. L
        BY <1>2, <2>4, <4>1
      <4> QED BY <3>1, <3>3, <4>2
    <3> QED BY <3>2, <3>3
  <2>6. ASSUME NEW x \in jumbo_done + 1 + 1 .. L
        PROVE  \E q \in 1 .. N - 1 : dma_fifo'[q] = "jumbo" /\ at2[q] = x
    <3>1. x \in jumbo_done + 1 .. L /\ x # jumbo_done + 1
      BY <1>2
    <3>2. PICK q \in 1 .. N : dma_fifo[q] = "jumbo" /\ at[q] = x
      BY <1>4, <3>1
    <3>3. q - 1 \in 1 .. N - 1 /\ (q - 1) + 1 = q
      BY <1>8, <2>4, <3>1, <3>2
    <3> QED BY <1>3, <1>7, <3>2, <3>3
  <2>7. ASSUME NEW x \in data_done + 1 .. Issued
        PROVE  \E q \in 1 .. N - 1 : dma_fifo'[q] = "data" /\ at2[q] = x
    <3>2. PICK q \in 1 .. N : dma_fifo[q] = "data" /\ at[q] = x
      BY <1>4
    <3>3. q - 1 \in 1 .. N - 1 /\ (q - 1) + 1 = q
      BY <1>8, <1>11, <3>2
    <3> QED BY <1>3, <1>7, <3>2, <3>3
  <2>8. Labelled(dma_fifo', at2, data_done, Issued, jumbo_done + 1, lso_entries)
    BY <1>3, <1>7, <1>9, <2>5, <2>6, <2>7 DEF Labelled, L
  <2>9. \A k \in jumbo_done + 1 + 1 .. L : data_done <= lso_entries[k].message
    BY <1>2, <1>6
  <2>10. /\ jumbo_done + 1 <= L /\ jumbo_refl <= jumbo_done + 1
         /\ jumbo_done + 1 <= jumbo_refl + MaxJumboLag
    BY <1>2, <2>1, <2>2 DEF DmaOrder
  <2>11. \E a \in [1 .. Len(dma_fifo') -> Nat] :
           Labelled(dma_fifo', a, data_done, Issued, jumbo_done + 1, lso_entries)
    BY <1>3, <1>7, <2>8
  <2>12. data_done <= Issued
    BY DEF DmaOrder
  <2> QED BY <1>2, <2>1, <2>9, <2>10, <2>11, <2>12 DEF DmaOrder, L
<1> QED BY <1>4, <1>8, <1>10, <1>11

(* Jumbo DMAs not yet completed of entries up to the notifier's are all    *)
(* those of its message, so they are few.                                  *)
LEMMA LagsBehind ==
  ASSUME CInv, LsoPlace, DmaOrder, NEW k \in 1 .. Len(lso_entries),
         pc \in LsoPlaces, lso_entries[k].message = Processed + 1, k > jumbo_done
  PROVE  /\ k - jumbo_refl \in 1 .. (JumboNumbers \div 2) - 1
         /\ data_done = Processed + 1
<1>1. /\ jumbo_done \in Nat /\ jumbo_refl \in Nat /\ jumbo_refl <= jumbo_done
      /\ jumbo_done <= jumbo_refl + MaxJumboLag /\ MaxJumboLag \in Nat /\ k \in Nat
      /\ data_done \in Nat /\ Len(lso_entries) \in Nat
  <2>1. jumbo_done \in Nat /\ jumbo_refl \in Nat /\ data_done \in Nat
    BY DEF CInv, TypeOK
  <2>2. jumbo_refl <= jumbo_done /\ jumbo_done <= jumbo_refl + MaxJumboLag
    BY DEF DmaOrder
  <2> QED BY <2>1, <2>2, Sizes, EntryMessages
<1>2. Processed + 1 <= data_done /\ Processed \in Nat
  <2>1. data_done <= Issued
    BY DEF DmaOrder
  <2> QED BY <2>1, AtHead
<1> DEFINE j == jumbo_done + 1
<1>3. j \in jumbo_done + 1 .. Len(lso_entries) /\ j \in 1 .. Len(lso_entries) /\ j <= k
      /\ k \in jumbo_done + 1 .. Len(lso_entries)
  BY <1>1
<1> HIDE DEF j
<1>4. /\ data_done <= lso_entries[j].message /\ data_done <= lso_entries[k].message
      /\ lso_entries[j].message \in Nat /\ lso_entries[k].message \in Nat
  BY <1>3, EntryMessages DEF DmaOrder
<1>5. data_done = Processed + 1
  BY <1>1, <1>2, <1>4
<1>6. (JumboNumbers \div 2) \in Int
  <2>1. JumboNumbers \in Int /\ 2 \in Nat \ {0}
    BY Sizes
  <2> QED BY <2>1, Euclid, Zenon
<1>7. MostSegments = (JumboNumbers \div 2) - MaxJumboLag - 1
  BY DEF MostSegments
<1>8. k - j < MostSegments \/ (k = j /\ MostSegments > 0)
  <2>1. CASE j < k
    <3>1. \A x, y \in 1 .. Len(lso_entries) :
            /\ x < y => lso_entries[x].message <= lso_entries[y].message
            /\ x < y /\ lso_entries[x].message = lso_entries[y].message => y - x < MostSegments
      BY DEF LsoPlace, Entries
    <3>2. lso_entries[j].message = lso_entries[k].message
      BY <1>3, <1>4, <1>5, <2>1, <3>1
    <3> QED BY <1>3, <2>1, <3>1, <3>2
  <2>2. CASE ~(j < k)
    <3>1. k = j
      BY <1>1, <1>3, <2>2
    <3>2. MostSegments > 0
      <4>1. lso_entries[k].message \in LsoMessages
        BY DEF LsoPlace, Entries
      <4>2. PICK m \in 1 .. Issued : IsLso(Message(m))
        BY <4>1 DEF LsoMessages
      <4>3. IsMessage(Message(m))
        BY IssuedMessages DEF CInv
      <4>4. Message(m)[2] \in Seq(BOOLEAN) \ {<<>>} /\ Len(Message(m)[2]) <= MostSegments
        BY <4>2, <4>3 DEF IsMessage, IsLso
      <4>5. Len(Message(m)[2]) \in Nat /\ Len(Message(m)[2]) > 0
        BY <4>4
      <4>6. MostSegments \in Int
        BY <1>1, <1>6, <1>7
      <4> QED BY <4>4, <4>5, <4>6
    <3> QED BY <3>1, <3>2
  <2> QED BY <2>1, <2>2
<1> DEFINE h == JumboNumbers \div 2
<1>9. h \in Int /\ (k - j < h - MaxJumboLag - 1 \/ (k = j /\ h - MaxJumboLag - 1 > 0))
  BY <1>6, <1>7, <1>8
<1> HIDE DEF h
<1>10. k - jumbo_refl \in 1 .. h - 1
  BY <1>1, <1>3, <1>9 DEF j
<1> QED BY <1>5, <1>10 DEF h

(* So the signed difference of the sequence numbers tells them.            *)
LEMMA PendingIfNotDone ==
  ASSUME CInv, LsoPlace, DmaOrder, NEW k \in 1 .. Len(lso_entries),
         pc \in LsoPlaces, lso_entries[k].message = Processed + 1, k > jumbo_done
  PROVE  JumboPending(k)
<1>1. k - jumbo_refl \in 1 .. (JumboNumbers \div 2) - 1
  BY LagsBehind
<1>2. JumboNumbers \in Nat \ {0} /\ jumbo_refl \in Nat /\ k \in Nat
  BY Sizes DEF CInv, TypeOK
<1>3. JumboNumbers = 2 * (JumboNumbers \div 2) + (JumboNumbers % 2)
      /\ (JumboNumbers % 2) \in 0 .. 1 /\ (JumboNumbers \div 2) \in Int
  <2>1. JumboNumbers \in Int /\ 2 \in Nat \ {0}
    BY Sizes
  <2>2. /\ JumboNumbers = 2 * (JumboNumbers \div 2) + (JumboNumbers % 2)
        /\ (JumboNumbers % 2) \in 0 .. 2 - 1 /\ (JumboNumbers \div 2) \in Int
    BY <2>1, Euclid, Zenon
  <2> QED BY <2>2
<1> DEFINE h == JumboNumbers \div 2
           z == JumboNumbers % 2
<1>4. /\ h \in Int /\ JumboNumbers = 2 * h + z /\ z \in 0 .. 1
      /\ k - jumbo_refl \in 1 .. h - 1
  BY <1>1, <1>3
<1> HIDE DEF h, z
<1>5. jumbo_refl <= k /\ k - jumbo_refl < JumboNumbers
  BY <1>2, <1>4
<1>6. ((k % JumboNumbers) - (jumbo_refl % JumboNumbers)) % JumboNumbers = k - jumbo_refl
  BY <1>2, <1>5, Apart, Zenon
<1>7. ((k % JumboNumbers) - (jumbo_refl % JumboNumbers)) % JumboNumbers
        \in 1 .. (JumboNumbers \div 2) - 1
  BY <1>1, <1>6, Zenon
<1> QED BY <1>7, Zenon DEF JumboPending, JumboAfter

LEMMA WaitedGet ==
  ASSUME CInv, LsoPlace, DmaOrder, LsoGet
  PROVE  Waited'
<1>1. /\ pc = "lso_get" /\ lso_taken' = lso_taken + 1 /\ jumbo_done' = jumbo_done
      /\ pc' = "segment" => ~JumboPending(lso_taken')
  BY DEF LsoGet, issuer
<1>2. /\ lso_taken' \in 1 .. Len(lso_entries)
      /\ lso_entries[lso_taken'].message = Processed + 1
  BY <1>1 DEF LsoPlace
<1>3. jumbo_done \in Nat /\ lso_taken' \in Nat /\ pc \in LsoPlaces
  BY <1>1, <1>2 DEF CInv, TypeOK, LsoPlaces
<1>4. lso_taken' > jumbo_done => JumboPending(lso_taken')
  BY <1>2, <1>3, PendingIfNotDone, Zenon
<1> QED BY <1>1, <1>3, <1>4 DEF Waited

LEMMA WaitedJumbo ==
  ASSUME CInv, LsoPlace, DmaOrder, JumboWait
  PROVE  Waited'
<1>1. /\ pc = "jumbo" /\ lso_taken' = lso_taken /\ jumbo_done' = jumbo_done
      /\ complete' = data_refl % SeqNumbers /\ num_avail' = Minus(complete', served)
      /\ pc' = "segment" => ~JumboPending(lso_taken) \/ LaterBatchDone(num_avail')
  BY DEF JumboWait, issuer, rings
<1>2. /\ lso_taken \in 1 .. Len(lso_entries)
      /\ lso_entries[lso_taken].message = Processed + 1
  BY <1>1 DEF LsoPlace
<1>3. jumbo_done \in Nat /\ lso_taken \in Nat /\ pc \in LsoPlaces /\ data_done <= Issued
  BY <1>1, <1>2 DEF CInv, TypeOK, LsoPlaces, DmaOrder
<1>4. lso_taken > jumbo_done => JumboPending(lso_taken) /\ data_done = Processed + 1
  BY <1>2, <1>3, PendingIfNotDone, LagsBehind
<1>5. num_avail' = data_refl - Counted
  <2>1. PICK r, s, c \in 0 .. Issued : Stands(r, s, c)
    BY DEF CInv, Numbers
  <2> QED BY <1>1, <1>3, <2>1, Differences
<1>6. LaterBatchDone(num_avail') => data_done > Processed + 1
  <2> SUFFICES ASSUME LaterBatchDone(num_avail') PROVE data_done > Processed + 1
    OBVIOUS
  <2>1. data_refl - Counted > BatchSize
    BY <1>5 DEF LaterBatchDone
  <2>2. Processed + 1 <= Asked /\ Processed \in Nat
    BY <1>3, AtHead
  <2>3. /\ Counted = Asked - Part /\ Part <= BatchSize /\ Part \in Nat /\ Asked \in Nat
        /\ data_refl <= data_done /\ data_refl \in Nat /\ data_done \in Nat
    BY Facts, Sizes
  <2> HIDE DEF Processed
  <2> QED BY <2>1, <2>2, <2>3, Sizes
<1>7. Processed \in Nat /\ data_done \in Nat
  BY <1>3, AtHead, Facts
<1> QED BY <1>1, <1>3, <1>4, <1>6, <1>7 DEF Waited

LEMMA EnqueuedKept ==
  ASSUME CInv, Enqueued, jumbo_done' \in Nat, jumbo_done <= jumbo_done', UNCHANGED out
  PROVE  Enqueued'
<1>1. ASSUME NEW i \in DOMAIN out, Len(out[i].packet) = 2
      PROVE  out[i].packet[2] <= jumbo_done'
  <2>1. out[i].packet[2] <= jumbo_done
    BY <1>1 DEF Enqueued, SegmentsAreDone
  <2> DEFINE Out == [packet : Seq(Nat), paced_by : Nat]
             p == out[i].packet
  <2>a. out \in Seq(Out)
    BY DEF Enqueued
  <2>2. \A x \in Out : x.packet \in Seq(Nat)
    OBVIOUS
  <2> HIDE DEF Out
  <2>3. p \in Seq(Nat)
    BY <2>a, <2>2
  <2> HIDE DEF p
  <2>b. Len(p) = 2
    BY <1>1 DEF p
  <2>c. p[2] \in Nat
    BY SMTT(30), <2>3, <2>b
  <2>4. out[i].packet[2] \in Nat /\ jumbo_done \in Nat
    BY <2>c DEF CInv, TypeOK, p
  <2> QED BY <2>1, <2>4
<1> QED BY <1>1 DEF Enqueued, SegmentsAreDone

LEMMA EnqueuedOne ==
  ASSUME Enqueued, UNCHANGED jumbo_done, NEW m \in Nat, NEW p \in Seq(Nat),
         Len(p) = 2 => p[2] <= jumbo_done, Enqueue(m, p)
  PROVE  Enqueued'
<1> DEFINE e == [packet |-> p, paced_by |-> m]
<1>1. out' = Append(out, e) /\ e \in [packet : Seq(Nat), paced_by : Nat]
      /\ out \in Seq([packet : Seq(Nat), paced_by : Nat]) /\ e.packet = p
  BY DEF Enqueue, Enqueued
<1> HIDE DEF e
<1>2. /\ out' \in Seq([packet : Seq(Nat), paced_by : Nat]) /\ DOMAIN out' = 1 .. Len(out) + 1
      /\ out'[Len(out) + 1] = e /\ DOMAIN out = 1 .. Len(out) /\ Len(out) \in Nat
      /\ \A i \in 1 .. Len(out) : out'[i] = out[i]
  BY <1>1
<1>3. ASSUME NEW i \in DOMAIN out', Len(out'[i].packet) = 2
      PROVE  out'[i].packet[2] <= jumbo_done
  <2>1. CASE i \in 1 .. Len(out)
    BY <1>2, <1>3, <2>1 DEF Enqueued, SegmentsAreDone
  <2>2. CASE i \notin 1 .. Len(out)
    <3>1. i = Len(out) + 1
      BY <1>2, <2>2
    <3> QED BY <1>1, <1>2, <1>3, <3>1
  <2> QED BY <2>1, <2>2
<1> QED BY <1>2, <1>3 DEF Enqueued, SegmentsAreDone

----------------------------------------------------------------------------
(* Every step.                                                             *)
LEMMA InitIInv == Init => IInv
<1> SUFFICES ASSUME Init PROVE IInv
  OBVIOUS
<1>1. CInv
  BY InitCInv
<1>2. Issued = 0 /\ Processed = 0
  <2>1. issued = <<>> /\ taken = 0 /\ batch_in = <<>>
    BY DEF Init
  <2>2. Len(issued) = 0 /\ Len(batch_in) = 0
    BY <2>1
  <2>3. Issued = 0
    BY Sizes DEF Init, Issued
  <2>4. Processed = 0
    <3>1. Processed = taken - Len(batch_in)
      BY DEF Processed
    <3> QED BY <2>1, <2>2, <3>1
  <2> QED BY <2>3, <2>4
<1>3. LsoMessages = {}
  BY <1>2 DEF LsoMessages
<1>4. lso_entries = <<>> /\ dma_fifo = <<>> /\ pc = "start" /\ out = <<>>
      /\ data_done = 0 /\ jumbo_done = 0 /\ jumbo_refl = 0 /\ lso_put = 0 /\ lso_taken = 0
  BY DEF Init
<1>5. Entries(lso_entries, Issued, LsoMessages)
  BY <1>3, <1>4 DEF Entries
<1>6. LsoPlace
  BY <1>4, <1>5 DEF LsoPlace, LsoPlaces
<1>7. Labelled(<<>>, <<>>, 0, 0, 0, <<>>) /\ <<>> \in [1 .. Len(<<>>) -> Nat]
  BY DEF Labelled
<1>8. DmaOrder
  <2>1. \E at \in [1 .. Len(dma_fifo) -> Nat] :
          Labelled(dma_fifo, at, data_done, Issued, jumbo_done, lso_entries)
    BY <1>2, <1>4, <1>7
  <2>2. Len(lso_entries) = 0 /\ MaxJumboLag \in Nat
    BY <1>4, Sizes
  <2>3. \A k \in jumbo_done + 1 .. Len(lso_entries) : data_done <= lso_entries[k].message
    BY <1>4, <2>2
  <2>4. /\ data_done <= Issued /\ jumbo_refl <= jumbo_done
        /\ jumbo_done <= jumbo_refl + MaxJumboLag /\ jumbo_done <= Len(lso_entries)
    BY <1>2, <1>4, <2>2
  <2> QED BY <2>1, <2>3, <2>4 DEF DmaOrder
<1>9. Waited
  BY <1>4 DEF Waited
<1>10. Enqueued
  BY <1>4 DEF Enqueued, SegmentsAreDone
<1> QED BY <1>1, <1>6, <1>8, <1>9, <1>10 DEF IInv

(* A step that leaves the DMAs and their order alone.                      *)
LEMMA OrderKept ==
  ASSUME DmaOrder,
         UNCHANGED <<issued, lso_entries, dma_fifo, data_done, jumbo_done, jumbo_refl>>
  PROVE  DmaOrder'
<1>1. Issued' = Issued
  BY DEF Issued
<1>2. PICK at \in [1 .. Len(dma_fifo) -> Nat] :
        Labelled(dma_fifo, at, data_done, Issued, jumbo_done, lso_entries)
  BY DEF DmaOrder
<1>3. Labelled(dma_fifo', at, data_done', Issued', jumbo_done', lso_entries')
  BY <1>1, <1>2
<1> QED BY <1>1, <1>2, <1>3 DEF DmaOrder

LEMMA ReflectedOrder ==
  ASSUME CInv, DmaOrder, JumboReflected
  PROVE  DmaOrder'
<1>1. /\ UNCHANGED <<issued, lso_entries, dma_fifo, data_done, jumbo_done>>
      /\ jumbo_refl' = jumbo_done
  BY DEF JumboReflected
<1>2. Issued' = Issued
  BY <1>1 DEF Issued
<1>3. PICK at \in [1 .. Len(dma_fifo) -> Nat] :
        Labelled(dma_fifo, at, data_done, Issued, jumbo_done, lso_entries)
  BY DEF DmaOrder
<1>4. Labelled(dma_fifo', at, data_done', Issued', jumbo_done', lso_entries')
  BY <1>1, <1>2, <1>3
<1>5. jumbo_refl' <= jumbo_done' /\ jumbo_done' <= jumbo_refl' + MaxJumboLag
  BY SMTT(30), <1>1, Sizes DEF CInv, TypeOK
<1> QED BY <1>1, <1>2, <1>3, <1>4, <1>5 DEF DmaOrder

(* A step of an engine, other than issuing.                                *)
LEMMA EngineStep ==
  ASSUME IInv, CInv', PutLso \/ DmaDone \/ DataReflected \/ JumboReflected
  PROVE  IInv'
<1> USE DEF IInv
<1>1. /\ UNCHANGED <<issued, lso_entries, lso_taken, taken, batch_in, pc, out>>
      /\ Processed' = Processed
  BY DEF PutLso, DmaDone, DataReflected, JumboReflected, rings, context, Processed
<1>2. /\ jumbo_done \in Nat /\ jumbo_done' \in Nat /\ lso_put \in Nat /\ lso_put' \in Nat
      /\ lso_taken \in Nat /\ Len(lso_entries) \in Nat
  BY EntryMessages DEF CInv, TypeOK
<1>3. jumbo_done <= jumbo_done'
  BY <1>2 DEF PutLso, DmaDone, DataReflected, JumboReflected
<1>4. lso_put <= lso_put' /\ lso_put' <= Len(lso_entries)
  <2>1. lso_put <= Len(lso_entries)
    BY DEF LsoPlace
  <2>2. lso_put' = lso_put \/ (lso_put' = lso_put + 1 /\ lso_put < Len(lso_entries))
    BY DEF PutLso, DmaDone, DataReflected, JumboReflected
  <2> QED BY <1>2, <2>1, <2>2
<1>5. LsoPlace'
  BY <1>1, <1>2, <1>4, PlaceKept
<1>6. DmaOrder'
  <2>1. CASE DmaDone
    BY <2>1, DmaDoneOrder
  <2>2. CASE JumboReflected
    BY <2>2, ReflectedOrder
  <2>3. CASE PutLso \/ DataReflected
    BY <2>3, OrderKept DEF PutLso, DataReflected
  <2> QED BY <2>1, <2>2, <2>3
<1>7. Waited'
  BY <1>1, <1>2, <1>3 DEF Waited
<1>8. Enqueued'
  BY <1>1, <1>2, <1>3, EnqueuedKept
<1> QED BY <1>5, <1>6, <1>7, <1>8

(* A step of the notifier, or between it and the engines, that neither     *)
(* finishes a message nor takes an entry.                                  *)
LEMMA QuietStep ==
  ASSUME IInv, CInv', UNCHANGED <<issued, lso_entries, dma_fifo, data_done, jumbo_done,
                                  jumbo_refl, lso_put, lso_taken, out>>,
         Processed' = Processed,
         \/ pc' \notin LsoPlaces /\ pc \notin LsoPlaces
         \/ pc' = pc
  PROVE  IInv'
<1> USE DEF IInv
<1>1. jumbo_done \in Nat /\ lso_put \in Nat /\ lso_taken \in Nat
  BY DEF CInv, TypeOK
<1>2. lso_put <= Len(lso_entries)
  BY DEF LsoPlace
<1>3. LsoPlace'
  BY <1>1, <1>2, PlaceKept
<1>4. DmaOrder'
  BY OrderKept
<1>5. Waited'
  BY DEF Waited, LsoPlaces
<1>6. Enqueued'
  BY <1>1, EnqueuedKept
<1> QED BY <1>3, <1>4, <1>5, <1>6

LEMMA QuietActions ==
  ASSUME IInv, CInv',
         \/ ServedReflected \/ QcAddDone \/ distr_notify \/ StartFull \/ StartPartial
         \/ FirstArrived \/ WaitForMore \/ FetchNext \/ NextArrived \/ Credit
         \/ UNCHANGED vars
  PROVE  IInv'
<1>1. /\ UNCHANGED <<issued, lso_entries, dma_fifo, data_done, jumbo_done, jumbo_refl, lso_put>>
      /\ UNCHANGED <<lso_taken, out, taken, batch_in>>
  BY DEF ServedReflected, QcAddDone, distr_notify, StartFull, StartPartial, FirstArrived,
         WaitForMore, FetchNext, NextArrived, Credit, vars, issuer, rings, context
<1>2. \/ pc' \notin LsoPlaces /\ pc \notin LsoPlaces
      \/ pc' = pc
  BY DEF ServedReflected, QcAddDone, distr_notify, StartFull, StartPartial, FirstArrived,
         WaitForMore, FetchNext, NextArrived, Credit, vars, context, LsoPlaces
<1>3. Processed' = Processed
  BY <1>1 DEF Processed
<1> QED BY <1>1, <1>2, <1>3, QuietStep

LEMMA GetDoneStep ==
  ASSUME IInv, CInv', GetDone
  PROVE  IInv'
<1>1. /\ UNCHANGED <<issued, lso_entries, dma_fifo, data_done, jumbo_done, jumbo_refl, lso_put>>
      /\ UNCHANGED <<lso_taken, out, pc>> /\ want > 0 /\ taken' = taken + want
      /\ batch_in' = [i \in 1 .. want |-> taken + i]
  BY DEF GetDone, issuer
<1>2. want \in Nat /\ taken \in Nat
  BY Facts DEF IInv
<1>3. batch_in = <<>>
  BY <1>1, <1>2, Places2 DEF IInv, CInv, Fetching, Places, LsoPlaces
<1>4. Len(batch_in') = want /\ Len(batch_in) = 0
  BY <1>1, <1>2, <1>3
<1>5. Processed' = Processed
  BY <1>1, <1>2, <1>4 DEF Processed
<1> QED BY <1>1, <1>5, QuietStep

(* A step of the notifier that moves on in the messages or the entries.    *)
LEMMA MessageStep ==
  ASSUME IInv, CInv',
         ProcessPacket \/ ProcessNone \/ ProcessLso \/ LsoGet \/ JumboWait \/ Segment
  PROVE  IInv'
<1> USE DEF IInv
<1>1. UNCHANGED <<issued, lso_entries, dma_fifo, data_done, jumbo_done, jumbo_refl, lso_put>>
  BY DEF ProcessPacket, ProcessNone, ProcessLso, LsoGet, JumboWait, Segment, issuer
<1>2. DmaOrder'
  BY <1>1, OrderKept
<1>3. /\ jumbo_done \in Nat /\ lso_put \in Nat /\ lso_taken \in Nat
      /\ lso_put <= Len(lso_entries) /\ data_done <= Issued
  BY DEF CInv, TypeOK, LsoPlace, DmaOrder
<1>4. CASE ProcessPacket \/ ProcessNone
  <2>1. LsoPlace'
    BY <1>4, FinishPlace
  <2>2. Waited'
    BY <1>4 DEF Waited, ProcessPacket, ProcessNone, FinishMessage
  <2>3. Enqueued'
    <3>1. CASE ProcessNone
      BY <1>1, <1>3, <3>1, EnqueuedKept DEF ProcessNone
    <3>2. CASE ProcessPacket
      <4>1. Head(batch_in) \in Nat
        <5>1. pc \in {"process"} \cup LsoPlaces
          BY <3>2 DEF ProcessPacket
        <5> QED BY <1>3, <5>1, AtHead
      <4>2. Enqueue(Head(batch_in), <<Head(batch_in)>>)
        BY <3>2 DEF ProcessPacket
      <4> DEFINE m == Head(batch_in)
      <4>3. m \in Nat /\ Enqueue(m, <<m>>)
        BY <4>1, <4>2
      <4> HIDE DEF m
      <4>4. <<m>> \in Seq(Nat) /\ Len(<<m>>) # 2
        BY <4>3
      <4> QED BY <1>1, <4>3, <4>4, EnqueuedOne
    <3> QED BY <1>4, <3>1, <3>2
  <2> QED BY <1>2, <2>1, <2>2, <2>3
<1>5. CASE ProcessLso
  <2>1. LsoPlace'
    BY <1>5, ProcessLsoPlace
  <2>2. Waited'
    BY <1>5 DEF Waited, ProcessLso
  <2>3. Enqueued'
    BY <1>1, <1>3, <1>5, EnqueuedKept DEF ProcessLso
  <2> QED BY <1>2, <2>1, <2>2, <2>3
<1>6. CASE LsoGet
  <2>1. LsoPlace' /\ Waited'
    BY <1>6, LsoGetPlace, WaitedGet
  <2>3. Enqueued'
    BY <1>1, <1>3, <1>6, EnqueuedKept DEF LsoGet
  <2> QED BY <1>2, <2>1, <2>3
<1>7. CASE JumboWait
  <2>1. /\ pc = "jumbo" /\ pc' \in {"jumbo", "segment"}
        /\ UNCHANGED <<lso_taken, taken, batch_in, out>>
    BY <1>7 DEF JumboWait, rings
  <2>2. Processed' = Processed
    BY <2>1 DEF Processed
  <2>3. LsoPlace'
    BY <1>1, <1>3, <2>1, <2>2, PlaceKept
  <2>4. Waited'
    BY <1>7, WaitedJumbo
  <2>5. Enqueued'
    BY <1>1, <1>3, <2>1, EnqueuedKept
  <2> QED BY <1>2, <2>3, <2>4, <2>5
<1>8. CASE Segment
  <2> DEFINE e == lso_entries[lso_taken]
             m == Head(batch_in)
  <2>1. /\ pc = "segment" /\ pc' # "segment"
        /\ IF e.eop THEN Enqueue(m, <<e.message, lso_taken>>) ELSE UNCHANGED out
    BY <1>8 DEF Segment, FinishMessage
  <2>2. LsoPlace'
    BY <1>8, SegmentPlace
  <2>3. Waited'
    BY <2>1 DEF Waited
  <2>4. m \in Nat
    <3>1. pc \in {"process"} \cup LsoPlaces
      BY <2>1 DEF LsoPlaces
    <3> QED BY <1>3, <3>1, AtHead
  <2>5. e.message \in Nat /\ lso_taken \in Nat /\ lso_taken <= jumbo_done
    <3>1. lso_taken \in 1 .. Len(lso_entries)
      BY <2>1 DEF LsoPlace
    <3> QED BY <2>1, <3>1, EntryMessages DEF Waited
  <2> HIDE DEF m
  <2>6. Enqueued'
    <3>1. CASE e.eop
      <4> DEFINE x == e.message
                 p == <<x, lso_taken>>
      <4>1. x \in Nat /\ lso_taken \in Nat /\ lso_taken <= jumbo_done /\ Enqueue(m, p)
        BY <2>1, <2>5, <3>1
      <4> HIDE DEF x
      <4>2. p \in Seq(Nat) /\ p[2] <= jumbo_done
        BY <4>1
      <4> HIDE DEF p
      <4> QED BY <1>1, <2>4, <4>1, <4>2, EnqueuedOne
    <3>2. CASE ~e.eop
      BY <1>1, <1>3, <2>1, <3>2, EnqueuedKept
    <3> QED BY <3>1, <3>2
  <2> QED BY <1>2, <2>2, <2>3, <2>6
<1> QED BY <1>4, <1>5, <1>6, <1>7, <1>8

LEMMA NextIInv == IInv /\ [Next]_vars => IInv'
<1> SUFFICES ASSUME IInv, [Next]_vars PROVE IInv'
  OBVIOUS
<1>1. CInv'
  <2>1. CInv /\ data_done <= Issued
    BY DEF IInv, DmaOrder
  <2> QED BY <2>1, NextCInv
<1>2. CASE PutLso \/ DmaDone \/ DataReflected \/ JumboReflected
  BY <1>1, <1>2, EngineStep
<1>3. CASE GetDone
  BY <1>1, <1>3, GetDoneStep
<1>4. CASE \/ ServedReflected \/ QcAddDone \/ distr_notify \/ StartFull \/ StartPartial
           \/ FirstArrived \/ WaitForMore \/ FetchNext \/ NextArrived \/ Credit
           \/ UNCHANGED vars
  BY <1>1, <1>4, QuietActions
<1>5. CASE ProcessPacket \/ ProcessNone \/ ProcessLso \/ LsoGet \/ JumboWait \/ Segment
  BY <1>1, <1>5, MessageStep
<1>6. ASSUME NEW b \in Batches, IssueBatch(b) PROVE IInv'
  <2>1. LsoPlace' /\ DmaOrder'
    BY <1>6, IssuePlace DEF IInv
  <2>2. UNCHANGED <<pc, lso_taken, jumbo_done, out>>
    BY <1>6 DEF IssueBatch, rings, context
  <2>3. Waited'
    BY <2>2 DEF IInv, Waited
  <2>4. jumbo_done \in Nat
    BY DEF IInv, CInv, TypeOK
  <2>5. Enqueued'
    BY <2>2, <2>4, EnqueuedKept DEF IInv
  <2> QED BY <1>1, <2>1, <2>3, <2>5 DEF IInv
<1> QED BY <1>2, <1>3, <1>4, <1>5, <1>6 DEF Next, notify, Engines

(* No message is asked for and no segment is enqueued before its DMA has   *)
(* completed, whatever old sequence numbers the notifier goes by, and      *)
(* whether its wait ended with the segment's DMA or with a later batch's.  *)
THEOREM NothingUsedEarly == Spec => []UsedWhenDone
<1>1. IInv => UsedWhenDone
  <2> SUFFICES ASSUME IInv PROVE UsedWhenDone
    OBVIOUS
  <2>1. PICK r, s, c \in 0 .. Issued : Stands(r, s, c)
    BY DEF IInv, CInv, Numbers
  <2>2. Asked <= c /\ c <= data_refl /\ data_refl <= data_done /\ c \in Nat
        /\ Asked \in Nat /\ data_refl \in Nat /\ data_done \in Nat
    BY <2>1, Facts DEF IInv, Stands
  <2>3. Asked <= data_done
    BY <2>2
  <2> QED BY <2>3 DEF UsedWhenDone, FetchedAreDone, Asked, IInv, Enqueued
<1> QED BY <1>1, InitIInv, NextIInv, PTL DEF Spec

(* issue_dma only knows how far the notifier was some time ago, and that   *)
(* modulo the number of sequence numbers.  Still it never issues more      *)
(* messages than the ring has room for.                                    *)
THEOREM IssuedRingHolds == Spec => []RingNotOverrun
<1>1. IInv => RingNotOverrun
  <2> SUFFICES ASSUME IInv PROVE RingNotOverrun
    OBVIOUS
  <2>1. PICK r, s, c \in 0 .. Issued : Stands(r, s, c)
    BY DEF IInv, CInv, Numbers
  <2>2. /\ Issued <= r + Window /\ r <= s /\ s <= Counted /\ Counted <= Asked
        /\ r \in Nat /\ s \in Nat /\ Counted \in Nat /\ Asked \in Nat /\ Issued \in Nat
        /\ Window \in Nat
    BY <2>1, Facts, Sizes DEF IInv, Stands
  <2>3. Issued - Asked <= Window
    BY <2>2
  <2> QED BY <2>3 DEF RingNotOverrun, Asked, Window
<1> QED BY <1>1, InitIInv, NextIInv, PTL DEF Spec

----------------------------------------------------------------------------
(* What FoldLeft adds up.  The community module folds a set from its       *)
(* greatest element on.                                                    *)
LEMMA MaxOf ==
  ASSUME NEW s, NEW k \in Int, k \in s, \A x \in s : x \in Int /\ x <= k
  PROVE  Max(s) = k
<1>1. \A y \in s : k >= y
  OBVIOUS
<1>2. \E x \in s : \A y \in s : x >= y
  BY <1>1
<1>3. Max(s) \in s /\ \A y \in s : Max(s) >= y
  <2> DEFINE M == CHOOSE x \in s : \A y \in s : x >= y
  <2>1. M \in s /\ \A y \in s : M >= y
    BY <1>2, Zenon
  <2> QED BY <2>1, Zenon DEF Max
<1>4. Max(s) \in Int /\ Max(s) <= k /\ Max(s) >= k
  BY <1>3
<1> QED BY <1>4

Sums(p, s, n) == p[0] = 0 /\ \A i \in 1 .. n : p[i] = p[i - 1] + s[i]

LEMMA FoldExists ==
  ASSUME NEW n \in Nat, NEW s \in [1 .. n -> Nat]
  PROVE  \E g : g = [t \in SUBSET (1 .. n) |->
                       IF t = {} THEN 0 ELSE g[t \ {Max(t)}] + s[Max(t)]]
<1> DEFINE Value(g, t) == IF t = {} THEN 0 ELSE g[t \ {Max(t)}] + s[Max(t)]
           Good(k) == \E g : g = [t \in SUBSET (1 .. k) |-> Value(g, t)]
           T == {k \in 0 .. n : Good(k)}
<1>1. 0 \in T
  <2> DEFINE g == [t \in SUBSET (1 .. 0) |-> 0]
  <2>1. ASSUME NEW t \in SUBSET (1 .. 0) PROVE Value(g, t) = 0
    OBVIOUS
  <2>2. g = [t \in SUBSET (1 .. 0) |-> Value(g, t)]
    BY <2>1
  <2> QED BY <2>2
<1>2. ASSUME NEW k \in 1 .. n, k - 1 \in T PROVE k \in T
  <2>1. PICK g : g = [t \in SUBSET (1 .. k - 1) |-> Value(g, t)]
    BY <1>2
  <2> DEFINE h == [t \in SUBSET (1 .. k) |->
                     IF k \in t THEN g[t \ {k}] + s[k] ELSE g[t]]
  <2>2. ASSUME NEW t \in SUBSET (1 .. k) PROVE h[t] = Value(h, t)
    <3>1. CASE k \in t
      <4>1. Max(t) = k
        <5>1. \A x \in t : x \in Int /\ x <= k
          OBVIOUS
        <5> QED BY <3>1, <5>1, MaxOf
      <4>2. t \ {k} \in SUBSET (1 .. k) /\ k \notin t \ {k} /\ t # {}
        BY <3>1
      <4>3. h[t \ {k}] = g[t \ {k}]
        BY <4>2
      <4>4. h[t] = g[t \ {k}] + s[k]
        BY <3>1
      <4> HIDE DEF h
      <4> QED BY <4>1, <4>2, <4>3, <4>4
    <3>2. CASE k \notin t
      <4>0. ASSUME NEW x \in t PROVE x \in 1 .. k - 1
        <5>1. x \in 1 .. k /\ x # k
          BY <3>2
        <5> QED BY <5>1
      <4>1. t \in SUBSET (1 .. k - 1) /\ t \ {Max(t)} \in SUBSET (1 .. k)
            /\ k \notin t \ {Max(t)}
        BY <3>2, <4>0
      <4>2. h[t] = g[t] /\ h[t \ {Max(t)}] = g[t \ {Max(t)}]
        BY <3>2, <4>1
      <4>3. g[t] = Value(g, t)
        BY <2>1, <4>1
      <4> HIDE DEF h
      <4> QED BY <4>2, <4>3
    <3> QED BY <3>1, <3>2
  <2>3. h = [t \in SUBSET (1 .. k) |-> Value(h, t)]
    <3>1. h = [t \in SUBSET (1 .. k) |-> h[t]]
      OBVIOUS
    <3> HIDE DEF h
    <3> QED BY <2>2, <3>1
  <2>4. k \in 0 .. n
    OBVIOUS
  <2> QED BY <2>3, <2>4
<1>3. n \in T
  <2> HIDE DEF T
  <2>1. T \in SUBSET (0 .. n)
    BY DEF T
  <2> QED BY <1>1, <1>2, <2>1, UpTo
<1> QED BY <1>3

LEMMA Summed ==
  ASSUME NEW n \in Nat, NEW s \in [1 .. n -> Nat]
  PROVE  \E p : Sums(p, s, n) /\ FoldLeft(+, 0, s) = p[n]
<1> DEFINE g == CHOOSE f : f = [t \in SUBSET (1 .. n) |->
                       IF t = {} THEN 0 ELSE f[t \ {Max(t)}] + s[Max(t)]]
<1>1. g = [t \in SUBSET (1 .. n) |->
                       IF t = {} THEN 0 ELSE g[t \ {Max(t)}] + s[Max(t)]]
  BY FoldExists
<1>2. DOMAIN s = 1 .. n
  OBVIOUS
<1>3. FoldLeft(+, 0, s) = g[1 .. n]
  BY <1>2 DEF FoldLeft, MapThenFoldSet
<1> HIDE DEF g
<1> DEFINE p == [i \in 0 .. n |-> g[1 .. i]]
<1>4. p[0] = 0
  <2>1. 1 .. 0 = {} /\ {} \in SUBSET (1 .. n)
    OBVIOUS
  <2>2. g[{}] = 0
    BY <1>1, <2>1
  <2> QED BY <2>1, <2>2
<1>5. ASSUME NEW i \in 1 .. n PROVE p[i] = p[i - 1] + s[i]
  <2>1. Max(1 .. i) = i
    <3>1. i \in 1 .. i /\ \A x \in 1 .. i : x \in Int /\ x <= i
      OBVIOUS
    <3> QED BY <3>1, MaxOf
  <2>2. 1 .. i \in SUBSET (1 .. n) /\ 1 .. i # {} /\ (1 .. i) \ {i} = 1 .. i - 1
    <3>1. \A x : x \in 1 .. i => x \in 1 .. n
      OBVIOUS
    <3>2. i \in 1 .. i
      OBVIOUS
    <3>3. \A x : x \in (1 .. i) \ {i} <=> x \in 1 .. i - 1
      OBVIOUS
    <3>4. (1 .. i) \ {i} = 1 .. i - 1
      BY <3>3, Zenon
    <3> QED BY <3>1, <3>2, <3>4
  <2>3. g[1 .. i] = g[1 .. i - 1] + s[i]
    BY <1>1, <2>1, <2>2
  <2>4. p[i] = g[1 .. i] /\ p[i - 1] = g[1 .. i - 1]
    OBVIOUS
  <2> QED BY <2>3, <2>4
<1>6. Sums(p, s, n) /\ p[n] = g[1 .. n]
  BY <1>4, <1>5 DEF Sums
<1> QED BY <1>3, <1>6

(* The descriptors of queue q in the first k batches of is.                *)
Of(b, q) == IF b.queue = q THEN b.n ELSE 0
DescriptorsIn(is, q, k) == FoldLeft(+, 0, [i \in 1 .. k |-> Of(is[i], q)])

LEMMA OfBatch ==
  ASSUME NEW b \in Batches, NEW q
  PROVE  Of(b, q) \in Nat
BY BatchAssumption DEF Of

LEMMA SameDescriptors ==
  ASSUME NEW is, NEW it, NEW q, NEW k \in Nat, \A i \in 1 .. k : is[i] = it[i]
  PROVE  DescriptorsIn(is, q, k) = DescriptorsIn(it, q, k)
<1>1. [i \in 1 .. k |-> Of(is[i], q)] = [i \in 1 .. k |-> Of(it[i], q)]
  OBVIOUS
<1> QED BY <1>1, Zenon DEF DescriptorsIn

LEMMA NoDescriptors ==
  ASSUME NEW is, NEW q
  PROVE  DescriptorsIn(is, q, 0) = 0
<1> DEFINE s == [i \in 1 .. 0 |-> Of(is[i], q)]
<1>1. s \in [1 .. 0 -> Nat]
  OBVIOUS
<1> HIDE DEF s
<1>2. PICK p : Sums(p, s, 0) /\ FoldLeft(+, 0, s) = p[0]
  BY <1>1, Summed
<1>3. p[0] = 0
  BY <1>2 DEF Sums
<1> QED BY <1>2, <1>3, Zenon DEF s, DescriptorsIn

LEMMA OneMoreBatch ==
  ASSUME NEW is \in Seq(Batches), NEW q, NEW k \in Nat, k + 1 <= Len(is)
  PROVE  DescriptorsIn(is, q, k + 1) = DescriptorsIn(is, q, k) + Of(is[k + 1], q)
<1> DEFINE s == [i \in 1 .. k |-> Of(is[i], q)]
           t == [i \in 1 .. k + 1 |-> Of(is[i], q)]
<1>1. \A i \in 1 .. k + 1 : Of(is[i], q) \in Nat
  <2> SUFFICES ASSUME NEW i \in 1 .. k + 1 PROVE Of(is[i], q) \in Nat
    OBVIOUS
  <2>1. is[i] \in Batches
    OBVIOUS
  <2> QED BY <2>1, OfBatch
<1>2. /\ s \in [1 .. k -> Nat] /\ t \in [1 .. k + 1 -> Nat]
      /\ \A i \in 1 .. k : t[i] = s[i]
      /\ t[k + 1] = Of(is[k + 1], q)
  BY <1>1
<1> HIDE DEF s, t
<1>3. PICK p : Sums(p, s, k) /\ FoldLeft(+, 0, s) = p[k]
  BY <1>2, Summed
<1>4. PICK r : Sums(r, t, k + 1) /\ FoldLeft(+, 0, t) = r[k + 1]
  <2>1. k + 1 \in Nat
    OBVIOUS
  <2> QED BY <1>2, <2>1, Summed
<1> DEFINE T == {i \in 0 .. k : r[i] = p[i]}
<1>5. k \in T
  <2>a. /\ r[0] = 0 /\ p[0] = 0
        /\ \A i \in 1 .. k : p[i] = p[i - 1] + s[i]
        /\ \A i \in 1 .. k + 1 : r[i] = r[i - 1] + t[i]
    BY <1>3, <1>4, Zenon DEF Sums
  <2>1. 0 \in T
    BY <2>a
  <2>2. ASSUME NEW i \in 1 .. k, i - 1 \in T PROVE i \in T
    <3>1. r[i] = r[i - 1] + t[i] /\ p[i] = p[i - 1] + s[i]
      BY <2>a
    <3>2. t[i] = s[i] /\ r[i - 1] = p[i - 1]
      BY <1>2, <2>2
    <3> QED BY <3>1, <3>2
  <2>3. T \in SUBSET (0 .. k)
    OBVIOUS
  <2> HIDE DEF T
  <2> QED BY <2>1, <2>2, <2>3, UpTo
<1>6. r[k + 1] = r[k] + t[k + 1]
  <2>1. k + 1 \in 1 .. k + 1 /\ (k + 1) - 1 = k
    OBVIOUS
  <2> QED BY <1>4, <2>1 DEF Sums
<1>7. DescriptorsIn(is, q, k) = p[k] /\ DescriptorsIn(is, q, k + 1) = r[k + 1]
  BY <1>3, <1>4, Zenon DEF s, t, DescriptorsIn
<1> QED BY <1>2, <1>5, <1>6, <1>7

----------------------------------------------------------------------------
(* c batches were processed to the end, and nothing else is asked for but  *)
(* the next one, of which FirstArrived notes the size and the queue.       *)
Whole     == IF pc = "start" \/ mode = "partial" THEN 0 ELSE BatchSize
Before    == {"start", "wait_first"}
Adding(q) == IF qc_add.queue = q THEN qc_add.n ELSE 0

Credits(c) ==
  /\ c <= Len(issued)
  /\ Counted = BatchSize * c + Whole
  /\ pc # "start" /\ mode = "partial" => Part > 0
  /\ pc \in Before => Processed = BatchSize * c
  /\ pc \notin Before => /\ c + 1 <= Len(issued)
                         /\ n_batch = issued[c + 1].n /\ qc_queue = issued[c + 1].queue
  /\ \A q \in Queues : tx_r[q] + Adding(q) = DescriptorsIn(issued, q, c)

Crediting ==
  /\ tx_r \in [Queues -> Nat]
  /\ qc_add = Idle \/ qc_add \in [queue : Queues, n : Nat]
  /\ \E c \in Nat : Credits(c)

LEMMA InitCrediting == Init => Crediting
<1> SUFFICES ASSUME Init PROVE Crediting
  OBVIOUS
<1>1. /\ issued = <<>> /\ pc = "start" /\ taken = 0 /\ want = 0 /\ batch_in = <<>>
      /\ qc_add = Idle /\ tx_r = [q \in Queues |-> 0]
  BY DEF Init
<1>2. Len(issued) = 0 /\ Len(batch_in) = 0
  BY <1>1
<1>3. Counted = 0 /\ Whole = 0 /\ Processed = 0 /\ BatchSize * 0 = 0
  <2>1. Part = 0 /\ Asked = 0
    BY <1>1 DEF Part, Asked
  <2>2. Counted = 0
    BY <2>1 DEF Counted
  <2>3. Processed = 0
    <3>1. Processed = taken - Len(batch_in)
      BY DEF Processed
    <3> QED BY <1>1, <1>2, <3>1
  <2>4. BatchSize * 0 = 0
    BY Sizes
  <2> QED BY <1>1, <2>2, <2>3, <2>4 DEF Whole
<1>4. ASSUME NEW q \in Queues PROVE tx_r[q] + Adding(q) = DescriptorsIn(issued, q, 0)
  <2>1. Adding(q) = 0 /\ tx_r[q] = 0
    BY <1>1 DEF Adding, Idle
  <2> QED BY <2>1, NoDescriptors
<1>5. Credits(0)
  BY <1>1, <1>2, <1>3, <1>4 DEF Credits, Before
<1> QED BY <1>1, <1>5 DEF Crediting

(* Steps that leave the batches, the additions and the place alone.        *)
LEMMA CreditsKept ==
  ASSUME Crediting, UNCHANGED <<issued, credits, n_batch, qc_queue>>,
         Counted' = Counted, Whole' = Whole,
         pc' # "start" /\ mode' = "partial" => Part' > 0,
         \/ pc' \in Before /\ pc \in Before /\ Processed' = Processed
         \/ pc' \notin Before /\ pc \notin Before
  PROVE  Crediting'
<1>1. PICK c \in Nat : Credits(c)
  BY DEF Crediting
<1>2. Credits(c)'
  BY <1>1 DEF Credits, credits, Adding
<1>3. /\ tx_r' \in [Queues -> Nat]
      /\ qc_add' = Idle \/ qc_add' \in [queue : Queues, n : Nat]
  BY DEF Crediting, credits
<1> QED BY <1>2, <1>3 DEF Crediting

(* A part of a batch is asked for, or nothing changes there.               *)
LEMMA SamePlaceCredits ==
  ASSUME CInv, Crediting, UNCHANGED <<issued, credits, taken, want, mode, n_batch, qc_queue>>,
         \/ UNCHANGED <<pc, partial_served, batch_in>>
         \/ /\ pc' \notin Before /\ pc \notin Before /\ Part' = Part
  PROVE  Crediting'
<1>1. Part' = Part
  BY DEF Part
<1>2. Counted' = Counted /\ Whole' = Whole
  <2>1. pc' = "start" <=> pc = "start"
    BY DEF Before
  <2> QED BY <1>1, <2>1 DEF Counted, Asked, Whole
<1>3. pc' # "start" /\ mode' = "partial" => Part' > 0
  BY <1>1 DEF Crediting, Credits, Before
<1>4. \/ pc' \in Before /\ pc \in Before /\ Processed' = Processed
      \/ pc' \notin Before /\ pc \notin Before
  BY DEF Processed
<1> QED BY <1>2, <1>3, <1>4, CreditsKept

LEMMA QuietCredits ==
  ASSUME CInv, Crediting,
         \/ PutLso \/ DmaDone \/ DataReflected \/ JumboReflected \/ ServedReflected
         \/ distr_notify \/ WaitForMore \/ JumboWait \/ ProcessLso \/ LsoGet \/ UNCHANGED vars
  PROVE  Crediting'
<1>1. /\ UNCHANGED <<issued, credits, taken, want, mode, n_batch, qc_queue>>
      /\ UNCHANGED partial_served
      /\ \/ UNCHANGED <<pc, batch_in>>
         \/ pc = "process" /\ pc' = "lso_get"
         \/ pc \in {"lso_get", "jumbo"} /\ pc' \in {"jumbo", "segment"}
  BY DEF PutLso, DmaDone, DataReflected, JumboReflected, ServedReflected, distr_notify,
         WaitForMore, JumboWait, ProcessLso, LsoGet, vars, issuer, rings, context
<1>2. \/ UNCHANGED <<pc, partial_served, batch_in>>
      \/ /\ pc' \notin Before /\ pc \notin Before /\ Part' = Part
  BY <1>1 DEF Before, Part
<1> QED BY <1>1, <1>2, SamePlaceCredits

LEMMA MessageCredits ==
  ASSUME CInv, Crediting, ProcessPacket \/ ProcessNone \/ Segment
  PROVE  Crediting'
<1>1. /\ UNCHANGED <<issued, credits, taken, want, mode, n_batch, qc_queue, partial_served>>
      /\ pc \in {"process", "segment"}
      /\ \/ FinishMessage
         \/ pc' = "lso_get"
  BY DEF ProcessPacket, ProcessNone, Segment, issuer, rings, credits
<1>2. pc' \in {"process", "more", "credit", "lso_get"}
      /\ (pc' = "credit" => mode # "partial")
  <2>1. CASE FinishMessage
    BY <2>1 DEF FinishMessage
  <2>2. CASE pc' = "lso_get"
    BY <2>2
  <2> QED BY <1>1, <2>1, <2>2
<1>3. pc' \notin Before /\ pc \notin Before /\ Part' = Part
  BY <1>1, <1>2 DEF Before, Part
<1> QED BY <1>1, <1>3, SamePlaceCredits

LEMMA GetDoneCredits ==
  ASSUME CInv, Crediting, GetDone
  PROVE  Crediting'
<1>1. /\ want > 0 /\ want \in Nat /\ taken \in Nat
      /\ batch_in' = [k \in 1 .. want |-> taken + k]
      /\ taken' = taken + want /\ want' = 0
      /\ UNCHANGED <<issued, pc, mode, partial_served, credits, n_batch, qc_queue>>
  BY Facts DEF GetDone, issuer
<1>2. Len(batch_in') = want
  BY <1>1
<1>3. pc \in {"wait_first", "wait_next"} /\ batch_in = <<>>
  BY <1>1, Places2 DEF CInv, Fetching, Places, LsoPlaces
<1>4. Len(batch_in) = 0
  BY <1>3
<1>5. Processed' = Processed /\ Asked' = Asked
  BY <1>1, <1>2, <1>4 DEF Processed, Asked
<1>6. Part' = Part /\ Whole' = Whole
  BY <1>1 DEF Part, Whole
<1>7. Counted' = Counted
  BY <1>5, <1>6 DEF Counted
<1>8. pc' # "start" /\ mode' = "partial" => Part' > 0
  BY <1>1, <1>6 DEF Crediting, Credits
<1> QED BY <1>1, <1>5, <1>6, <1>7, <1>8, CreditsKept DEF Before

LEMMA StartCredits ==
  ASSUME CInv, Crediting, StartFull \/ StartPartial
  PROVE  Crediting'
<1>1. /\ pc = "start" /\ pc' = "wait_first"
      /\ UNCHANGED <<issued, taken, batch_in, credits, n_batch, qc_queue>>
  BY DEF StartFull, StartPartial, issuer
<1>2. PICK c \in Nat : Credits(c)
  BY DEF Crediting
<1>3. /\ want = 0 /\ Part = 0 /\ Whole = 0 /\ Counted = BatchSize * c
      /\ Processed = BatchSize * c /\ c <= Len(issued)
      /\ BatchSize * c \in Nat /\ taken \in Nat /\ Counted = taken
  <2>1. want = 0 /\ Part = 0 /\ Whole = 0
    BY <1>1 DEF Part, CInv, Fetching, Whole
  <2>2. BatchSize * c \in Nat /\ BatchSize \in Nat
    BY Sizes
  <2>3. Counted = BatchSize * c + 0 /\ Processed = BatchSize * c /\ c <= Len(issued)
    BY <1>1, <1>2, <2>1 DEF Credits, Before
  <2>4. taken \in Nat /\ Counted = taken
    BY <2>1, Facts
  <2> QED BY <2>1, <2>2, <2>3, <2>4
<1>4. Processed' = Processed
  BY <1>1 DEF Processed
<1>5. Counted' = BatchSize * c + Whole' /\ (mode' = "partial" => Part' > 0)
  <2>1. CASE StartFull
    <3>1. mode' = "full" /\ want' = BatchSize
      BY <2>1 DEF StartFull
    <3>2. Part' = 0 /\ Whole' = BatchSize /\ Asked' = taken + BatchSize
      BY <1>1, <3>1 DEF Part, Whole, Asked
    <3>3. Counted' = taken + BatchSize
      BY <1>3, <3>2, Sizes DEF Counted
    <3> QED BY <1>3, <3>1, <3>2, <3>3
  <2>2. CASE StartPartial
    <3>1. mode' = "partial" /\ want' = 1 /\ partial_served' = 0
      BY <2>2 DEF StartPartial
    <3>2. Part' = 1 /\ Whole' = 0 /\ Asked' = taken + 1
      BY <1>1, <3>1 DEF Part, Whole, Asked
    <3>3. Counted' = taken
      BY <1>3, <3>2 DEF Counted
    <3> QED BY <1>3, <3>2, <3>3
  <2> QED BY <2>1, <2>2
<1>6. Credits(c)'
  BY <1>1, <1>2, <1>3, <1>4, <1>5 DEF Credits, Before, credits, Adding
<1> QED BY <1>1, <1>6 DEF Crediting, credits

(* The first message of batch c + 1 tells how many descriptors it is for.  *)
LEMMA FirstCredits ==
  ASSUME CInv, data_done <= Issued, Crediting, FirstArrived
  PROVE  Crediting'
<1>1. /\ want = 0 /\ pc = "wait_first" /\ pc' = "process"
      /\ UNCHANGED <<issued, taken, want, mode, batch_in, credits>>
      /\ n_batch' = BatchOf(batch_in[1]).n /\ qc_queue' = BatchOf(batch_in[1]).queue
      /\ partial_served' = IF mode = "partial" THEN 1 ELSE partial_served
  BY DEF FirstArrived, issuer, rings
<1>2. PICK c \in Nat : Credits(c)
  BY DEF Crediting
<1>3. /\ Part' = Part /\ Whole' = Whole /\ Asked' = Asked
      /\ (mode = "partial" => partial_served = 0)
  <2>1. mode = "partial" => partial_served = 0
    BY <1>1 DEF CInv, Fetching
  <2>2. Part' = Part
    BY <1>1, <2>1 DEF Part
  <2> QED BY <1>1, <2>1, <2>2 DEF Whole, Asked
<1>4. Counted' = Counted
  BY <1>3 DEF Counted
<1>5. batch_in # <<>> /\ Processed = BatchSize * c
  BY <1>1, <1>2 DEF CInv, Fetching, Credits, Before
<1>6. batch_in[1] = BatchSize * c + 1 /\ BatchSize * c + 1 <= Issued
  <2>1. Len(batch_in) \in Nat /\ Len(batch_in) > 0 /\ Processed = taken - Len(batch_in)
    BY <1>5, Places2
  <2>2. batch_in[1] = Processed + 1
    BY <2>1 DEF CInv, Fetching
  <2>3. PICK r, s, d \in 0 .. Issued : Stands(r, s, d)
    BY DEF CInv, Numbers
  <2>4. taken <= Issued /\ taken \in Nat /\ Issued \in Nat
    <3>1. Asked = taken /\ Asked <= d /\ d \in 0 .. Issued /\ Issued \in Nat /\ taken \in Nat
      BY <1>1, <2>3, Facts DEF Stands
    <3> QED BY <3>1
  <2>5. BatchSize * c \in Nat
    BY Sizes
  <2> QED BY <1>5, <2>1, <2>2, <2>4, <2>5
<1>7. c + 1 <= Len(issued)
  <2>1. Len(issued) \in Nat /\ BatchSize \in Nat \ {0}
    BY Sizes DEF CInv, TypeOK
  <2>2. BatchSize * c \in Nat /\ BatchSize * Len(issued) \in Nat
        /\ BatchSize * c < BatchSize * Len(issued)
    <3>1. BatchSize * c \in Nat /\ BatchSize * Len(issued) \in Nat
      BY <2>1
    <3> QED BY <1>6, <3>1 DEF Issued
  <2>3. c <= Len(issued)
    BY <1>2 DEF Credits
  <2>4. c # Len(issued)
    BY <2>2
  <2> QED BY <2>1, <2>3, <2>4
<1>8. BatchOf(batch_in[1]) = issued[c + 1]
  <2>1. BatchSize \in Nat \ {0} /\ 0 \in 0 .. BatchSize - 1 /\ c \in Int
    BY Sizes
  <2>2. (BatchSize * c + 0) \div BatchSize = c
    BY <2>1, Quotient, Zenon
  <2>3. BatchSize * c \in Nat
    BY <2>1
  <2> DEFINE m == batch_in[1]
             x == BatchSize * c
  <2>4. m - 1 = x + 0
    BY <1>6, <2>3
  <2>5. (m - 1) \div BatchSize = c
    BY <2>2, <2>4, Zenon
  <2> HIDE DEF m, x
  <2>6. BatchOf(m) = issued[c + 1]
    BY <2>5, Zenon DEF BatchOf
  <2> QED BY <2>6 DEF m
<1>9. Part' > 0 \/ mode # "partial"
  BY <1>1, <1>2, <1>3 DEF Credits
<1>10. Credits(c)'
  BY <1>1, <1>2, <1>3, <1>4, <1>7, <1>8, <1>9 DEF Credits, Before, credits, Adding
<1> QED BY <1>1, <1>10 DEF Crediting, credits

LEMMA NextCredits ==
  ASSUME CInv, Crediting, FetchNext \/ NextArrived
  PROVE  Crediting'
<1>1. /\ pc \in {"more", "wait_next"} /\ pc' \in {"wait_next", "process"}
      /\ UNCHANGED <<issued, taken, batch_in, credits, n_batch, qc_queue>>
  BY DEF FetchNext, NextArrived, issuer, rings
<1>2. pc' \notin Before /\ pc \notin Before /\ pc # "start" /\ pc' # "start"
  BY <1>1 DEF Before
<1>3. PICK c \in Nat : Credits(c)
  BY DEF Crediting
<1>4. BatchSize \in Nat /\ BatchSize * c \in Nat /\ BatchSize > 0 /\ partial_served \in Nat
  BY Sizes, Facts
<1>5. CASE FetchNext
  <2>1. /\ pc = "more" /\ pc' = "wait_next" /\ want' = 1 /\ partial_served' = partial_served
    BY <1>5 DEF FetchNext
  <2>2. /\ mode = "partial" /\ want = 0 /\ Part = partial_served /\ taken \in Nat
        /\ Asked = taken /\ Asked' = taken + 1 /\ Counted = taken - partial_served
        /\ Whole = 0
    <3>1. mode = "partial" /\ want = 0
      BY <2>1 DEF CInv, Fetching
    <3>2. Part = partial_served /\ Whole = 0
      BY <2>1, <3>1 DEF Part, Whole
    <3>3. taken \in Nat /\ Asked = taken /\ Counted = taken - partial_served
      BY <3>1, <3>2, Facts
    <3> QED BY <1>1, <2>1, <3>1, <3>2, <3>3 DEF Asked
  <2>3. Counted = BatchSize * c
    BY <1>3, <1>4, <2>2 DEF Credits
  <2>4. CASE AtLast
    <3>1. mode' = "last" /\ partial_served = BatchSize - 1
      BY <1>5, <2>4 DEF FetchNext, AtLast
    <3>2. Part' = 0 /\ Whole' = BatchSize
      BY <2>1, <3>1 DEF Part, Whole
    <3>3. Counted' = Counted + BatchSize
      BY <1>4, <2>2, <3>1, <3>2 DEF Counted
    <3>4. Counted' = BatchSize * c + Whole'
      BY <2>3, <3>2, <3>3
    <3>5. Credits(c)'
      BY <1>1, <1>2, <1>3, <3>1, <3>4 DEF Credits, credits, Adding
    <3> QED BY <1>1, <3>5 DEF Crediting, credits
  <2>5. CASE ~AtLast
    <3>1. mode' = "partial"
      BY <1>5, <2>2, <2>5 DEF FetchNext
    <3>2. Part' = partial_served + 1 /\ Whole' = 0
      BY <2>1, <3>1 DEF Part, Whole
    <3>3. Counted' = Counted
      BY <1>4, <2>2, <3>2 DEF Counted
    <3>4. Part' > 0
      BY <1>4, <3>2
    <3> QED BY <1>1, <1>2, <2>2, <3>2, <3>3, <3>4, CreditsKept
  <2> QED BY <2>4, <2>5
<1>6. CASE NextArrived
  <2>1. /\ pc = "wait_next" /\ pc' = "process" /\ UNCHANGED <<want, mode>>
        /\ partial_served' = IF mode = "partial" THEN partial_served + 1 ELSE partial_served
    BY <1>6 DEF NextArrived, rings
  <2>2. Part' = Part /\ Whole' = Whole /\ Asked' = Asked
    BY <1>1, <2>1 DEF Part, Whole, Asked
  <2>3. Counted' = Counted
    BY <2>2 DEF Counted
  <2>4. pc' # "start" /\ mode' = "partial" => Part' > 0
    BY <1>2, <1>3, <2>1, <2>2 DEF Credits
  <2> QED BY <1>1, <1>2, <2>2, <2>3, <2>4, CreditsKept
<1> QED BY <1>5, <1>6

(* A batch is credited.                                                    *)
LEMMA CreditCredits ==
  ASSUME CInv, Crediting, Credit
  PROVE  Crediting'
<1>1. /\ pc = "credit" /\ pc' = "start" /\ qc_add = Idle
      /\ qc_add' = [queue |-> qc_queue, n |-> n_batch]
      /\ UNCHANGED <<issued, taken, want, mode, partial_served, batch_in, tx_r>>
  BY DEF Credit, QcIdle, issuer, rings
<1>2. PICK c \in Nat : Credits(c)
  BY DEF Crediting
<1>3. /\ mode # "partial" /\ want = 0 /\ batch_in = <<>>
  BY <1>1 DEF CInv, Fetching
<1>4. Part = 0 /\ Part' = 0 /\ Whole = BatchSize /\ Whole' = 0 /\ Asked' = Asked
  BY <1>1, <1>3 DEF Part, Whole, Asked
<1>5. /\ c + 1 <= Len(issued) /\ n_batch = issued[c + 1].n /\ qc_queue = issued[c + 1].queue
      /\ issued \in Seq(Batches)
  BY <1>1, <1>2 DEF Credits, Before, CInv, TypeOK
<1>6. /\ Counted' = BatchSize * (c + 1) + Whole'
      /\ Processed' = BatchSize * (c + 1)
  <2>1. BatchSize \in Nat /\ BatchSize * c \in Nat
        /\ BatchSize * (c + 1) = BatchSize * c + BatchSize
    BY Sizes
  <2>2. Counted = BatchSize * c + BatchSize
    BY <1>2, <1>4 DEF Credits
  <2>3. Counted = Asked /\ Asked = taken /\ taken \in Nat
    BY <1>3, <1>4, Facts
  <2>4. Len(batch_in) = 0
    BY <1>3
  <2>5. Processed' = taken - Len(batch_in)
    BY <1>1 DEF Processed
  <2>6. Counted' = Asked' - Part'
    BY DEF Counted
  <2> QED BY <1>4, <2>1, <2>2, <2>3, <2>4, <2>5, <2>6
<1>7. issued[c + 1] \in Batches /\ n_batch \in Nat /\ qc_queue \in Queues
  <2>1. c + 1 \in 1 .. Len(issued)
    BY <1>5
  <2>2. issued[c + 1] \in Batches
    BY <1>5, <2>1
  <2> QED BY <1>5, <2>2, BatchAssumption DEF Queues
<1>8. ASSUME NEW q \in Queues PROVE tx_r[q] + Adding(q)' = DescriptorsIn(issued, q, c + 1)
  <2>1. Adding(q) = 0
    BY <1>1 DEF Adding, Idle
  <2>2. tx_r[q] + Adding(q) = DescriptorsIn(issued, q, c) /\ tx_r[q] \in Nat
    BY <1>2 DEF Credits, Crediting
  <2>3. DescriptorsIn(issued, q, c + 1) = DescriptorsIn(issued, q, c) + Of(issued[c + 1], q)
    BY <1>5, OneMoreBatch
  <2>4. Adding(q)' = Of(issued[c + 1], q)
    BY <1>1, <1>5 DEF Adding, Of
  <2>5. tx_r[q] = DescriptorsIn(issued, q, c)
    BY <2>1, <2>2
  <2> QED BY <2>3, <2>4, <2>5
<1>9. Credits(c + 1)'
  <2>1. \A q \in Queues : tx_r'[q] + Adding(q)' = DescriptorsIn(issued', q, c + 1)
    BY <1>1, <1>8
  <2> QED BY <1>1, <1>5, <1>6, <2>1 DEF Credits, Before
<1> QED BY <1>1, <1>7, <1>9 DEF Crediting

(* The addition is carried out.                                            *)
LEMMA AddedCredits ==
  ASSUME CInv, Crediting, QcAddDone
  PROVE  Crediting'
<1>1. /\ qc_add # Idle /\ qc_add' = Idle
      /\ tx_r' = [tx_r EXCEPT ![qc_add.queue] = tx_r[qc_add.queue] + qc_add.n]
      /\ UNCHANGED <<issued, taken, want, mode, pc, partial_served, batch_in, n_batch, qc_queue>>
  BY DEF QcAddDone, issuer, rings, context
<1>2. PICK c \in Nat : Credits(c)
  BY DEF Crediting
<1>3. qc_add.queue \in Queues /\ qc_add.n \in Nat /\ tx_r \in [Queues -> Nat]
  BY <1>1 DEF Crediting
<1>4. tx_r' \in [Queues -> Nat]
  BY <1>1, <1>3
<1>5. ASSUME NEW q \in Queues PROVE tx_r'[q] + Adding(q)' = DescriptorsIn(issued, q, c)
  <2>1. tx_r[q] + Adding(q) = DescriptorsIn(issued, q, c) /\ tx_r[q] \in Nat
    BY <1>2, <1>3 DEF Credits
  <2>2. Adding(q)' = 0
    BY <1>1 DEF Adding, Idle
  <2>3. tx_r'[q] = tx_r[q] + Adding(q)
    BY <1>1, <1>3 DEF Adding
  <2>4. tx_r'[q] \in Nat
    BY <1>4
  <2> QED BY <2>1, <2>2, <2>3, <2>4
<1>6. Part' = Part /\ Whole' = Whole /\ Asked' = Asked /\ Processed' = Processed
  BY <1>1 DEF Part, Whole, Asked, Processed
<1>7. Counted' = Counted
  BY <1>6 DEF Counted
<1>8. Credits(c)'
  BY <1>1, <1>2, <1>5, <1>6, <1>7 DEF Credits
<1> QED BY <1>1, <1>4, <1>8 DEF Crediting

(* What is issued after them changes nothing about the batches credited.   *)
LEMMA IssueCredits ==
  ASSUME CInv, Crediting, NEW b \in Batches, IssueBatch(b)
  PROVE  Crediting'
<1>1. issued' = Append(issued, b) /\ UNCHANGED <<rings, context, credits>>
  BY DEF IssueBatch
<1>2. PICK c \in Nat : Credits(c)
  BY DEF Crediting
<1>3. /\ issued \in Seq(Batches) /\ Len(issued) \in Nat /\ Len(issued') = Len(issued) + 1
      /\ \A i \in 1 .. Len(issued) : issued'[i] = issued[i]
      /\ c <= Len(issued) /\ c <= Len(issued')
  <2>1. issued \in Seq(Batches)
    BY DEF CInv, TypeOK
  <2>2. c <= Len(issued)
    BY <1>2 DEF Credits
  <2> QED BY <1>1, <2>1, <2>2
<1>4. ASSUME NEW q \in Queues PROVE DescriptorsIn(issued', q, c) = DescriptorsIn(issued, q, c)
  <2>1. \A i \in 1 .. c : issued'[i] = issued[i]
    BY <1>3
  <2> QED BY <2>1, SameDescriptors
<1>5. pc \notin Before => /\ c + 1 <= Len(issued')
                          /\ n_batch = issued'[c + 1].n /\ qc_queue = issued'[c + 1].queue
  <2> SUFFICES ASSUME pc \notin Before
               PROVE  /\ c + 1 <= Len(issued')
                      /\ n_batch = issued'[c + 1].n /\ qc_queue = issued'[c + 1].queue
    OBVIOUS
  <2>1. /\ c + 1 <= Len(issued) /\ n_batch = issued[c + 1].n /\ qc_queue = issued[c + 1].queue
    BY <1>2 DEF Credits
  <2>2. c + 1 \in 1 .. Len(issued)
    BY <1>3, <2>1
  <2>3. issued'[c + 1] = issued[c + 1] /\ c + 1 <= Len(issued')
    BY <1>3, <2>2
  <2> QED BY <2>1, <2>3
<1>6. Part' = Part /\ Whole' = Whole /\ Asked' = Asked /\ Processed' = Processed
  BY <1>1 DEF Part, Whole, Asked, Processed, rings, context
<1>7. Counted' = Counted
  BY <1>6 DEF Counted
<1>8. \A q \in Queues : tx_r'[q] + Adding(q)' = DescriptorsIn(issued', q, c)
  <2> SUFFICES ASSUME NEW q \in Queues
               PROVE  tx_r'[q] + Adding(q)' = DescriptorsIn(issued', q, c)
    OBVIOUS
  <2>1. tx_r[q] + Adding(q) = DescriptorsIn(issued, q, c)
    BY <1>2 DEF Credits
  <2>2. tx_r' = tx_r /\ Adding(q)' = Adding(q)
    BY <1>1 DEF credits, Adding
  <2> QED BY <1>4, <2>1, <2>2
<1>9. pc' = pc /\ mode' = mode /\ n_batch' = n_batch /\ qc_queue' = qc_queue
      /\ tx_r' = tx_r /\ qc_add' = qc_add
  BY <1>1 DEF context, credits
<1>10. Credits(c)'
  BY <1>2, <1>3, <1>5, <1>6, <1>7, <1>8, <1>9 DEF Credits
<1> QED BY <1>9, <1>10 DEF Crediting

LEMMA NextCrediting == IInv /\ Crediting /\ [Next]_vars => Crediting'
<1> SUFFICES ASSUME IInv, Crediting, [Next]_vars PROVE Crediting'
  OBVIOUS
<1>1. CInv /\ data_done <= Issued
  BY DEF IInv, DmaOrder
<1>2. CASE \/ PutLso \/ DmaDone \/ DataReflected \/ JumboReflected \/ ServedReflected
           \/ distr_notify \/ WaitForMore \/ JumboWait \/ ProcessLso \/ LsoGet \/ UNCHANGED vars
  BY <1>1, <1>2, QuietCredits
<1>3. CASE ProcessPacket \/ ProcessNone \/ Segment
  BY <1>1, <1>3, MessageCredits
<1>4. CASE GetDone
  BY <1>1, <1>4, GetDoneCredits
<1>5. CASE StartFull \/ StartPartial
  BY <1>1, <1>5, StartCredits
<1>6. CASE FirstArrived
  BY <1>1, <1>6, FirstCredits
<1>7. CASE FetchNext \/ NextArrived
  BY <1>1, <1>7, NextCredits
<1>8. CASE Credit
  BY <1>1, <1>8, CreditCredits
<1>9. CASE QcAddDone
  BY <1>1, <1>9, AddedCredits
<1>10. ASSUME NEW b \in Batches, IssueBatch(b) PROVE Crediting'
  BY <1>1, <1>10, IssueCredits
<1> QED BY <1>2, <1>3, <1>4, <1>5, <1>6, <1>7, <1>8, <1>9, <1>10 DEF Next, notify, Engines

(* The batches processed to the end, as the property counts them.          *)
LEMMA CreditedAre ==
  ASSUME CInv, NEW c \in Nat, Credits(c)
  PROVE  Credited = c
<1> DEFINE B == BatchSize
           a == taken + want + B - 1
<1>1. /\ B \in Nat \ {0} /\ B * c \in Nat /\ B * (c + 1) = B * c + B
      /\ c \in Int /\ c + 1 \in Int
  BY Sizes
<1>2. /\ Asked = taken + want /\ Part \in 0 .. B /\ Counted = Asked - Part
      /\ Counted = B * c + Whole /\ Asked \in Nat
  BY Facts DEF Credits
<1>3. CASE pc = "start"
  <2>1. Part = 0 /\ Whole = 0
    BY <1>3 DEF Part, Whole
  <2>2. Asked = B * c
    BY <1>1, <1>2, <2>1
  <2>3. B - 1 \in 0 .. B - 1 /\ a = B * c + (B - 1)
    BY <1>1, <1>2, <2>2
  <2> HIDE DEF a, B
  <2>4. (B * c + (B - 1)) \div B = c
    BY <1>1, <2>3, Quotient
  <2>5. a \div B = c
    BY <2>3, <2>4, Zenon
  <2> QED BY <1>3, <2>5, Zenon DEF Credited, InBatch, BatchesBegun, a, B
<1>4. CASE pc # "start"
  <2> DEFINE p == Asked - B * c
  <2>1. p \in 1 .. B
    <3>1. CASE mode = "partial"
      <4>1. Whole = 0 /\ Part > 0
        BY <1>4, <3>1 DEF Whole, Credits
      <4> QED BY <1>1, <1>2, <4>1
    <3>2. CASE mode # "partial"
      <4>1. Whole = B /\ Part = 0
        BY <1>4, <3>2 DEF Whole, Part
      <4> QED BY <1>1, <1>2, <4>1
    <3> QED BY <3>1, <3>2
  <2>2. p - 1 \in 0 .. B - 1 /\ a = B * (c + 1) + (p - 1)
    BY <1>1, <1>2, <2>1
  <2> HIDE DEF a, B, p
  <2>3. (B * (c + 1) + (p - 1)) \div B = c + 1
    BY <1>1, <2>2, Quotient
  <2>4. a \div B = c + 1
    BY <2>2, <2>3, Zenon
  <2>5. BatchesBegun = c + 1
    BY <2>4, Zenon DEF BatchesBegun, a, B
  <2>6. Credited = BatchesBegun - 1
    BY <1>4 DEF Credited, InBatch
  <2> QED BY <1>1, <2>5, <2>6
<1> QED BY <1>3, <1>4

(* TX_R of every queue, with the addition under way, stands for the        *)
(* descriptors of exactly the batches that were processed to the end,      *)
(* however the batches were fetched and whichever queues they are of.      *)
THEOREM CreditsAreExact == Spec => []CreditsExact
<1>1. IInv /\ Crediting => CreditsExact
  <2> SUFFICES ASSUME IInv, Crediting, NEW q \in Queues
               PROVE  tx_r[q] + Adding(q) = DescriptorsOf(q, Credited)
    BY DEF CreditsExact, Adding
  <2>1. PICK c \in Nat : Credits(c)
    BY DEF Crediting
  <2>2. Credited = c
    BY <2>1, CreditedAre DEF IInv
  <2>3. DescriptorsOf(q, c) = DescriptorsIn(issued, q, c)
    BY Zenon DEF DescriptorsOf, DescriptorsIn, Of
  <2>4. tx_r[q] + Adding(q) = DescriptorsIn(issued, q, c)
    BY <2>1 DEF Credits
  <2> QED BY <2>2, <2>3, <2>4, Zenon
<1> QED BY <1>1, InitIInv, NextIInv, InitCrediting, NextCrediting, PTL DEF Spec

----------------------------------------------------------------------------
(* What has been enqueued is what the notifier passed: the packets of the  *)
(* messages it processed to the end, and the entries it is done with.      *)
Consumed  == IF pc \in {"jumbo", "segment"} THEN lso_taken - 1 ELSE lso_taken
Passed(p) == IF Len(p) = 1 THEN p[1] <= Processed ELSE p[2] <= Consumed

InOrder ==
  /\ \A i \in DOMAIN out : out[i].paced_by = out[i].packet[1]
  /\ \A i, j \in DOMAIN out : i < j => Earlier(out[i].packet, out[j].packet)
AllPassed == Gone = {p \in Packets : Passed(p)}

(* What has arrived or is asked for is of one batch, or one message of it. *)
Handful == want + Len(batch_in) <= IF mode = "partial" THEN 1 ELSE BatchSize

Passing == InOrder /\ AllPassed /\ Handful

(* A packet of a message of its own, and one that ends at entry k.         *)
Single(m) == m \in 1 .. Issued /\ Message(m)[1] = "packet"
Piece(k)  == k \in 1 .. Len(lso_entries) /\ lso_entries[k].eop
Pair(k)   == <<lso_entries[k].message, k>>

LEMMA PacketShape ==
  ASSUME LsoPlace, NEW p
  PROVE  p \in Packets <=> \/ \E m : Single(m) /\ p = <<m>>
                           \/ \E k : Piece(k) /\ p = Pair(k)
<1>1. DOMAIN lso_entries = 1 .. Len(lso_entries)
  BY DEF LsoPlace, Entries
<1>2. p \in {<<m>> : m \in {l \in 1 .. Issued : Message(l)[1] = "packet"}}
        <=> \E m : Single(m) /\ p = <<m>>
  BY DEF Single
<1>3. p \in {<<lso_entries[k].message, k>> : k \in {j \in DOMAIN lso_entries : lso_entries[j].eop}}
        <=> \E k : Piece(k) /\ p = Pair(k)
  BY <1>1 DEF Piece, Pair
<1> QED BY <1>2, <1>3 DEF Packets

LEMMA OfSingle ==
  ASSUME NEW m
  PROVE  /\ Len(<<m>>) = 1 /\ <<m>>[1] = m /\ Last(<<m>>) = m
         /\ Passed(<<m>>) <=> m <= Processed
BY DEF Last, Passed

LEMMA OfPiece ==
  ASSUME NEW k
  PROVE  /\ Len(Pair(k)) = 2 /\ Pair(k)[1] = lso_entries[k].message /\ Last(Pair(k)) = k
         /\ Passed(Pair(k)) <=> k <= Consumed
BY DEF Last, Passed, Pair

LEMMA PlaceTypes ==
  ASSUME CInv, LsoPlace
  PROVE  /\ Processed \in Int /\ Consumed \in Int /\ lso_taken \in Nat
         /\ Len(lso_entries) \in Nat /\ Consumed <= lso_taken
         /\ \A k \in 1 .. Len(lso_entries) : lso_entries[k].message \in Nat
<1>1. lso_taken \in Nat
  BY DEF CInv, TypeOK
<1>2. taken \in Nat /\ Len(batch_in) \in Nat
  BY Facts, Places2
<1>3. Consumed \in Int /\ Consumed <= lso_taken
  BY <1>1 DEF Consumed
<1>4. Processed \in Int
  BY <1>2 DEF Processed
<1> QED BY <1>1, <1>3, <1>4, EntryMessages

(* The entries consumed are those of the messages processed, and may be    *)
(* some of the next message's.                                             *)
LEMMA Around ==
  ASSUME CInv, LsoPlace, NEW k \in 1 .. Len(lso_entries)
  PROVE  /\ k <= Consumed => lso_entries[k].message <= Processed + 1
         /\ ~(k <= Consumed) => Processed < lso_entries[k].message
<1> DEFINE ms(i) == lso_entries[i].message
<1>1. /\ Processed \in Int /\ lso_taken \in Nat /\ Len(lso_entries) \in Nat
      /\ \A i \in 1 .. Len(lso_entries) : ms(i) \in Nat
  BY PlaceTypes
<1>2. \A i, j \in 1 .. Len(lso_entries) : i <= j => ms(i) <= ms(j)
  <2> SUFFICES ASSUME NEW i \in 1 .. Len(lso_entries), NEW j \in 1 .. Len(lso_entries), i <= j
               PROVE  ms(i) <= ms(j)
    OBVIOUS
  <2>1. CASE i = j
    BY <1>1, <2>1
  <2>2. CASE i # j
    <3>1. i < j
      BY <1>1, <2>2
    <3>2. Entries(lso_entries, Issued, LsoMessages)
      BY DEF LsoPlace
    <3> QED BY <3>1, <3>2 DEF Entries
  <2> QED BY <2>1, <2>2
<1>3. CASE pc \notin LsoPlaces
  <2>1. Consumed = lso_taken /\ (k <= lso_taken <=> ms(k) <= Processed)
    BY <1>3 DEF Consumed, LsoPlaces, LsoPlace
  <2> QED BY <1>1, <2>1
<1>4. CASE pc = "lso_get"
  <2>1. Consumed = lso_taken /\ lso_taken + 1 \in 1 .. Len(lso_entries)
        /\ ms(lso_taken + 1) = Processed + 1
    BY <1>4 DEF Consumed, LsoPlace
  <2>2. k <= lso_taken => ms(k) <= ms(lso_taken + 1)
    BY <1>1, <1>2, <2>1
  <2>3. ~(k <= lso_taken) => ms(lso_taken + 1) <= ms(k)
    BY <1>1, <1>2, <2>1
  <2> QED BY <1>1, <2>1, <2>2, <2>3
<1>5. CASE pc \in {"jumbo", "segment"}
  <2>1. Consumed = lso_taken - 1 /\ lso_taken \in 1 .. Len(lso_entries)
        /\ ms(lso_taken) = Processed + 1
    BY <1>5 DEF Consumed, LsoPlace
  <2>2. k <= lso_taken - 1 => ms(k) <= ms(lso_taken)
    BY <1>1, <1>2, <2>1
  <2>3. ~(k <= lso_taken - 1) => ms(lso_taken) <= ms(k)
    BY <1>1, <1>2, <2>1
  <2> QED BY <1>1, <2>1, <2>2, <2>3
<1> QED BY <1>3, <1>4, <1>5 DEF LsoPlaces

(* What was passed was issued before what was not.                         *)
LEMMA PassedFirst ==
  ASSUME CInv, LsoPlace, NEW p \in Packets, NEW q \in Packets, Passed(q), ~Passed(p)
  PROVE  Earlier(q, p)
<1> DEFINE ms(i) == lso_entries[i].message
<1>1. /\ Processed \in Int /\ Consumed \in Int /\ Issued \in Nat
      /\ Len(lso_entries) \in Nat
      /\ \A i \in 1 .. Len(lso_entries) : ms(i) \in Nat
  BY PlaceTypes, Facts
<1>2. /\ (\E m : Single(m) /\ p = <<m>>) \/ (\E k : Piece(k) /\ p = Pair(k))
      /\ (\E m : Single(m) /\ q = <<m>>) \/ (\E k : Piece(k) /\ q = Pair(k))
  BY PacketShape
<1>3. ASSUME NEW m, Single(m), p = <<m>>, NEW n, Single(n), q = <<n>>
      PROVE  Earlier(q, p)
  <2>1. n <= Processed /\ ~(m <= Processed) /\ q[1] = n /\ p[1] = m
    BY <1>3, OfSingle
  <2>2. m \in Int /\ n \in Int
    BY <1>1, <1>3 DEF Single
  <2>3. n < m
    BY <1>1, <2>1, <2>2
  <2> QED BY <2>1, <2>3 DEF Earlier
<1>4. ASSUME NEW k, Piece(k), p = Pair(k), NEW n, Single(n), q = <<n>>
      PROVE  Earlier(q, p)
  <2>1. n <= Processed /\ ~(k <= Consumed) /\ q[1] = n /\ p[1] = ms(k)
    BY <1>4, OfSingle, OfPiece
  <2>2. n \in Int /\ k \in 1 .. Len(lso_entries)
    BY <1>1, <1>4 DEF Single, Piece
  <2>3. Processed < ms(k) /\ ms(k) \in Nat
    BY <1>1, <2>1, <2>2, Around
  <2>4. n < ms(k)
    BY <1>1, <2>1, <2>2, <2>3
  <2> QED BY <2>1, <2>4 DEF Earlier
<1>5. ASSUME NEW m, Single(m), p = <<m>>, NEW k, Piece(k), q = Pair(k)
      PROVE  Earlier(q, p)
  <2>1. k <= Consumed /\ ~(m <= Processed) /\ q[1] = ms(k) /\ p[1] = m
    BY <1>5, OfSingle, OfPiece
  <2>2. m \in Int /\ k \in 1 .. Len(lso_entries)
    BY <1>1, <1>5 DEF Single, Piece
  <2>3. ms(k) <= Processed + 1 /\ ms(k) \in Nat
    BY <1>1, <2>1, <2>2, Around
  <2>4. m # ms(k)
    <3>1. ms(k) \in LsoMessages
      BY <2>2 DEF LsoPlace, Entries
    <3>2. m \notin LsoMessages
      BY <1>5 DEF Single, LsoMessages, IsLso
    <3> QED BY <3>1, <3>2
  <2>5. ms(k) < m
    BY <1>1, <2>1, <2>2, <2>3, <2>4
  <2> QED BY <2>1, <2>5 DEF Earlier
<1>6. ASSUME NEW j, Piece(j), p = Pair(j), NEW k, Piece(k), q = Pair(k)
      PROVE  Earlier(q, p)
  <2>1. /\ k <= Consumed /\ ~(j <= Consumed) /\ q[1] = ms(k) /\ p[1] = ms(j)
        /\ Last(q) = k /\ Last(p) = j
    BY <1>6, OfPiece
  <2>2. j \in 1 .. Len(lso_entries) /\ k \in 1 .. Len(lso_entries)
    BY <1>6 DEF Piece
  <2>3. k < j /\ ms(k) \in Nat /\ ms(j) \in Nat
    BY <1>1, <2>1, <2>2
  <2>4. ms(k) <= ms(j)
    <3>1. Entries(lso_entries, Issued, LsoMessages)
      BY DEF LsoPlace
    <3> QED BY <2>2, <2>3, <3>1 DEF Entries
  <2>5. ms(k) < ms(j) \/ ms(k) = ms(j)
    BY <2>3, <2>4
  <2> QED BY <2>1, <2>3, <2>5 DEF Earlier
<1> QED BY <1>2, <1>3, <1>4, <1>5, <1>6

(* A packet is enqueued behind all that were.                              *)
LEMMA OneMorePassed ==
  ASSUME Enqueued, InOrder, NEW m, NEW p, p[1] = m, \A q \in Gone : Earlier(q, p), Enqueue(m, p)
  PROVE  InOrder' /\ Gone' = Gone \cup {p}
<1> DEFINE e == [packet |-> p, paced_by |-> m]
           L == Len(out)
<1>1. /\ out' = Append(out, e) /\ e.packet = p /\ e.paced_by = m
      /\ out \in Seq([packet : Seq(Nat), paced_by : Nat])
  BY DEF Enqueue, Enqueued
<1> HIDE DEF e
<1>2. /\ DOMAIN out' = 1 .. L + 1 /\ DOMAIN out = 1 .. L /\ L \in Nat
      /\ out'[L + 1] = e /\ \A i \in 1 .. L : out'[i] = out[i]
  BY <1>1
<1> HIDE DEF L
<1>3. \A i \in 1 .. L + 1 : i \in 1 .. L \/ i = L + 1
  BY <1>2
<1>4. \A i \in DOMAIN out' : out'[i].paced_by = out'[i].packet[1]
  BY <1>1, <1>2, <1>3 DEF InOrder
<1>5. ASSUME NEW i \in DOMAIN out', NEW j \in DOMAIN out', i < j
      PROVE  Earlier(out'[i].packet, out'[j].packet)
  <2>1. i \in 1 .. L
    BY <1>2, <1>5
  <2>2. CASE j = L + 1
    <3>1. out'[i].packet \in Gone
      BY <1>2, <2>1 DEF Gone
    <3> QED BY <1>1, <1>2, <2>2, <3>1
  <2>3. CASE j \in 1 .. L
    BY <1>2, <1>5, <2>1, <2>3 DEF InOrder
  <2> QED BY <1>2, <1>3, <2>2, <2>3
<1>6. InOrder'
  <2>1. ASSUME NEW p1, NEW p2 PROVE Earlier(p1, p2)' <=> Earlier(p1, p2)
    BY DEF Earlier, Last
  <2> QED BY <1>4, <1>5 DEF InOrder, Earlier, Last
<1>7. Gone' = Gone \cup {p}
  <2>1. \A i \in DOMAIN out' : out'[i].packet \in Gone \cup {p}
    BY <1>1, <1>2, <1>3 DEF Gone
  <2>2. ASSUME NEW g \in Gone \cup {p} PROVE \E i \in DOMAIN out' : g = out'[i].packet
    <3>1. CASE g = p
      <4>1. L + 1 \in DOMAIN out'
        BY <1>2
      <4> QED BY <1>1, <1>2, <3>1, <4>1
    <3>2. CASE g \in Gone
      <4>1. PICK i \in 1 .. L : g = out[i].packet
        BY <1>2, <3>2 DEF Gone
      <4>2. i \in DOMAIN out' /\ out'[i] = out[i]
        BY <1>2
      <4> QED BY <4>1, <4>2
    <3> QED BY <3>1, <3>2
  <2> QED BY <2>1, <2>2 DEF Gone
<1> QED BY <1>6, <1>7

LEMMA NothingEnqueued ==
  ASSUME InOrder, UNCHANGED out
  PROVE  InOrder' /\ Gone' = Gone
BY DEF InOrder, Gone

LEMMA SamePackets ==
  ASSUME UNCHANGED <<issued, lso_entries>>
  PROVE  Packets' = Packets
BY DEF Packets, Issued, Message, BatchOf

(* A step that enqueues nothing, neither finishes a message nor is done    *)
(* with an entry.                                                          *)
LEMMA PassingKept ==
  ASSUME Passing, UNCHANGED <<issued, lso_entries, out>>, Processed' = Processed,
         Consumed' = Consumed, Handful'
  PROVE  Passing'
<1>1. InOrder' /\ Gone' = Gone /\ Packets' = Packets
  BY NothingEnqueued, SamePackets DEF Passing
<1>2. \A p : Passed(p)' <=> Passed(p)
  BY DEF Passed
<1>3. Gone' = {p \in Packets' : Passed(p)'}
  BY <1>1, <1>2, Zenon DEF Passing, AllPassed
<1> QED BY <1>1, <1>3 DEF Passing, AllPassed

LEMMA InitPassing == Init => Passing
<1> SUFFICES ASSUME Init PROVE Passing
  OBVIOUS
<1>1. out = <<>> /\ issued = <<>> /\ lso_entries = <<>> /\ want = 0 /\ batch_in = <<>>
  BY DEF Init
<1>2. InOrder /\ Gone = {}
  BY <1>1 DEF InOrder, Gone
<1>3. Issued = 0
  BY Sizes DEF Init, Issued
<1>4. Packets = {}
  <2>1. {l \in 1 .. Issued : Message(l)[1] = "packet"} = {}
    BY <1>3
  <2>2. {j \in DOMAIN lso_entries : lso_entries[j].eop} = {}
    BY <1>1
  <2> QED BY <2>1, <2>2 DEF Packets
<1>5. Handful
  <2>1. Len(batch_in) = 0
    BY <1>1
  <2> QED BY <1>1, <2>1, Sizes DEF Handful
<1> QED BY <1>2, <1>4, <1>5 DEF Passing, AllPassed

(* A step of the engines, or of the notifier between two messages.         *)
LEMMA BetweenPassing ==
  ASSUME IInv, Passing,
         \/ PutLso \/ DmaDone \/ DataReflected \/ JumboReflected \/ ServedReflected
         \/ distr_notify \/ QcAddDone \/ FirstArrived \/ WaitForMore \/ ProcessLso
         \/ LsoGet \/ JumboWait \/ Credit \/ UNCHANGED vars
  PROVE  Passing'
<1>1. /\ UNCHANGED <<issued, lso_entries, out, taken, want, batch_in, mode>>
      /\ \/ pc' = pc /\ lso_taken' = lso_taken
         \/ /\ lso_taken' = lso_taken
            /\ pc \notin {"jumbo", "segment"} /\ pc' \notin {"jumbo", "segment"}
         \/ pc = "lso_get" /\ pc' \in {"jumbo", "segment"} /\ lso_taken' = lso_taken + 1
         \/ pc = "jumbo" /\ pc' \in {"jumbo", "segment"} /\ lso_taken' = lso_taken
  BY DEF PutLso, DmaDone, DataReflected, JumboReflected, ServedReflected, distr_notify,
         QcAddDone, FirstArrived, WaitForMore, ProcessLso, LsoGet, JumboWait, Credit,
         vars, issuer, rings, context
<1>2. lso_taken \in Nat
  BY DEF IInv, CInv, TypeOK
<1>3. Processed' = Processed /\ Consumed' = Consumed
  BY <1>1, <1>2 DEF Processed, Consumed
<1>4. Handful'
  BY <1>1 DEF Passing, Handful
<1> QED BY <1>1, <1>3, <1>4, PassingKept

(* A get is begun, or what was asked for arrives.                          *)
LEMMA FetchPassing ==
  ASSUME IInv, Passing, StartFull \/ StartPartial \/ FetchNext \/ NextArrived \/ GetDone
  PROVE  Passing'
<1>1. /\ UNCHANGED <<issued, lso_entries, out, lso_taken>>
      /\ \/ pc' = pc
         \/ pc \in {"start", "more", "wait_next"} /\ pc' \in {"wait_first", "wait_next", "process"}
  BY DEF StartFull, StartPartial, FetchNext, NextArrived, GetDone, issuer, rings
<1>2. Consumed' = Consumed
  BY <1>1 DEF Consumed
<1>3. BatchSize \in Nat /\ BatchSize > 1 /\ Handful /\ want \in Nat /\ taken \in Nat
  BY Sizes, Facts DEF Passing, IInv
<1>4. CASE StartFull \/ StartPartial \/ FetchNext
  <2>1. UNCHANGED <<taken, batch_in>> /\ batch_in = <<>>
    BY <1>4 DEF StartFull, StartPartial, FetchNext, IInv, CInv, Fetching
  <2>2. \/ want' = BatchSize /\ mode' = "full"
        \/ want' = 1
    BY <1>4 DEF StartFull, StartPartial, FetchNext
  <2>3. Len(batch_in') = 0
    BY <2>1
  <2>4. Handful'
    BY <1>3, <2>2, <2>3 DEF Handful
  <2>5. Processed' = Processed
    BY <2>1 DEF Processed
  <2> QED BY <1>1, <1>2, <2>4, <2>5, PassingKept
<1>5. CASE NextArrived
  <2>1. UNCHANGED <<taken, want, batch_in, mode>>
    BY <1>5 DEF NextArrived, rings
  <2>2. Processed' = Processed /\ Handful'
    BY <1>3, <2>1 DEF Processed, Handful
  <2> QED BY <1>1, <1>2, <2>2, PassingKept
<1>6. CASE GetDone
  <2>1. /\ want > 0 /\ batch_in' = [i \in 1 .. want |-> taken + i]
        /\ taken' = taken + want /\ want' = 0 /\ mode' = mode
    BY <1>6 DEF GetDone
  <2>2. batch_in = <<>>
    BY <1>3, <2>1, Places2 DEF IInv, CInv, Fetching, Places, LsoPlaces
  <2>3. Len(batch_in') = want /\ Len(batch_in) = 0
    BY <1>3, <2>1, <2>2
  <2>4. Processed' = Processed
    BY <1>3, <2>1, <2>3 DEF Processed
  <2>5. Handful'
    BY <1>3, <2>1, <2>3 DEF Handful
  <2> QED BY <1>1, <1>2, <2>4, <2>5, PassingKept
<1> QED BY <1>4, <1>5, <1>6

LEMMA FinishHandful ==
  ASSUME CInv, Handful, pc \in {"process", "segment"}, FinishMessage, UNCHANGED <<rings, mode>>
  PROVE  Handful'
<1>1. batch_in # <<>> /\ batch_in' = Tail(batch_in) /\ want' = want /\ want \in Nat
  BY Facts DEF FinishMessage, CInv, Fetching, LsoPlaces, rings
<1>2. Len(batch_in') = Len(batch_in) - 1 /\ Len(batch_in) \in Nat
  BY <1>1, Places2
<1> QED BY <1>1, <1>2, Sizes DEF Handful

(* Packet x is passed; it is enqueued if it is one.                        *)
LEMMA OnePassed ==
  ASSUME IInv, Passing, UNCHANGED <<issued, lso_entries>>, Handful',
         NEW x, ~Passed(x), \A p \in Packets : Passed(p)' <=> Passed(p) \/ p = x,
         IF x \in Packets THEN Enqueue(x[1], x) ELSE UNCHANGED out
  PROVE  Passing'
<1>1. Packets' = Packets
  BY SamePackets
<1>2. InOrder /\ Gone = {p \in Packets : Passed(p)}
  BY DEF Passing, AllPassed
<1>3. CASE x \in Packets
  <2>1. ASSUME NEW q \in Gone PROVE Earlier(q, x)
    <3>1. q \in Packets /\ Passed(q)
      BY <1>2
    <3> QED BY <1>3, <3>1, PassedFirst DEF IInv
  <2>2. InOrder' /\ Gone' = Gone \cup {x}
    <3>1. Enqueue(x[1], x)
      BY <1>3
    <3> QED BY <1>2, <2>1, <3>1, OneMorePassed DEF IInv
  <2>3. Gone' = {p \in Packets' : Passed(p)'}
    <3>1. \A p : p \in Gone' <=> p \in Packets' /\ Passed(p)'
      BY <1>1, <1>2, <1>3, <2>2, Zenon
    <3> QED BY <3>1, Zenon
  <2> QED BY <2>2, <2>3 DEF Passing, AllPassed
<1>4. CASE x \notin Packets
  <2>1. InOrder' /\ Gone' = Gone
    BY <1>2, <1>4, NothingEnqueued
  <2>2. Gone' = {p \in Packets' : Passed(p)'}
    <3>1. \A p : p \in Gone' <=> p \in Packets' /\ Passed(p)'
      BY <1>1, <1>2, <1>4, <2>1, Zenon
    <3> QED BY <3>1, Zenon
  <2> QED BY <2>1, <2>2 DEF Passing, AllPassed
<1> QED BY <1>3, <1>4

LEMMA MessagePassing ==
  ASSUME IInv, Passing, ProcessPacket \/ ProcessNone
  PROVE  Passing'
<1> DEFINE h == Processed + 1
<1>1. /\ pc = "process" /\ pc' \in {"process", "more", "credit"} /\ FinishMessage
      /\ UNCHANGED <<issued, lso_entries, lso_taken, rings, mode>>
  BY DEF ProcessPacket, ProcessNone, FinishMessage, issuer, rings
<1>2. Processed' = h
  <2>1. UNCHANGED <<issued, data_done, jumbo_done, data_refl, jumbo_refl, lso_put,
                    served_refl, counters, rings, mode, num_avail, partial_served>>
    BY DEF ProcessPacket, ProcessNone, issuer
  <2> QED BY <1>1, <2>1, FinishCInv DEF IInv
<1>3. Head(batch_in) = h /\ Processed \in Nat /\ h \in 1 .. Issued
  <2>1. data_done <= Issued
    BY DEF IInv, DmaOrder
  <2> QED BY <1>1, <2>1, AtHead DEF IInv
<1>4. Consumed' = Consumed
  BY <1>1 DEF Consumed
<1>5. Handful'
  BY <1>1, FinishHandful DEF IInv, Passing
<1>6. ~Passed(<<h>>)
  BY <1>3, OfSingle
<1>7. ASSUME NEW p \in Packets PROVE Passed(p)' <=> Passed(p) \/ p = <<h>>
  <2>1. CASE \E m : Single(m) /\ p = <<m>>
    <3>1. PICK m : Single(m) /\ p = <<m>>
      BY <2>1
    <3>2. Len(p) = 1 /\ p[1] = m /\ m \in Int
      BY <3>1, OfSingle DEF Single
    <3>3. (Passed(p) <=> m <= Processed) /\ (Passed(p)' <=> m <= h)
      BY <1>2, <3>2 DEF Passed
    <3>4. p = <<h>> <=> m = h
      BY <3>1
    <3> HIDE DEF h
    <3>5. m <= h <=> m <= Processed \/ m = h
      BY <1>3, <3>2 DEF h
    <3> QED BY <3>3, <3>4, <3>5
  <2>2. CASE \E k : Piece(k) /\ p = Pair(k)
    <3>1. Len(p) = 2
      BY <2>2, OfPiece
    <3>2. p # <<h>>
      BY <3>1
    <3>3. Passed(p)' <=> Passed(p)
      BY <1>4, <3>1 DEF Passed
    <3> QED BY <3>2, <3>3
  <2> QED BY <2>1, <2>2, PacketShape DEF IInv
<1>8. IF <<h>> \in Packets THEN Enqueue(<<h>>[1], <<h>>) ELSE UNCHANGED out
  <2>1. CASE ProcessPacket
    <3>1. Single(h) /\ Enqueue(h, <<h>>)
      BY <1>3, <2>1 DEF ProcessPacket, Single
    <3>2. <<h>> \in Packets
      BY <3>1, PacketShape DEF IInv
    <3> QED BY <3>1, <3>2
  <2>2. CASE ProcessNone
    <3>1. Message(h)[1] = "none" /\ UNCHANGED out
      BY <1>3, <2>2 DEF ProcessNone
    <3>2. ASSUME <<h>> \in Packets PROVE FALSE
      <4>1. (\E m : Single(m) /\ <<h>> = <<m>>) \/ (\E k : Piece(k) /\ <<h>> = Pair(k))
        BY <3>2, PacketShape DEF IInv
      <4>2. \A k : <<h>> # Pair(k)
        BY DEF Pair
      <4>3. Single(h)
        <5>1. PICK m : Single(m) /\ <<h>> = <<m>>
          BY <4>1, <4>2
        <5>2. m = h
          BY <5>1
        <5> QED BY <5>1, <5>2
      <4> QED BY <3>1, <4>3 DEF Single
    <3> QED BY <3>1, <3>2
  <2> QED BY <2>1, <2>2
<1> HIDE DEF h
<1> QED BY <1>1, <1>5, <1>6, <1>7, <1>8, OnePassed

LEMMA SegmentPassing ==
  ASSUME IInv, Passing, Segment
  PROVE  Passing'
<1> DEFINE e == lso_entries[lso_taken]
           x == Pair(lso_taken)
<1>1. /\ pc = "segment" /\ pc' \in {"process", "more", "credit", "lso_get"}
      /\ UNCHANGED <<issued, lso_entries, lso_taken, rings, mode>>
      /\ IF e.eop THEN Enqueue(Head(batch_in), <<e.message, lso_taken>>) ELSE UNCHANGED out
      /\ FinishMessage \/ UNCHANGED batch_in
  BY DEF Segment, FinishMessage, issuer, rings
<1>2. Processed' = Processed + 1 \/ Processed' = Processed
  <2>1. UNCHANGED <<issued, data_done, jumbo_done, data_refl, jumbo_refl, lso_put,
                    served_refl, counters, rings, mode, num_avail, partial_served>>
    BY DEF Segment, issuer
  <2>2. CASE FinishMessage
    BY <1>1, <2>1, <2>2, FinishCInv DEF IInv
  <2>3. CASE UNCHANGED batch_in
    BY <1>1, <2>3 DEF Processed, rings
  <2> QED BY <1>1, <2>2, <2>3
<1>3. Head(batch_in) = Processed + 1 /\ Processed \in Nat
  <2>1. data_done <= Issued
    BY DEF IInv, DmaOrder
  <2> QED BY <1>1, <2>1, AtHead DEF IInv, LsoPlaces
<1>4. /\ lso_taken \in 1 .. Len(lso_entries) /\ e.message = Processed + 1
      /\ e.message \in LsoMessages /\ lso_taken \in Nat
  BY <1>1, PlaceTypes DEF IInv, LsoPlace, Entries
<1>5. Consumed = lso_taken - 1 /\ Consumed' = lso_taken
  BY <1>1 DEF Consumed
<1>6. Handful'
  <2>1. CASE FinishMessage
    BY <1>1, <2>1, FinishHandful DEF IInv, Passing
  <2>2. CASE UNCHANGED batch_in
    BY <1>1, <2>2 DEF Passing, Handful, rings
  <2> QED BY <1>1, <2>1, <2>2
<1>7. ~Passed(x)
  BY <1>4, <1>5, OfPiece
<1>8. ASSUME NEW p \in Packets PROVE Passed(p)' <=> Passed(p) \/ p = x
  <2>1. CASE \E m : Single(m) /\ p = <<m>>
    <3>1. PICK m : Single(m) /\ p = <<m>>
      BY <2>1
    <3>2. Len(p) = 1 /\ p[1] = m /\ m \in Int
      BY <3>1, OfSingle DEF Single
    <3>3. (Passed(p) <=> m <= Processed) /\ (Passed(p)' <=> m <= Processed')
      BY <3>2 DEF Passed
    <3>4. p # x
      BY <3>2, OfPiece
    <3>5. m # Processed + 1
      BY <1>4, <3>1 DEF Single, LsoMessages, IsLso
    <3>6. m <= Processed' <=> m <= Processed
      BY <1>2, <1>3, <3>2, <3>5
    <3> QED BY <3>3, <3>4, <3>6
  <2>2. CASE \E k : Piece(k) /\ p = Pair(k)
    <3>1. PICK k : Piece(k) /\ p = Pair(k)
      BY <2>2
    <3>2. Len(p) = 2 /\ p[2] = k /\ k \in Int
      BY <3>1, PlaceTypes DEF Piece, Pair, IInv
    <3>3. (Passed(p) <=> k <= lso_taken - 1) /\ (Passed(p)' <=> k <= lso_taken)
      BY <1>5, <3>2 DEF Passed
    <3>4. p = x <=> k = lso_taken
      BY <3>1 DEF Pair
    <3> HIDE DEF x
    <3>5. k <= lso_taken <=> k <= lso_taken - 1 \/ k = lso_taken
      BY <1>4, <3>2
    <3> QED BY <3>3, <3>4, <3>5
  <2> QED BY <2>1, <2>2, PacketShape DEF IInv
<1>9. x[1] = e.message /\ x = <<e.message, lso_taken>>
  BY DEF Pair
<1>10. IF x \in Packets THEN Enqueue(x[1], x) ELSE UNCHANGED out
  <2>1. CASE e.eop
    <3>1. x \in Packets
      <4>1. Piece(lso_taken) /\ x = Pair(lso_taken)
        BY <1>4, <2>1 DEF Piece
      <4> QED BY <4>1, PacketShape DEF IInv
    <3>2. Head(batch_in) = x[1] /\ Enqueue(Head(batch_in), x)
      BY <1>1, <1>3, <1>4, <1>9, <2>1
    <3> QED BY <3>1, <3>2
  <2>2. CASE ~e.eop
    <3>1. ASSUME x \in Packets PROVE FALSE
      <4>1. (\E m : Single(m) /\ x = <<m>>) \/ (\E k : Piece(k) /\ x = Pair(k))
        BY <3>1, PacketShape DEF IInv
      <4>2. \A m : x # <<m>>
        BY DEF Pair
      <4>3. Piece(lso_taken)
        <5>1. PICK k : Piece(k) /\ x = Pair(k)
          BY <4>1, <4>2
        <5>2. k = lso_taken
          BY <5>1 DEF Pair
        <5> QED BY <5>1, <5>2
      <4> QED BY <2>2, <4>3 DEF Piece
    <3> QED BY <1>1, <2>2, <3>1
  <2> QED BY <2>1, <2>2
<1> HIDE DEF x
<1> QED BY <1>1, <1>6, <1>7, <1>8, <1>10, OnePassed

(* Nothing of a new batch was passed before.                               *)
LEMMA IssuePassing ==
  ASSUME IInv, Passing, NEW b \in Batches, IssueBatch(b)
  PROVE  Passing'
<1> DEFINE N == Issued
           L == Len(lso_entries)
           L2 == Len(lso_entries')
<1>1. /\ issued' = Append(issued, b)
      /\ UNCHANGED <<out, lso_taken, taken, want, batch_in, pc, mode>>
  BY DEF IssueBatch, rings, context
<1>2. Processed' = Processed /\ Consumed' = Consumed /\ Handful'
  BY <1>1 DEF Processed, Consumed, Passing, Handful
<1>3. InOrder' /\ Gone' = Gone
  BY <1>1, NothingEnqueued DEF Passing
<1>4. TypeOK /\ LsoPlace /\ DmaOrder /\ CInv /\ LsoPlace'
  BY IssuePlace DEF IInv, CInv
<1>5. /\ L <= L2 /\ L2 \in Nat
      /\ DOMAIN lso_entries' = 1 .. L2
      /\ \A k \in 1 .. L : lso_entries'[k] = lso_entries[k]
  <2>1. lso_entries' \in Seq(Entry)
    BY <1>4 DEF LsoPlace, Entries, Entry
  <2> QED BY <1>4, <2>1, IssueOrder
<1>6. /\ Processed \in Int /\ Consumed \in Int /\ L \in Nat /\ Consumed <= lso_taken
      /\ lso_taken \in Nat /\ N \in Nat /\ lso_taken <= L /\ N <= Issued' /\ Issued' \in Nat
      /\ DOMAIN lso_entries = 1 .. L
  <2>1. lso_taken <= lso_put /\ lso_put <= L /\ lso_put \in Nat
    BY <1>4 DEF LsoPlace, TypeOK
  <2>2. Issued' = N + BatchSize
    BY <1>4, IssueCInv DEF DmaOrder
  <2>3. DOMAIN lso_entries = 1 .. L
    BY <1>4 DEF LsoPlace, Entries
  <2> QED BY <1>4, <2>1, <2>2, <2>3, PlaceTypes, IssuedNat, Sizes
<1>7. Processed <= N
  <2>1. PICK r, s, c \in 0 .. Issued : Stands(r, s, c)
    BY <1>4 DEF CInv, Numbers
  <2>2. taken <= c /\ taken \in Nat /\ c \in 0 .. Issued
    BY <1>4, <2>1, Facts DEF Stands
  <2>3. Processed = taken - Len(batch_in) /\ Len(batch_in) \in Nat
    BY <1>4, Places2 DEF Processed
  <2> QED BY <1>6, <2>2, <2>3
<1>8. \A m \in 1 .. N : Message(m)' = Message(m)
  <2>1. ASSUME NEW m PROVE Message(m)' = MessageIn(Append(issued, b), m)
    BY <1>1 DEF Message, BatchOf, MessageIn
  <2> QED BY <1>4, <2>1, NewMessages
<1>9. ASSUME NEW p PROVE Passed(p)' <=> Passed(p)
  BY <1>2 DEF Passed
<1> HIDE DEF N, L, L2
<1>10. ASSUME NEW m \in Int, m <= Processed
       PROVE  Single(m)' <=> Single(m)
  <2>1. m \in 1 .. Issued' <=> m \in 1 .. N
    BY <1>6, <1>7, <1>10
  <2> QED BY <1>8, <2>1 DEF Single, N
<1>11. ASSUME NEW k \in Int, k <= Consumed
       PROVE  Piece(k)' <=> Piece(k)
  <2>1. k \in 1 .. L2 <=> k \in 1 .. L
    BY <1>5, <1>6, <1>11
  <2> QED BY <1>5, <2>1 DEF Piece, L, L2
<1>12. ASSUME NEW p
       PROVE  p \in Packets' <=> \/ \E m : Single(m)' /\ p = <<m>>
                                 \/ \E k : Piece(k)' /\ p = Pair(k)'
  <2>1. p \in {<<m>> : m \in {l \in 1 .. Issued' : Message(l)'[1] = "packet"}}
          <=> \E m : Single(m)' /\ p = <<m>>
    BY DEF Single
  <2>2. p \in {<<lso_entries'[k].message, k>> : k \in {j \in 1 .. L2 : lso_entries'[j].eop}}
          <=> \E k : Piece(k)' /\ p = Pair(k)'
    BY DEF Piece, Pair, L2
  <2> QED BY <1>5, <2>1, <2>2 DEF Packets
<1>13. ASSUME NEW p, p \in Packets', Passed(p) PROVE p \in Packets
  <2>1. CASE \E m : Single(m)' /\ p = <<m>>
    <3>1. PICK m : Single(m)' /\ p = <<m>>
      BY <2>1
    <3>2. m \in Int /\ m <= Processed
      BY <1>6, <1>13, <3>1, OfSingle DEF Single
    <3>3. Single(m)
      BY <1>10, <3>1, <3>2
    <3> QED BY <1>4, <3>1, <3>3, PacketShape
  <2>2. CASE \E k : Piece(k)' /\ p = Pair(k)'
    <3>1. PICK k : Piece(k)' /\ p = Pair(k)'
      BY <2>2
    <3>2. Len(p) = 2 /\ p[2] = k /\ k \in Int
      BY <1>5, <3>1 DEF Pair, Piece, L2
    <3>3. k <= Consumed
      BY <1>13, <3>2 DEF Passed
    <3>4. Piece(k)
      BY <1>11, <3>1, <3>2, <3>3
    <3>5. Pair(k)' = Pair(k)
      BY <1>5, <3>4 DEF Piece, Pair, L
    <3> QED BY <1>4, <3>1, <3>4, <3>5, PacketShape
  <2> QED BY <1>12, <1>13, <2>1, <2>2
<1>14. ASSUME NEW p, p \in Packets, Passed(p) PROVE p \in Packets'
  <2>1. CASE \E m : Single(m) /\ p = <<m>>
    <3>1. PICK m : Single(m) /\ p = <<m>>
      BY <2>1
    <3>2. m \in Int /\ m <= Processed
      BY <1>6, <1>14, <3>1, OfSingle DEF Single
    <3>3. Single(m)'
      BY <1>10, <3>1, <3>2
    <3> QED BY <1>12, <3>1, <3>3
  <2>2. CASE \E k : Piece(k) /\ p = Pair(k)
    <3>1. PICK k : Piece(k) /\ p = Pair(k)
      BY <2>2
    <3>2. k <= Consumed /\ k \in Int
      BY <1>6, <1>14, <3>1, OfPiece DEF Piece, L
    <3>3. Piece(k)'
      BY <1>11, <3>1, <3>2
    <3>4. Pair(k)' = Pair(k)
      BY <1>5, <3>1 DEF Piece, Pair, L
    <3> QED BY <1>12, <3>1, <3>3, <3>4
  <2> QED BY <1>4, <1>14, <2>1, <2>2, PacketShape
<1>15. Gone' = {p \in Packets' : Passed(p)'}
  <2>1. Gone = {p \in Packets : Passed(p)}
    BY DEF Passing, AllPassed
  <2>2. \A p : p \in Gone' <=> p \in Packets' /\ Passed(p)'
    BY <1>3, <1>9, <1>13, <1>14, <2>1, Zenon
  <2> QED BY <2>2, Zenon
<1> QED BY <1>2, <1>3, <1>15 DEF Passing, AllPassed

LEMMA NextPassing == IInv /\ Passing /\ [Next]_vars => Passing'
<1> SUFFICES ASSUME IInv, Passing, [Next]_vars PROVE Passing'
  OBVIOUS
<1>1. CASE \/ PutLso \/ DmaDone \/ DataReflected \/ JumboReflected \/ ServedReflected
           \/ distr_notify \/ QcAddDone \/ FirstArrived \/ WaitForMore \/ ProcessLso
           \/ LsoGet \/ JumboWait \/ Credit \/ UNCHANGED vars
  BY <1>1, BetweenPassing
<1>2. CASE StartFull \/ StartPartial \/ FetchNext \/ NextArrived \/ GetDone
  BY <1>2, FetchPassing
<1>3. CASE ProcessPacket \/ ProcessNone
  BY <1>3, MessagePassing
<1>4. CASE Segment
  BY <1>4, SegmentPassing
<1>5. ASSUME NEW b \in Batches, IssueBatch(b) PROVE Passing'
  BY <1>5, IssuePassing
<1> QED BY <1>1, <1>2, <1>3, <1>4, <1>5 DEF Next, notify, Engines

(* A credited batch was processed to the end.                              *)
LEMMA CreditedProcessed ==
  ASSUME IInv, Handful, Crediting
  PROVE  Credited * BatchSize <= Processed /\ Credited * BatchSize \in Nat
<1>1. PICK c \in Nat : Credits(c)
  BY DEF Crediting
<1>2. Credited = c
  BY <1>1, CreditedAre DEF IInv
<1>3. BatchSize * c \in Nat /\ c * BatchSize = BatchSize * c /\ BatchSize \in Nat
  BY Sizes
<1>4. /\ Asked = taken + want /\ Asked \in Nat /\ Counted = Asked - Part /\ Part \in Nat
      /\ taken \in Nat /\ want \in Nat /\ Counted = BatchSize * c + Whole
  BY <1>1, Facts DEF IInv, Credits
<1>5. Processed = taken - Len(batch_in) /\ Len(batch_in) \in Nat
  BY Places2 DEF Processed, IInv
<1>6. BatchSize * c <= Processed
  <2>1. CASE pc \in Before
    BY <1>1, <1>3, <2>1 DEF Credits
  <2>2. CASE pc \notin Before /\ mode = "partial"
    <3>1. Whole = 0 /\ Part > 0 /\ want + Len(batch_in) <= 1
      BY <1>1, <2>2 DEF Before, Whole, Credits, Handful
    <3> QED BY <1>3, <1>4, <1>5, <3>1
  <2>3. CASE pc \notin Before /\ mode # "partial"
    <3>1. Whole = BatchSize /\ Part = 0 /\ want + Len(batch_in) <= BatchSize
      BY <2>3 DEF Before, Whole, Part, Handful
    <3> QED BY <1>3, <1>4, <1>5, <3>1
  <2> QED BY <2>1, <2>2, <2>3
<1> QED BY <1>2, <1>3, <1>6

(* What the notifier enqueues is what was issued, in that order, each      *)
(* packet once and paced as its message says, and all of a batch is        *)
(* enqueued before its descriptors are credited: however batches are       *)
(* fetched, and wherever in a message's entries packets end.               *)
THEOREM EnqueuedInOrder == Spec => []EnqueuedAsIssued
<1>1. IInv /\ Crediting /\ Passing => EnqueuedAsIssued
  <2> SUFFICES ASSUME IInv, Crediting, Passing PROVE EnqueuedAsIssued
    OBVIOUS
  <2>1. Gone = {p \in Packets : Passed(p)}
    BY DEF Passing, AllPassed
  <2>2. Gone \subseteq Packets
    BY <2>1
  <2>3. ASSUME NEW p \in Packets \ Gone, NEW q \in Gone PROVE Earlier(q, p)
    <3>1. q \in Packets /\ Passed(q) /\ ~Passed(p)
      BY <2>1
    <3> QED BY <3>1, PassedFirst DEF IInv
  <2>4. ASSUME NEW p \in Packets \ Gone PROVE p[1] > Credited * BatchSize
    <3>1. p \in Packets /\ ~Passed(p)
      BY <2>1
    <3>2. /\ Processed \in Int /\ Credited * BatchSize <= Processed
          /\ Credited * BatchSize \in Nat
      BY PlaceTypes, CreditedProcessed DEF IInv, Passing
    <3> HIDE DEF Processed, Credited
    <3>3. CASE \E m : Single(m) /\ p = <<m>>
      <4>1. PICK m : Single(m) /\ p = <<m>>
        BY <3>3
      <4>2. m \in Int /\ ~(m <= Processed) /\ p[1] = m
        BY <3>1, <4>1, OfSingle DEF Single
      <4> QED BY <3>2, <4>2
    <3>4. CASE \E k : Piece(k) /\ p = Pair(k)
      <4>1. PICK k : Piece(k) /\ p = Pair(k)
        BY <3>4
      <4> DEFINE l == lso_entries[k].message
      <4>2. k \in 1 .. Len(lso_entries) /\ ~(k <= Consumed) /\ p[1] = l
        BY <3>1, <4>1, OfPiece DEF Piece
      <4>3. Processed < l /\ l \in Nat
        BY <4>2, Around, PlaceTypes DEF IInv
      <4> HIDE DEF l
      <4> QED BY <3>2, <4>2, <4>3
    <3> QED BY <3>1, <3>3, <3>4, PacketShape DEF IInv
  <2> QED BY <2>2, <2>3, <2>4 DEF EnqueuedAsIssued, Passing, InOrder
<1> QED BY <1>1, InitIInv, NextIInv, InitCrediting, NextCrediting, InitPassing, NextPassing,
           PTL DEF Spec

----------------------------------------------------------------------------
(* The entries of one batch are together, and as many as JumbosOf says.    *)
Within(i, k) ==
  BatchSize * (i - 1) < lso_entries[k].message /\ lso_entries[k].message <= BatchSize * i
Spread ==
  \A i \in 1 .. Len(issued) : \A j, k \in 1 .. Len(lso_entries) :
    Within(i, j) /\ Within(i, k) => k - j < JumbosOf(issued[i])

(* As long as each of their parts is as long, two flattened sequences are. *)
SameLengths(ss, tt, n) == \A i \in 1 .. n : Len(ss[i]) = Len(tt[i])

LEMMA FlatLengths ==
  ASSUME NEW S, NEW n \in Nat \ {0}, NEW ss \in [1 .. n -> Seq(S)], NEW tt \in [1 .. n -> Seq(S)],
         SameLengths(ss, tt, n)
  PROVE  /\ FlattenSeq(ss) \in Seq(S) /\ Len(FlattenSeq(ss)) \in Nat
         /\ Len(FlattenSeq(ss)) = Len(FlattenSeq(tt))
<1>1. PICK f \in [1 .. n -> Seq(S)] : Flat(f, ss, n) /\ FlattenSeq(ss) = f[n]
  BY Flattened
<1>2. PICK g \in [1 .. n -> Seq(S)] : Flat(g, tt, n) /\ FlattenSeq(tt) = g[n]
  BY Flattened
<1> DEFINE T == {i \in 0 .. n : i = 0 \/ Len(f[i]) = Len(g[i])}
<1>3. ASSUME NEW i \in 1 .. n, i - 1 \in T PROVE i \in T
  <2>1. CASE i = 1
    BY <1>1, <1>2, <2>1 DEF Flat, SameLengths
  <2>2. CASE i # 1
    <3>1. i \in 2 .. n /\ i - 1 \in 1 .. n /\ Len(f[i - 1]) = Len(g[i - 1])
      BY <1>3, <2>2
    <3>2. f[i] = f[i - 1] \o ss[i] /\ g[i] = g[i - 1] \o tt[i]
      BY <1>1, <1>2, <3>1 DEF Flat
    <3>3. Len(f[i]) = Len(f[i - 1]) + Len(ss[i]) /\ Len(g[i]) = Len(g[i - 1]) + Len(tt[i])
      <4>1. /\ f[i - 1] \in Seq(S) /\ ss[i] \in Seq(S) /\ g[i - 1] \in Seq(S)
            /\ tt[i] \in Seq(S)
        BY <3>1
      <4> QED BY <3>2, <4>1
    <3> QED BY <3>1, <3>3 DEF SameLengths
  <2> QED BY <2>1, <2>2
<1>4. n \in T
  <2>1. n \in Nat /\ T \in SUBSET (0 .. n) /\ 0 \in T
    OBVIOUS
  <2>2. \A i \in 1 .. n : i - 1 \in T => i \in T
    BY <1>3
  <2> HIDE DEF T
  <2> QED BY <2>1, <2>2, UpTo
<1>5. Len(f[n]) = Len(g[n])
  BY <1>4
<1>6. f[n] \in Seq(S) /\ Len(f[n]) \in Nat
  OBVIOUS
<1> QED BY <1>1, <1>2, <1>5, <1>6

(* Issuing adds the entries of the batch.                                  *)
LEMMA IssueLength ==
  ASSUME TypeOK, LsoPlace, NEW b \in Batches, IssueBatch(b)
  PROVE  Len(lso_entries') = Len(lso_entries) + JumbosOf(b) /\ JumbosOf(b) \in Nat
<1> DEFINE N == Issued
           B == BatchSize
           es == [i \in 1 .. B |-> EntriesOf(N + i, b.messages[i])]
           fs == [i \in 1 .. B |-> EntriesOf(i, b.messages[i])]
<1>1. B \in Nat \ {0} /\ N \in Nat
  BY Sizes, IssuedNat
<1>2. ASSUME NEW i \in 1 .. B
      PROVE  /\ EntriesOf(N + i, b.messages[i]) \in Seq(Entry)
             /\ EntriesOf(i, b.messages[i]) \in Seq(Entry)
             /\ Len(EntriesOf(i, b.messages[i])) = Len(EntriesOf(N + i, b.messages[i]))
  <2>1. IsMessage(b.messages[i]) /\ N + i \in Nat /\ i \in Nat
    BY <1>1, MessagesTyped
  <2> QED BY <2>1, MessageShape
<1>3. /\ es \in [1 .. B -> Seq(Entry)] /\ fs \in [1 .. B -> Seq(Entry)]
      /\ SameLengths(fs, es, B)
  BY <1>2 DEF SameLengths
<1>4. lso_entries' = lso_entries \o FlattenSeq(es) /\ JumbosOf(b) = Len(FlattenSeq(fs))
  BY DEF IssueBatch, JumbosOf
<1>5. lso_entries \in Seq(Entry)
  BY DEF LsoPlace, Entries, Entry
<1> HIDE DEF es, fs, B
<1>6. /\ FlattenSeq(fs) \in Seq(Entry) /\ Len(FlattenSeq(fs)) \in Nat
      /\ Len(FlattenSeq(fs)) = Len(FlattenSeq(es))
  BY <1>1, <1>3, FlatLengths, Zenon
<1>7. FlattenSeq(es) \in Seq(Entry)
  <2>1. SameLengths(es, es, B)
    BY DEF SameLengths
  <2> QED BY <1>1, <1>3, <2>1, FlatLengths, Zenon
<1> QED BY <1>4, <1>5, <1>6, <1>7

(* What is issued stays as it was spread, and a new batch is by itself.    *)
LEMMA IssueSpread ==
  ASSUME CInv, LsoPlace, DmaOrder, Spread, NEW b \in Batches, IssueBatch(b)
  PROVE  Spread'
<1> DEFINE L == Len(issued)
           K == Len(lso_entries)
           B == BatchSize
<1>1. /\ B \in Nat /\ B > 1 /\ L \in Nat /\ Issued = B * L /\ Issued \in Nat
      /\ issued \in Seq(Batches) /\ issued' = Append(issued, b)
  BY Sizes, Facts DEF CInv, TypeOK, Issued, IssueBatch
<1>2. /\ \A k \in 1 .. K : lso_entries'[k] = lso_entries[k]
      /\ \A k \in K + 1 .. Len(lso_entries') :
           lso_entries'[k].message \in Nat /\ lso_entries'[k].message > Issued
  BY IssueOrder DEF CInv
<1>3. Len(lso_entries') = K + JumbosOf(b) /\ JumbosOf(b) \in Nat
  BY IssueLength DEF CInv
<1>4. /\ K \in Nat
      /\ \A k \in 1 .. K : lso_entries[k].message \in Nat /\ lso_entries[k].message <= Issued
  <2>1. \A k \in 1 .. K : lso_entries[k].message \in 1 .. Issued
    BY DEF LsoPlace, Entries
  <2> QED BY <1>1, <2>1, EntryMessages
<1>5. /\ Len(issued') = L + 1 /\ issued'[L + 1] = b
      /\ \A i \in 1 .. L : issued'[i] = issued[i]
  BY <1>1
<1> SUFFICES ASSUME NEW i \in 1 .. Len(issued'),
                    NEW j \in 1 .. Len(lso_entries'), NEW k \in 1 .. Len(lso_entries'),
                    Within(i, j)', Within(i, k)'
             PROVE  k - j < JumbosOf(issued'[i])
  BY DEF Spread, JumbosOf
<1> DEFINE mj == lso_entries'[j].message
           mk == lso_entries'[k].message
<1>6. B * (i - 1) < mj /\ mj <= B * i /\ B * (i - 1) < mk /\ mk <= B * i
  BY DEF Within
<1> HIDE DEF B, L, K, mj, mk
<1>7. CASE i \in 1 .. L
  <2>1. B * i <= Issued /\ B * i \in Int
    <3>1. CASE i = L
      BY <1>1, <3>1
    <3>2. CASE i < L
      <4>1. B \in Nat \ {0} /\ i \in Int /\ L \in Int
        BY <1>1, <1>7
      <4>2. B * i \in Int /\ B * L \in Int /\ B * i + B <= B * L
        BY <3>2, <4>1, MulLess
      <4> QED BY <1>1, <4>2
    <3> QED BY <1>1, <1>7, <3>1, <3>2
  <2>2. ASSUME NEW x \in 1 .. Len(lso_entries'), lso_entries'[x].message <= B * i
        PROVE  x \in 1 .. K
    <3> SUFFICES ASSUME x \notin 1 .. K PROVE FALSE
      OBVIOUS
    <3>1. x \in K + 1 .. Len(lso_entries')
      BY <1>3, <1>4
    <3> DEFINE mx == lso_entries'[x].message
    <3>2. mx \in Nat /\ mx > Issued /\ mx <= B * i
      BY <1>2, <2>2, <3>1
    <3> HIDE DEF mx
    <3> QED BY <1>1, <2>1, <3>2
  <2>3. j \in 1 .. K /\ k \in 1 .. K
    BY <1>6, <2>2 DEF mj, mk
  <2>4. Within(i, j) /\ Within(i, k)
    BY <1>2, <1>6, <2>3 DEF Within, mj, mk, B
  <2>5. k - j < JumbosOf(issued[i])
    BY <1>7, <2>3, <2>4 DEF Spread, L, K
  <2> QED BY <1>5, <1>7, <2>5
<1>8. CASE i = L + 1
  <2>1. B * (i - 1) = Issued
    BY <1>1, <1>8
  <2>2. ASSUME NEW x \in 1 .. Len(lso_entries'), Issued < lso_entries'[x].message
        PROVE  x \in K + 1 .. Len(lso_entries')
    <3> SUFFICES ASSUME x \in 1 .. K PROVE FALSE
      BY <1>3, <1>4
    <3> DEFINE mx == lso_entries'[x].message
    <3>1. mx \in Nat /\ mx <= Issued /\ Issued < mx
      BY <1>2, <1>4, <2>2
    <3> HIDE DEF mx
    <3> QED BY <1>1, <3>1
  <2>3. j \in K + 1 .. Len(lso_entries') /\ k \in K + 1 .. Len(lso_entries')
    BY <1>6, <2>1, <2>2 DEF mj, mk
  <2>4. k - j < JumbosOf(b)
    BY <1>3, <1>4, <2>3
  <2> QED BY <1>5, <1>8, <2>4
<1>9. i \in 1 .. L \/ i = L + 1
  BY <1>1, <1>5
<1> QED BY <1>7, <1>8, <1>9

(* Nobody else adds entries or batches.                                    *)
LEMMA NextSpread == CInv /\ LsoPlace /\ DmaOrder /\ Spread /\ [Next]_vars => Spread'
<1> SUFFICES ASSUME CInv, LsoPlace, DmaOrder, Spread, [Next]_vars PROVE Spread'
  OBVIOUS
<1>1. CASE \E b \in Batches : IssueBatch(b)
  BY <1>1, IssueSpread
<1>2. CASE ~ \E b \in Batches : IssueBatch(b)
  <2>1. UNCHANGED <<issued, lso_entries>>
    <3>1. CASE notify
      BY <3>1 DEF notify, StartFull, StartPartial, FirstArrived, WaitForMore, FetchNext,
         NextArrived, ProcessPacket, ProcessNone, ProcessLso, LsoGet, JumboWait, Segment,
         Credit, issuer
    <3>2. CASE distr_notify \/ Engines \/ UNCHANGED vars
      BY <3>2 DEF distr_notify, Engines, PutLso, DmaDone, DataReflected, JumboReflected,
         ServedReflected, GetDone, QcAddDone, issuer, vars
    <3> QED BY <1>2, <3>1, <3>2 DEF Next
  <2> QED BY <2>1 DEF Spread, Within, JumbosOf
<1> QED BY <1>1, <1>2

LEMMA InitSpread == Init => Spread
<1> SUFFICES ASSUME Init PROVE Spread
  OBVIOUS
<1>1. issued = <<>>
  BY DEF Init
<1>2. 1 .. Len(issued) = {}
  BY <1>1
<1> QED BY <1>2 DEF Spread

----------------------------------------------------------------------------
(* The side at rest.  Nobody but issue_dma, which need not, has anything   *)
(* to do: each line is why one of the others can not go on, or would       *)
(* change nothing.                                                         *)
EnginesRest ==
  /\ dma_fifo = <<>> /\ lso_put = Len(lso_entries)
  /\ data_refl = data_done /\ jumbo_refl = jumbo_done
  /\ served_refl = sent
  /\ qc_add = Idle
  /\ want = 0 \/ taken + want > Issued
ContextsRest ==
  /\ complete = data_refl % SeqNumbers /\ sent = served
  /\ pc \notin {"process", "segment", "credit"}
  /\ pc = "start" => Minus(complete, served) = 0
  /\ pc \in {"wait_first", "wait_next"} => want # 0
  /\ pc = "more" => ~MoreDone /\ num_avail = Minus(complete, served)
  /\ pc = "lso_get" => lso_taken = lso_put
  /\ pc = "jumbo" => JumboPending(lso_taken) /\ ~LaterBatchDone(Minus(complete, served))
AtRest == EnginesRest /\ ContextsRest

(* No DMA is under way, so all have completed.                             *)
LEMMA AllDone ==
  ASSUME CInv, LsoPlace, DmaOrder, EnginesRest
  PROVE  /\ data_done = Issued /\ data_refl = Issued
         /\ jumbo_refl = Len(lso_entries) /\ jumbo_done = Len(lso_entries)
<1>1. PICK at \in [1 .. Len(dma_fifo) -> Nat] :
        Labelled(dma_fifo, at, data_done, Issued, jumbo_done, lso_entries)
  BY DEF DmaOrder
<1>2. 1 .. Len(dma_fifo) = {}
  BY DEF EnginesRest
<1>3. data_done + 1 .. Issued = {} /\ jumbo_done + 1 .. Len(lso_entries) = {}
  BY <1>1, <1>2 DEF Labelled
<1>4. /\ data_done \in Nat /\ Issued \in Nat /\ data_done <= Issued
      /\ jumbo_done \in Nat /\ Len(lso_entries) \in Nat /\ jumbo_done <= Len(lso_entries)
  BY Facts, EntryMessages DEF DmaOrder, CInv, TypeOK
<1>5. data_done = Issued
  <2>1. ~(data_done + 1 <= Issued)
    BY <1>3, <1>4
  <2> QED BY <1>4, <2>1
<1>6. jumbo_done = Len(lso_entries)
  <2>1. ~(jumbo_done + 1 <= Len(lso_entries))
    BY <1>3, <1>4
  <2> QED BY <1>4, <2>1
<1> QED BY <1>5, <1>6 DEF EnginesRest

(* An entry is not waited for when at least as many jumbo DMAs were        *)
(* reflected, and less than half of the numbers more.                      *)
LEMMA NotPending ==
  ASSUME NEW k \in Nat, NEW d \in Nat, 2 * d < JumboNumbers, jumbo_refl = k + d
  PROVE  ~JumboPending(k)
<1> DEFINE N == JumboNumbers
           h == N \div 2
           y == jumbo_refl % N
           v == ((k % N) - y) % N
<1>1. N \in Nat \ {0} /\ N = 2 * h + (N % 2) /\ (N % 2) \in 0 .. 1 /\ h \in Int
  <2>1. N \in Int /\ N \in Nat \ {0} /\ 2 \in Nat \ {0}
    BY Sizes
  <2>2. N = 2 * (N \div 2) + (N % 2) /\ (N % 2) \in 0 .. 2 - 1 /\ (N \div 2) \in Int
    BY <2>1, Euclid, Zenon
  <2> QED BY <2>1, <2>2
<1> HIDE DEF h
<1>2. CASE d = 0
  <2>1. k \in Nat /\ k <= k /\ k - k < N /\ jumbo_refl = k /\ k - k = 0
    BY <1>1, <1>2
  <2> HIDE DEF N
  <2>2. ((k % N) - (k % N)) % N = k - k
    BY <1>1, <2>1, Apart, Zenon
  <2>3. v = 0
    BY <2>1, <2>2
  <2> HIDE DEF v
  <2>4. v \notin 1 .. h - 1
    BY <2>3
  <2> QED BY <2>4, Zenon DEF v, y, h, N, JumboPending, JumboAfter
<1>3. CASE d # 0
  <2> DEFINE a == k + N
  <2>1. a \in Nat /\ jumbo_refl \in Nat /\ jumbo_refl <= a /\ a - jumbo_refl < N
        /\ a - jumbo_refl = N - d /\ k \in Int /\ 1 \in Int /\ a = k + N * 1
    BY <1>1, <1>3
  <2>2. N - d \notin 1 .. h - 1
    BY <1>1
  <2> HIDE DEF N, a
  <2>3. ((a % N) - (jumbo_refl % N)) % N = a - jumbo_refl
    BY <1>1, <2>1, Apart, Zenon
  <2>4. (k + N * 1) % N = k % N
    BY <1>1, <2>1, Turns, Zenon
  <2>5. v = N - d
    BY <2>1, <2>3, <2>4, Zenon
  <2> HIDE DEF v
  <2>6. v \notin 1 .. h - 1
    BY <2>2, <2>5
  <2> QED BY <2>6, Zenon DEF v, y, h, N, JumboPending, JumboAfter
<1> QED BY <1>2, <1>3

(* At most two batches are between an entry and the last.                  *)
LEMMA TwoBatches ==
  ASSUME CInv, LsoPlace, Spread, NEW k \in 1 .. Len(lso_entries),
         NEW c \in Nat, c + 1 <= Len(issued), Len(issued) <= c + 2,
         BatchSize * c < lso_entries[k].message
  PROVE  2 * (Len(lso_entries) - k) < JumboNumbers
<1> DEFINE K == Len(lso_entries)
           L == Len(issued)
           B == BatchSize
           ms(i) == lso_entries[i].message
           J(i) == JumbosOf(issued[i])
<1>1. /\ K \in Nat /\ L \in Nat /\ L \in {c + 1, c + 2} /\ B \in Nat \ {0}
      /\ Issued = B * L /\ Issued \in Nat /\ issued \in Seq(Batches)
  <2>1. issued \in Seq(Batches) /\ Issued = B * L /\ B \in Nat \ {0}
    BY Sizes DEF CInv, TypeOK, Issued
  <2>2. K \in Nat /\ Issued \in Nat
    BY Facts, EntryMessages
  <2>3. L \in Nat
    BY <2>1
  <2>4. L \in {c + 1, c + 2}
    BY <2>3
  <2> QED BY <2>1, <2>2, <2>3, <2>4
<1>2. \A x \in 1 .. K : ms(x) \in Nat /\ ms(x) <= B * L
  <2>1. \A x \in 1 .. K : ms(x) \in 1 .. Issued
    BY DEF LsoPlace, Entries
  <2> QED BY <1>1, <2>1
<1>3. \A x \in k .. K : x \in 1 .. K /\ B * c < ms(x)
  <2> SUFFICES ASSUME NEW x \in k .. K PROVE x \in 1 .. K /\ B * c < ms(x)
    OBVIOUS
  <2>1. x \in 1 .. K /\ (k < x \/ k = x)
    BY <1>1
  <2>2. k < x => ms(k) <= ms(x)
    BY <2>1 DEF LsoPlace, Entries
  <2>3. B * c \in Int /\ ms(k) \in Nat /\ ms(x) \in Nat
    BY <1>1, <1>2, <2>1
  <2> HIDE DEF B, ms
  <2> QED BY <2>1, <2>2, <2>3 DEF B, ms
<1>4. ASSUME NEW i \in 1 .. L PROVE J(i) \in Int /\ 4 * J(i) < JumboNumbers
  <2>1. issued[i] \in Batches
    BY <1>1
  <2>2. J(i) \in Nat
    <3> DEFINE fs == [x \in 1 .. B |-> EntriesOf(x, issued[i].messages[x])]
    <3>1. fs \in [1 .. B -> Seq(Entry)]
      <4>1. ASSUME NEW x \in 1 .. B PROVE EntriesOf(x, issued[i].messages[x]) \in Seq(Entry)
        <5>1. IsMessage(issued[i].messages[x]) /\ x \in Nat
          BY <1>1, <2>1, MessagesTyped
        <5> QED BY <5>1, MessageShape
      <4> QED BY <4>1
    <3>2. SameLengths(fs, fs, B)
      BY DEF SameLengths
    <3>3. J(i) = Len(FlattenSeq(fs))
      BY DEF JumbosOf
    <3> HIDE DEF fs, B
    <3>4. Len(FlattenSeq(fs)) \in Nat
      BY <1>1, <3>1, <3>2, FlatLengths, Zenon
    <3> QED BY <3>3, <3>4
  <2> DEFINE j == J(i)
  <2>3. 2 * (RingBatches + 1) * j < JumboNumbers
    BY <2>1, JumboAssumption
  <2>4. RingBatches \in Nat \ {0} /\ JumboNumbers \in Nat
    BY WindowAssumption, Sizes
  <2> HIDE DEF j
  <2>5. j \in Nat
    BY <2>2 DEF j
  <2>6. 2 * (RingBatches + 1) * j >= 4 * j
    <3>1. (RingBatches + 1) * j >= 2 * j /\ (RingBatches + 1) * j \in Nat
      <4>1. (RingBatches + 1) * j = 2 * j + (RingBatches - 1) * j
        BY <2>4, <2>5
      <4>2. RingBatches - 1 \in Nat
        BY <2>4
      <4>3. (RingBatches - 1) * j \in Nat
        BY <2>5, <4>2
      <4> QED BY <2>5, <4>1, <4>3
    <3>2. 2 * (RingBatches + 1) * j = 2 * ((RingBatches + 1) * j)
      BY <2>4, <2>5
    <3> QED BY <2>5, <3>1, <3>2
  <2>7. 2 * (RingBatches + 1) * j \in Int
    BY <2>4, <2>5
  <2>8. j \in Int /\ 4 * j < JumboNumbers
    BY <2>3, <2>4, <2>5, <2>6, <2>7
  <2> QED BY <2>8 DEF j
<1>5. ASSUME NEW i \in 1 .. L, NEW x \in 1 .. K, NEW z \in 1 .. K, Within(i, x), Within(i, z)
      PROVE  z - x < J(i)
  BY <1>5 DEF Spread
<1>6. B * (c + 1) \in Int /\ B * c \in Int
  BY <1>1
<1>7. CASE \A x \in k .. K : ms(x) <= B * (c + 1)
  <2>1. c + 1 \in 1 .. L /\ (c + 1) - 1 = c /\ K \in k .. K
    BY <1>1
  <2>2. \A x \in k .. K : Within(c + 1, x)
    BY <1>3, <1>7, <2>1 DEF Within
  <2>3. K - k < J(c + 1)
    <3>1. k \in k .. K /\ k \in 1 .. K /\ K \in 1 .. K
      BY <1>1
    <3> QED BY <1>5, <2>1, <2>2, <3>1
  <2> DEFINE j == J(c + 1)
  <2>4. j \in Int /\ 4 * j < JumboNumbers /\ K - k < j /\ JumboNumbers \in Nat /\ k \in Nat /\ k <= K
    BY <1>1, <1>4, <2>1, <2>3, Sizes
  <2> HIDE DEF j, K
  <2>5. 2 * (K - k) < JumboNumbers
    BY <1>1, <2>4
  <2> QED BY <2>5 DEF K
<1>8. CASE ~ \A x \in k .. K : ms(x) <= B * (c + 1)
  <2> DEFINE T == {x \in k .. K : ~(ms(x) <= B * (c + 1))}
  <2>1. PICK x \in T : \A z \in T : x <= z
    <3>1. T \in SUBSET Nat /\ T # {}
      BY <1>1, <1>8
    <3> HIDE DEF T
    <3> QED BY <3>1, LeastNat
  <2>2. L = c + 2
    <3>1. ms(x) <= B * L /\ ~(ms(x) <= B * (c + 1))
      BY <1>2, <1>3, <2>1
    <3>2. L # c + 1
      BY <3>1
    <3> QED BY <1>1, <3>2
  <2>3. c + 1 \in 1 .. L /\ c + 2 \in 1 .. L /\ (c + 1) - 1 = c /\ (c + 2) - 1 = c + 1
    BY <1>1, <2>2
  <2>4. \A z \in x .. K : Within(c + 2, z)
    <3> SUFFICES ASSUME NEW z \in x .. K PROVE Within(c + 2, z)
      OBVIOUS
    <3>1. x \in k .. K /\ x \in 1 .. K /\ z \in 1 .. K /\ (x < z \/ x = z)
      BY <1>1, <1>3, <2>1
    <3>2. x < z => ms(x) <= ms(z)
      BY <3>1 DEF LsoPlace, Entries
    <3> DEFINE a == ms(x)
               e == ms(z)
    <3>3. a \in Nat /\ e \in Nat /\ a <= e /\ ~(a <= B * (c + 1)) /\ e <= B * L
      BY <1>2, <2>1, <3>1, <3>2
    <3> HIDE DEF a, e, B, L
    <3>4. B * (c + 1) < e /\ e <= B * (c + 2)
      BY <1>6, <2>2, <3>3
    <3> QED BY <2>3, <3>4 DEF Within, e, B
  <2>5. K - x < J(c + 2)
    <3>1. x \in x .. K /\ x \in 1 .. K /\ K \in x .. K /\ K \in 1 .. K
      BY <1>1, <1>3, <2>1
    <3> QED BY <1>5, <2>3, <2>4, <3>1
  <2>6. x = k \/ (x - 1) - k < J(c + 1)
    <3> SUFFICES ASSUME x # k PROVE (x - 1) - k < J(c + 1)
      OBVIOUS
    <3>1. x - 1 \in k .. K /\ ~(x <= x - 1) /\ k \in k .. K /\ k \in 1 .. K /\ x - 1 \in 1 .. K
      BY <1>1, <2>1
    <3>2. x - 1 \notin T
      BY <2>1, <3>1
    <3>3. ms(x - 1) <= B * (c + 1)
      BY <3>1, <3>2
    <3>4. ms(k) <= B * (c + 1)
      <4>1. k \notin T
        <5>1. ~(x <= k)
          BY <1>1, <2>1
        <5> QED BY <2>1, <5>1
      <4> QED BY <3>1, <4>1
    <3>5. Within(c + 1, x - 1) /\ Within(c + 1, k)
      BY <1>3, <2>3, <3>1, <3>3, <3>4 DEF Within
    <3> QED BY <1>5, <2>3, <3>1, <3>5
  <2> DEFINE i == J(c + 1)
             j == J(c + 2)
  <2>7. /\ i \in Int /\ j \in Int /\ 4 * i < JumboNumbers /\ 4 * j < JumboNumbers
        /\ K - x < j /\ (x = k \/ (x - 1) - k < i) /\ x \in Nat /\ k \in Nat /\ JumboNumbers \in Nat
    BY <1>1, <1>4, <2>1, <2>3, <2>5, <2>6, Sizes
  <2> HIDE DEF i, j, K
  <2>8. 2 * (K - k) < JumboNumbers
    BY <1>1, <2>7
  <2> QED BY <2>8 DEF K
<1> QED BY <1>7, <1>8

(* What the contexts compute at rest.                                      *)
LEMMA RestDifferences ==
  ASSUME CInv, LsoPlace, DmaOrder, AtRest
  PROVE  /\ Minus(complete, served) = Issued - Counted
         /\ Asked <= Issued /\ Counted <= Issued /\ want = 0
<1>1. PICK r, s, c \in 0 .. Issued : Stands(r, s, c)
  BY DEF CInv, Numbers
<1>2. data_done = Issued /\ data_refl = Issued /\ data_done <= Issued
  BY AllDone DEF AtRest, DmaOrder
<1>3. Minus(data_refl % SeqNumbers, served) = data_refl - Counted
  BY <1>1, <1>2, Differences
<1>4. Minus(complete, served) = Issued - Counted
  BY <1>2, <1>3 DEF AtRest, ContextsRest
<1>5. /\ Asked = taken + want /\ taken \in Nat /\ want \in Nat /\ Asked <= c /\ c \in Int
      /\ c <= Issued /\ Counted <= Asked /\ Issued \in Nat /\ Counted \in Nat /\ Asked \in Nat
  BY <1>1, <1>2, Facts DEF Stands
<1>6. Asked <= Issued /\ Counted <= Issued
  BY <1>5
<1>7. want = 0
  BY <1>5, <1>6 DEF AtRest, EnginesRest
<1> QED BY <1>4, <1>6, <1>7

(* So the notifier is between two batches: one that was begun was issued   *)
(* whole, so its messages are there to be fetched and its entries in the   *)
(* LSO ring, and the wait for their DMAs ends.                             *)
LEMMA RestsBetween ==
  ASSUME IInv, Spread, Handful, Crediting, AtRest
  PROVE  pc = "start"
<1> DEFINE L == Len(issued)
           B == BatchSize
           K == Len(lso_entries)
<1>0. CInv /\ LsoPlace /\ DmaOrder
  BY DEF IInv
<1>1. PICK c \in Nat : Credits(c)
  BY DEF Crediting
<1>2. /\ L \in Nat /\ B \in Nat \ {0} /\ Issued = B * L /\ Issued \in Nat
  <2>1. issued \in Seq(Batches) /\ Issued = B * L /\ B \in Nat \ {0}
    BY <1>0, Sizes DEF CInv, TypeOK, Issued
  <2>2. Issued \in Nat
    BY <1>0, Facts
  <2> QED BY <2>1, <2>2
<1>3. /\ Counted = B * c + Whole /\ Minus(complete, served) = Issued - Counted
      /\ Whole \in {0, B} /\ B * c \in Nat /\ B * (c + 1) = B * c + B
      /\ B * (c + 2) = B * c + 2 * B
  BY <1>0, <1>1, <1>2, RestDifferences DEF Credits, Whole
<1>4. ASSUME pc = "more" PROVE FALSE
  <2>1. mode = "partial" /\ partial_served < B /\ partial_served \in Nat
    BY <1>0, <1>4, Facts DEF CInv, Fetching
  <2>2. Whole = 0 /\ c + 1 <= L
    BY <1>1, <1>4, <2>1 DEF Whole, Credits, Before
  <2>3. B * (c + 1) <= B * L
    <3>1. CASE c + 1 = L
      BY <1>2, <3>1
    <3>2. CASE c + 1 < L
      BY <1>2, <3>2, MulLess
    <3> QED BY <1>2, <2>2, <3>1, <3>2
  <2>4. num_avail = Issued - Counted /\ ~(num_avail > partial_served)
    BY <1>3, <1>4 DEF AtRest, ContextsRest, MoreDone
  <2>5. Issued - Counted >= B
    <3> HIDE DEF B, L
    <3> QED BY <1>2, <1>3, <2>2, <2>3
  <2>6. Issued - Counted \in Int
    BY <1>2, <1>3
  <2> HIDE DEF B
  <2> QED BY <1>2, <2>1, <2>4, <2>5, <2>6
<1>5. ASSUME pc = "lso_get" PROVE FALSE
  <2>1. lso_taken = K
    BY <1>5 DEF AtRest, ContextsRest, EnginesRest
  <2>2. lso_taken + 1 \in 1 .. K
    BY <1>0, <1>5 DEF LsoPlace
  <2> QED BY <1>0, <2>1, <2>2, PlaceTypes
<1>6. ASSUME pc = "jumbo" PROVE FALSE
  <2>1. lso_taken \in 1 .. K /\ lso_entries[lso_taken].message = Processed + 1
    BY <1>0, <1>6 DEF LsoPlace
  <2>2. B * c <= Processed /\ Processed \in Int /\ c + 1 <= L
    <3>1. Credited = c
      BY <1>0, <1>1, CreditedAre
    <3>2. Credited * B <= Processed
      BY CreditedProcessed
    <3>3. c + 1 <= L
      BY <1>1, <1>6 DEF Credits, Before
    <3>4. c * B = B * c
      BY <1>2
    <3> QED BY <1>0, <3>1, <3>2, <3>3, <3>4, PlaceTypes
  <2>3. B * c < lso_entries[lso_taken].message
    <3> HIDE DEF B, Processed
    <3> QED BY <1>3, <2>1, <2>2
  <2>4. JumboPending(lso_taken) /\ ~(Issued - Counted > B)
    BY <1>3, <1>6 DEF AtRest, ContextsRest, LaterBatchDone
  <2>5. L <= c + 2
    <3> SUFFICES ASSUME c + 2 < L PROVE FALSE
      BY <1>2
    <3>1. B * (c + 2) + B <= B * L /\ B * L \in Int
      BY <1>2, MulLess
    <3> HIDE DEF B, L
    <3> QED BY <1>2, <1>3, <2>4, <3>1
  <2>6. 2 * (K - lso_taken) < JumboNumbers
    BY <1>0, <2>1, <2>2, <2>3, <2>5, TwoBatches
  <2>7. jumbo_refl = K /\ K \in Nat
    BY <1>0, AllDone, EntryMessages DEF AtRest
  <2> DEFINE d == K - lso_taken
  <2>8. lso_taken \in Nat /\ d \in Nat /\ jumbo_refl = lso_taken + d
    BY <2>1, <2>7
  <2>9. 2 * d < JumboNumbers
    BY <2>6
  <2> HIDE DEF d
  <2> QED BY <2>4, <2>8, <2>9, NotPending
<1>7. pc \in Places /\ want = 0
  BY <1>0, Places2, RestDifferences
<1> QED BY <1>4, <1>5, <1>6, <1>7 DEF Places, LsoPlaces, AtRest, ContextsRest

LEMMA SpreadHolds == Spec => [](IInv /\ Crediting /\ Passing /\ Spread)
<1>1. IInv => CInv /\ LsoPlace /\ DmaOrder
  BY DEF IInv
<1> QED BY <1>1, InitIInv, NextIInv, InitCrediting, NextCrediting, InitPassing, NextPassing,
           InitSpread, NextSpread, PTL DEF Spec

(* Whenever nothing but issuing is left to do, everything that was issued  *)
(* has been done: every packet is enqueued, every batch is credited, and   *)
(* issue_dma knows of room.  The side never gets stuck: not with a part of *)
(* a batch, not with a sequence number nobody passes on, and not in the    *)
(* wait for a jumbo DMA, however often the numbers wrapped.                *)
THEOREM NothingIsStuck ==
  Spec => [](AtRest => Credited = Len(issued) /\ Gone = Packets /\ HasRoom)
<1>1. ASSUME IInv, Crediting, Passing, Spread, EnqueuedAsIssued, AtRest
      PROVE  Credited = Len(issued) /\ Gone = Packets /\ HasRoom
  <2> DEFINE L == Len(issued)
             B == BatchSize
  <2>1. CInv /\ LsoPlace /\ DmaOrder /\ Handful /\ pc = "start"
    BY <1>1, RestsBetween DEF IInv, Passing
  <2>2. PICK c \in Nat : Credits(c)
    BY <1>1 DEF Crediting
  <2>3. Credited = c /\ Counted = B * c + 0 /\ c <= L
    BY <2>1, <2>2, CreditedAre DEF Credits, Whole
  <2>4. Minus(complete, served) = 0 /\ Minus(complete, served) = Issued - Counted
    BY <1>1, <2>1, RestDifferences DEF AtRest, ContextsRest
  <2>5. /\ L \in Nat /\ B \in Nat \ {0} /\ Issued = B * L /\ Issued \in Nat /\ Counted \in Nat
    <3>1. issued \in Seq(Batches) /\ Issued = B * L /\ B \in Nat \ {0}
      BY <2>1, Sizes DEF CInv, TypeOK, Issued
    <3>2. Issued \in Nat /\ Counted \in Nat
      BY <2>1, Facts
    <3> QED BY <3>1, <3>2
  <2>6. Counted = Issued
    BY <2>4, <2>5
  <2>7. c = L
    <3>1. c < L => B * c + B <= B * L /\ B * c \in Int /\ B * L \in Int
      BY <2>5, MulLess
    <3> HIDE DEF B, L
    <3> QED BY <2>3, <2>5, <2>6, <3>1
  <2>8. Gone = Packets
    <3>1. Gone \subseteq Packets
      BY <1>1 DEF EnqueuedAsIssued
    <3>2. ASSUME NEW p \in Packets PROVE p \in Gone
      <4> SUFFICES ASSUME p \notin Gone PROVE FALSE
        OBVIOUS
      <4>1. p[1] > Credited * B
        BY <1>1 DEF EnqueuedAsIssued
      <4>2. Credited * B = Issued
        BY <2>3, <2>5, <2>7
      <4>3. p[1] \in Nat /\ p[1] <= Issued
        <5>1. CASE \E m : Single(m) /\ p = <<m>>
          <6>1. PICK m : Single(m) /\ p = <<m>>
            BY <5>1
          <6>2. m \in 1 .. Issued /\ p[1] = m
            BY <6>1, OfSingle DEF Single
          <6> QED BY <2>5, <6>2
        <5>2. CASE \E k : Piece(k) /\ p = Pair(k)
          <6>1. PICK k : Piece(k) /\ p = Pair(k)
            BY <5>2
          <6>2. k \in 1 .. Len(lso_entries) /\ p[1] = lso_entries[k].message
            BY <6>1, OfPiece DEF Piece
          <6>3. lso_entries[k].message \in 1 .. Issued
            BY <2>1, <6>2 DEF LsoPlace, Entries
          <6> QED BY <2>5, <6>2, <6>3
        <5> QED BY <2>1, <5>1, <5>2, PacketShape
      <4> QED BY <2>5, <4>1, <4>2, <4>3
    <3> QED BY <3>1, <3>2
  <2>9. HasRoom
    <3>1. served_refl = Issued % SeqNumbers
      <4>1. PICK r, s, x \in 0 .. Issued : Stands(r, s, x)
        BY <2>1 DEF CInv, Numbers
      <4> QED BY <1>1, <2>6, <4>1 DEF Stands, AtRest, EnginesRest, ContextsRest
    <3>2. (Issued - (Issued % SeqNumbers)) % SeqNumbers = Issued - Issued
      <4>1. /\ SeqNumbers \in Nat \ {0} /\ Issued \in Nat /\ Issued <= Issued
            /\ Issued - Issued < SeqNumbers
        BY <2>5, Sizes
      <4> HIDE DEF L, B
      <4> QED BY <4>1, Apart, Zenon
    <3>3. Minus(Issued, served_refl) = 0
      BY <2>5, <3>1, <3>2 DEF Minus
    <3>4. (RingBatches - 1) * BatchSize >= 0
      <4>1. RingBatches - 1 \in Nat /\ BatchSize \in Nat
        BY WindowAssumption, Sizes
      <4> QED BY <4>1
    <3> QED BY <3>3, <3>4 DEF HasRoom
  <2> QED BY <2>3, <2>7, <2>8, <2>9
<1> QED BY <1>1, SpreadHolds, EnqueuedInOrder, PTL

============================================================================
