---------------------------- MODULE VectorProofs ----------------------------
(***************************************************************************)
(* Proofs about the receive side of a ring vector: of the buffers, the     *)
(* frames and the control messages of module Vector.                       *)
(***************************************************************************)
EXTENDS Vector, FiniteSetTheorems, WellFoundedInduction, TLAPS

(* Remainders.                                                             *)
LEMMA Euclid ==
  ASSUME NEW a \in Int, NEW n \in Nat \ {0}
  PROVE  a = n * (a \div n) + (a % n) /\ (a % n) \in 0 .. n - 1 /\ (a \div n) \in Int
OBVIOUS

LEMMA MulLess ==
  ASSUME NEW n \in Nat \ {0}, NEW x \in Int, NEW y \in Int, x < y
  PROVE  n * x \in Int /\ n * y \in Int /\ n * x + n <= n * y
<1>1. y - x >= 1 /\ n * y = n * x + n * (y - x) /\ n * x \in Int /\ n * (y - x) \in Int
  OBVIOUS
<1>2. n * (y - x) >= n
  BY <1>1
<1> QED BY <1>1, <1>2

LEMMA EuclidUnique ==
  ASSUME NEW n \in Nat \ {0}, NEW x \in Int, NEW y \in Int,
         NEW r \in 0 .. n - 1, NEW s \in 0 .. n - 1, n * x + r = n * y + s
  PROVE  r = s
<1>1. CASE x < y
  BY <1>1, MulLess
<1>2. CASE y < x
  BY <1>2, MulLess
<1>3. CASE x = y
  BY <1>3
<1> QED BY <1>1, <1>2, <1>3

(* Whole turns do not count.                                               *)
LEMMA Turns ==
  ASSUME NEW n \in Nat \ {0}, NEW a \in Int, NEW k \in Int
  PROVE  (a + n * k) % n = a % n
<1> DEFINE b == a + n * k
<1>1. b \in Int /\ n * k \in Int
  OBVIOUS
<1>2. /\ a = n * (a \div n) + (a % n) /\ (a % n) \in 0 .. n - 1 /\ (a \div n) \in Int
      /\ b = n * (b \div n) + (b % n) /\ (b % n) \in 0 .. n - 1 /\ (b \div n) \in Int
  BY <1>1, Euclid
<1> DEFINE x == a \div n
           y == b \div n
           r == a % n
           s == b % n
<1>3. /\ a = n * x + r /\ b = n * y + s /\ x \in Int /\ y \in Int
      /\ r \in 0 .. n - 1 /\ s \in 0 .. n - 1 /\ b = a + n * k
  BY <1>2
<1> HIDE DEF x, y, r, s, b
<1>4. x + k \in Int /\ n * (x + k) = n * x + n * k
  BY <1>3
<1>5. n * x \in Int /\ n * k \in Int /\ n * y \in Int /\ n * (x + k) \in Int
  BY <1>3, <1>4
<1>6. n * (x + k) + r = n * y + s
  BY <1>3, <1>4, <1>5
<1>7. r = s
  BY <1>3, <1>4, <1>6, EuclidUnique
<1> QED BY <1>7 DEF r, s, b

LEMMA ModAdd ==
  ASSUME NEW n \in Nat \ {0}, NEW a \in Int, NEW b \in Int
  PROVE  ((a % n) + b) % n = (a + b) % n
<1>1. a = n * (a \div n) + (a % n) /\ (a % n) \in 0 .. n - 1 /\ (a \div n) \in Int
  BY Euclid
<1> DEFINE x == a \div n
           r == a % n
<1>2. a = n * x + r /\ x \in Int /\ r \in Int
  BY <1>1
<1> HIDE DEF x, r
<1>3. a + b = (r + b) + n * x /\ r + b \in Int
  BY <1>2
<1>4. ((r + b) + n * x) % n = (r + b) % n
  <2>1. n \in Nat \ {0} /\ r + b \in Int /\ x \in Int
    BY <1>2, <1>3
  <2> QED BY <2>1, Turns, Zenon
<1>5. (a + b) % n = (r + b) % n
  <2>1. a + b = (r + b) + n * x
    BY <1>3
  <2> QED BY <1>4, <2>1, Zenon
<1> QED BY <1>5 DEF r

LEMMA ModSub ==
  ASSUME NEW n \in Nat \ {0}, NEW a \in Int, NEW b \in Int
  PROVE  (a - (b % n)) % n = (a - b) % n
<1>1. b = n * (b \div n) + (b % n) /\ (b % n) \in 0 .. n - 1 /\ (b \div n) \in Int
  BY Euclid
<1> DEFINE x == b \div n
           r == b % n
           d == a - b
<1>2. b = n * x + r /\ x \in Int /\ r \in Int /\ d = a - b
  BY <1>1
<1> HIDE DEF x, r, d
<1>3. a - r = d + n * x /\ d \in Int
  BY <1>2
<1>4. (d + n * x) % n = d % n
  BY <1>2, <1>3, Turns, Zenon
<1> QED BY <1>3, <1>4 DEF r, d

LEMMA ModSmall ==
  ASSUME NEW n \in Nat \ {0}, NEW a \in 0 .. n - 1
  PROVE  a % n = a
OBVIOUS

(* The difference of two numbers modulo n that are less than n apart.      *)
LEMMA Apart ==
  ASSUME NEW n \in Nat \ {0}, NEW a \in Nat, NEW b \in Nat, b <= a, a - b < n
  PROVE  ((a % n) - (b % n)) % n = a - b /\ (a - (b % n)) % n = a - b
<1>0. a \in Int /\ b \in Int
  OBVIOUS
<1>1. (a - (b % n)) % n = (a - b) % n
  BY <1>0, ModSub, Zenon
<1>2. ((a % n) + (0 - (b % n))) % n = (a + (0 - (b % n))) % n
  <2>1. (0 - (b % n)) \in Int
    BY <1>0, Euclid
  <2> QED BY <1>0, <2>1, ModAdd, Zenon
<1>3. (a - b) % n = a - b
  <2>1. a - b \in 0 .. n - 1
    BY <1>0
  <2> QED BY <2>1, ModSmall, Zenon
<1>4. /\ (a % n) + (0 - (b % n)) = (a % n) - (b % n)
      /\ a + (0 - (b % n)) = a - (b % n)
  <2> DEFINE r == b % n
             t == a % n
  <2>1. r \in Int /\ t \in Int
    BY <1>0, Euclid
  <2> HIDE DEF r, t
  <2>2. t + (0 - r) = t - r /\ a + (0 - r) = a - r
    BY <1>0, <2>1
  <2> QED BY <2>2 DEF r, t
<1> QED BY <1>1, <1>2, <1>3, <1>4, Zenon

LEMMA Nested ==
  ASSUME NEW n \in Nat \ {0}, NEW m \in Nat \ {0}, m % n = 0, NEW a \in Int
  PROVE  (a % m) % n = a % n
<1> DEFINE k == m \div n
           x == a \div m
           r == a % m
<1>1. m = n * k /\ k \in Int
  <2>1. m = n * (m \div n) + (m % n) /\ (m \div n) \in Int
    BY Euclid
  <2> QED BY <2>1
<1>2. a = m * x + r /\ x \in Int /\ r \in Int
  BY Euclid
<1> HIDE DEF k, x, r
<1>3. a = r + n * (k * x) /\ k * x \in Int
  <2>1. m * x = n * (k * x)
    BY <1>1, <1>2
  <2> QED BY <1>1, <1>2, <2>1
<1>4. (r + n * (k * x)) % n = r % n
  BY <1>2, <1>3, Turns
<1>5. a % n = r % n
  BY <1>3, <1>4, Zenon
<1> QED BY <1>5 DEF r

(* The entry of a ring of n that is k after the one p points to.           *)
Entry(n, p, k) == (p + k) % n

LEMMA EntryRange ==
  ASSUME NEW n \in Nat \ {0}, NEW p \in Int, NEW k \in Int
  PROVE  Entry(n, p, k) \in 0 .. n - 1
<1>1. p + k \in Int
  OBVIOUS
<1> QED BY <1>1, Euclid, Zenon DEF Entry

(* The entries of a ring of n when its pointer, modulo m, moves by d.      *)
Moved(n, m, p, d, k) == Entry(n, (p + d) % m, k) = Entry(n, p, d + k)

LEMMA EntryMoved ==
  ASSUME NEW n \in Nat \ {0}, NEW m \in Nat \ {0}, m % n = 0,
         NEW p \in Int, NEW d \in Int, NEW k \in Int
  PROVE  Moved(n, m, p, d, k)
<1> DEFINE a == p + d
           r == a % m
<1>1. a \in Int /\ r \in Int
  BY Euclid
<1>2. r % n = a % n
  BY <1>1, Nested, Zenon
<1> HIDE DEF a, r
<1>3. (r + k) % n = ((r % n) + k) % n
  BY <1>1, ModAdd, Zenon
<1>4. (a + k) % n = ((a % n) + k) % n
  BY <1>1, ModAdd, Zenon
<1>5. (r + k) % n = (a + k) % n
  BY <1>2, <1>3, <1>4, Zenon
<1>6. a + k = p + (d + k)
  BY DEF a
<1> QED BY <1>5, <1>6, Zenon DEF Moved, Entry, r, a

Further(n, p, k, d) == (Entry(n, p, k) + d) % n = Entry(n, p, k + d)

LEMMA EntryNext ==
  ASSUME NEW n \in Nat \ {0}, NEW p \in Int, NEW k \in Int, NEW d \in Int
  PROVE  Further(n, p, k, d)
<1>1. p + k \in Int /\ (p + k) + d = p + (k + d)
  OBVIOUS
<1>2. (((p + k) % n) + d) % n = ((p + k) + d) % n
  BY <1>1, ModAdd, Zenon
<1> QED BY <1>1, <1>2, Zenon DEF Further, Entry

Distance(n, a, b) == (a - b + n) % n

LEMMA EntryDistance ==
  ASSUME NEW n \in Nat \ {0}, NEW p \in Int, NEW i \in Int, NEW j \in Int, j - i \in 0 .. n - 1
  PROVE  Distance(n, Entry(n, p, j), Entry(n, p, i)) = j - i
<1> DEFINE a == p + j
           b == p + i
           r == a % n
           s == b % n
<1>1. a \in Int /\ b \in Int /\ a - b = j - i /\ s \in Int /\ r \in Int
  <2>1. a \in Int /\ b \in Int
    OBVIOUS
  <2>2. s \in Int /\ r \in Int
    BY <2>1, Euclid
  <2> QED BY <2>1, <2>2
<1> HIDE DEF a, b
<1>2. (r + (n - s)) % n = (a + (n - s)) % n
  <2>1. n - s \in Int
    BY <1>1
  <2> HIDE DEF s
  <2> QED BY <1>1, <2>1, ModAdd, Zenon
<1>3. ((a + n) - s) % n = ((a + n) - b) % n
  <2>1. a + n \in Int
    BY <1>1
  <2> QED BY <1>1, <2>1, ModSub, Zenon
<1>4. ((j - i) + n * 1) % n = (j - i) % n
  <2>1. j - i \in Int /\ 1 \in Int
    OBVIOUS
  <2> QED BY <2>1, Turns, Zenon
<1>5. (j - i) % n = j - i
  BY ModSmall, Zenon
<1> HIDE DEF r, s
<1>6. (r - s) + n = r + (n - s) /\ a + (n - s) = (a + n) - s
      /\ (a + n) - b = (j - i) + n * 1
  BY <1>1
<1>7. ((r - s) + n) % n = j - i
  BY <1>2, <1>3, <1>4, <1>5, <1>6, Zenon
<1> QED BY <1>7 DEF r, s, a, b, Entry, Distance

LEMMA EntryOnce ==
  ASSUME NEW n \in Nat \ {0}, NEW p \in Int, NEW i \in Int, NEW j \in Int,
         Entry(n, p, i) = Entry(n, p, j), i - j < n, j - i < n
  PROVE  i = j
<1>1. ASSUME NEW x \in Int, NEW y \in Int, Entry(n, p, x) = Entry(n, p, y), x < y, y - x < n
      PROVE  FALSE
  <2>1. Distance(n, Entry(n, p, y), Entry(n, p, x)) = y - x
    <3>1. y - x \in 0 .. n - 1
      BY <1>1
    <3> QED BY <3>1, EntryDistance, ZenonT(60)
  <2>2. Distance(n, Entry(n, p, x), Entry(n, p, x)) = x - x
    <3>1. x - x \in 0 .. n - 1
      OBVIOUS
    <3> QED BY <3>1, EntryDistance, ZenonT(60)
  <2>3. y - x = x - x
    BY <1>1, <2>1, <2>2, Zenon
  <2> QED BY <1>1, <2>3
<1> QED BY <1>1

LEMMA EntryOfAll ==
  ASSUME NEW n \in Nat \ {0}, NEW p \in Int, NEW s \in 0 .. n - 1
  PROVE  \E k \in 0 .. n - 1 : Entry(n, p, k) = s
<1> DEFINE d == s - p
           k == d % n
<1>1. d \in Int /\ k \in 0 .. n - 1 /\ k \in Int
  <2>1. d \in Int
    OBVIOUS
  <2>2. k \in 0 .. n - 1
    BY <2>1, Euclid, Zenon
  <2> HIDE DEF k
  <2> QED BY <2>1, <2>2
<1>2. (k + p) % n = (d + p) % n
  BY <1>1, ModAdd, Zenon
<1> HIDE DEF k
<1>3. d + p = s /\ p + k = k + p
  BY <1>1
<1>4. s % n = s
  BY ModSmall, Zenon
<1>5. (p + k) % n = s
  BY <1>2, <1>3, <1>4, Zenon
<1> QED BY <1>1, <1>5 DEF Entry

----------------------------------------------------------------------------
(* The inductive invariant.                                                *)
RxSlot(k) == Entry(Cnt, rx.rd, k)

TypeOK ==
  /\ kind \in {"net", "ctrl"} /\ on \in {"up", "closing", "reset", "empty"}
  /\ rx \in [wr : 0 .. PtrMod - 1, rd : 0 .. PtrMod - 1,
             bufs : [0 .. Cnt - 1 -> Bufs \cup {NoBuf}],
             ds : [0 .. Cnt - 1 -> [dd : BOOLEAN, buf : Bufs \cup {NoBuf}]]]
  /\ tx \in [wr : 0 .. PtrMod - 1, rd : 0 .. PtrMod - 1, add : Nat, qcp : 0 .. TxCnt - 1,
             bufs : [0 .. TxCnt - 1 -> Nat]]
  /\ dev \in [fl_wr : 0 .. Cnt - 1, fl_rd : 0 .. Cnt - 1,
              tx_wr : 0 .. TxCnt - 1, tx_rd : 0 .. TxCnt - 1]
  /\ content \in [Bufs -> Nat] /\ alloc \subseteq Bufs
  /\ {written, rcvd, last, handed, sent} \subseteq Nat
  /\ out \in Seq(Nat) /\ queue \in Seq(Nat)

(* The poll only runs while the vector is up, and the control vector's is. *)
Modes == (pc # "idle" \/ kind = "ctrl") => on = "up"

(* Of the Cnt - 1 buffers given, starting at the read pointer, the device  *)
(* has used as many as it wrote frames that were not taken, and knows of   *)
(* those that make up whole batches.                                       *)
Filling == written - rcvd
Known   == Cnt - 1 - (rx.wr % FlBatch)

RxRing ==
  /\ rx.wr = (rx.rd + (Cnt - 1)) % PtrMod
  /\ Filling \in 0 .. Known
  /\ dev.fl_rd = RxSlot(Filling) /\ dev.fl_wr = RxSlot(Known)
  /\ \A k \in 0 .. Cnt - 2 : /\ rx.ds[RxSlot(k)].dd <=> k < Filling
                             /\ rx.ds[RxSlot(k)].buf = rx.bufs[RxSlot(k)]
  /\ \A k \in 0 .. Filling - 1 : content[rx.bufs[RxSlot(k)]] = rcvd + k + 1

RxEmpty == rx.wr = 0 /\ rx.rd = 0 /\ rcvd = written

Receiving ==
  /\ last = rcvd
  /\ IF Enabled THEN RxRing ELSE RxEmpty

(* Entry k of the TX ring t, from its read pointer on.  The ring holds u   *)
(* entries, of which the device d has sent v.                              *)
At(t, k) == Entry(TxCnt, t.rd, k)
TxRing(t, d, u, v) ==
  /\ t.wr = (t.rd + u) % PtrMod /\ t.qcp = At(t, 0)
  /\ d.tx_rd = At(t, v) /\ d.tx_wr = At(t, u - t.add)
  /\ v + t.add <= u

(* What is not sent yet: frames o in their buffers, ...                    *)
Frames(t, u, v, c, o) ==
  /\ Len(o) = u - v
  /\ \A k \in v .. u - 1 : c[t.bufs[At(t, k)]] = o[k - v + 1]

(* ... or messages, between those sent and those handed over, in the ring  *)
(* before those that are left in the queue q after the first i.            *)
Messages(t, u, v, q, i, s, h) ==
  /\ \A k \in v .. u - 1 : s < t.bufs[At(t, k)] /\ t.bufs[At(t, k)] <= h
  /\ \A k \in v .. u - 1 : \A j \in i + 1 .. Len(q) : t.bufs[At(t, k)] < q[j]
  /\ \A j, k \in v .. u - 1 : j < k => t.bufs[At(t, j)] < t.bufs[At(t, k)]
  /\ \A k \in i + 1 .. Len(q) : s < q[k] /\ q[k] <= h
  /\ \A j, k \in i + 1 .. Len(q) : j < k => q[j] < q[k]

Transit(u, v) ==
  IF kind = "net" THEN Frames(tx, u, v, content, out)
  ELSE /\ Messages(tx, u, v, queue, 0, sent, handed)
       /\ tx.add = 0
       /\ queue # <<>> => u = TxCnt - 1

Sending ==
  /\ sent <= handed
  /\ ~Enabled => tx.rd = 0 /\ tx.wr = 0
  /\ \E u, v \in 0 .. TxCnt - 1 : TxRing(tx, dev, u, v) /\ Transit(u, v)

(* Each buffer in one place: rb at the slots rs, tb at ts, or in st; and   *)
(* those are the buffers al.                                               *)
Once(rs, rb, ts, tb, st, al) ==
  /\ \A s, t \in rs : rb[s] = rb[t] => s = t
  /\ \A s, t \in ts : tb[s] = tb[t] => s = t
  /\ \A s \in rs : rb[s] \in al /\ rb[s] \notin st
  /\ \A t \in ts : tb[t] \in al /\ tb[t] \notin st
  /\ \A s \in rs, t \in ts : rb[s] # tb[t]
  /\ st \subseteq al
  /\ \A b \in al : (\E s \in rs : rb[s] = b) \/ (\E t \in ts : tb[t] = b) \/ b \in st

OnceNow == Once(RxSlots, rx.bufs, TxSlots, tx.bufs, stack, alloc)

VInv == TypeOK /\ Modes /\ OnceNow /\ Receiving /\ Sending


----------------------------------------------------------------------------
(* Sizes, entries and buffers.                                             *)
LEMMA Sizes ==
  /\ Cnt \in Nat \ {0} /\ TxCnt \in Nat \ {0} /\ PtrMod \in Nat \ {0} /\ FlBatch \in Nat \ {0}
  /\ PtrMod % Cnt = 0 /\ PtrMod % TxCnt = 0 /\ PtrMod % FlBatch = 0
  /\ FlBatch < Cnt /\ Cnt > 1
  /\ Bufs \subseteq Nat /\ 0 \notin Bufs /\ MaxComplete \in Nat \ {0}
BY VectorAssumption

LEMMA Divisor ==
  ASSUME NEW n \in Nat \ {0}, NEW m \in Nat \ {0}, m % n = 0
  PROVE  n <= m
<1> DEFINE k == m \div n
<1>1. m = n * k /\ k \in Int
  <2>1. m = n * (m \div n) + (m % n) /\ (m \div n) \in Int
    BY Euclid
  <2> QED BY <2>1
<1> HIDE DEF k
<1>2. ~(k < 1)
  <2>1. k < 1 => n * k + n <= n * 1
    <3>1. 1 \in Int
      OBVIOUS
    <3> QED BY <1>1, <3>1, MulLess
  <2>2. n * 1 = n
    OBVIOUS
  <2> QED BY <1>1, <2>1, <2>2
<1>3. k = 1 \/ n * 1 + n <= n * k
  <2>1. 1 \in Int
    OBVIOUS
  <2>2. 1 < k => n * 1 + n <= n * k
    BY <1>1, <2>1, MulLess
  <2> QED BY <1>1, <1>2, <2>2
<1> QED BY <1>1, <1>3

LEMMA PointersFit == Cnt <= PtrMod /\ TxCnt <= PtrMod
<1>1. Cnt <= PtrMod
  BY Sizes, Divisor, Zenon
<1>2. TxCnt <= PtrMod
  BY Sizes, Divisor, Zenon
<1> QED BY <1>1, <1>2

(* How far apart two pointers of the driver are.                           *)
LEMMA PtrDistance ==
  ASSUME NEW p \in 0 .. PtrMod - 1, NEW u \in 0 .. PtrMod - 1
  PROVE  PtrMinus((p + u) % PtrMod, p) = u
<1>1. PtrMod \in Nat \ {0} /\ p \in Int /\ u \in Int /\ 0 \in Int
  BY Sizes
<1>2. Entry(PtrMod, p, u) = (p + u) % PtrMod
  BY Zenon DEF Entry
<1>3. Entry(PtrMod, p, 0) = p
  <2>1. p + 0 = p
    BY <1>1
  <2>2. p % PtrMod = p
    BY <1>1, ModSmall, Zenon
  <2> QED BY <2>1, <2>2, Zenon DEF Entry
<1>4. Distance(PtrMod, Entry(PtrMod, p, u), Entry(PtrMod, p, 0)) = u - 0
  <2>1. u - 0 \in 0 .. PtrMod - 1
    BY <1>1
  <2> QED BY <1>1, <2>1, EntryDistance, Zenon
<1>5. u - 0 = u
  BY <1>1
<1>6. Distance(PtrMod, (p + u) % PtrMod, p) = u
  BY <1>2, <1>3, <1>4, <1>5, Zenon
<1> QED BY <1>6, Zenon DEF Distance, PtrMinus

LEMMA TxDistance ==
  ASSUME NEW p \in Int, NEW i \in Int, NEW j \in Int, j - i \in 0 .. TxCnt - 1
  PROVE  TxMinus(Entry(TxCnt, p, j), Entry(TxCnt, p, i)) = j - i
<1>1. Distance(TxCnt, Entry(TxCnt, p, j), Entry(TxCnt, p, i)) = j - i
  BY Sizes, EntryDistance, ZenonT(60)
<1> QED BY <1>1, Zenon DEF Distance, TxMinus, TxIdx

InRx(s)    == <<"rx", s>>
InTx(s)    == <<"tx", s>>
InStack(s) == <<"stack", s>>

LEMMA Apart3 ==
  ASSUME NEW s, NEW t
  PROVE  /\ InRx(s) = InRx(t) => s = t
         /\ InTx(s) = InTx(t) => s = t
         /\ InRx(s) # InTx(t) /\ InRx(s) # InStack(t) /\ InTx(s) # InStack(t)
<1>1. /\ InRx(s)[1] = "rx" /\ InRx(s)[2] = s /\ InTx(s)[1] = "tx" /\ InTx(s)[2] = s
      /\ InRx(t)[2] = t /\ InTx(t)[2] = t /\ InTx(t)[1] = "tx" /\ InStack(t)[1] = "stack"
  BY DEF InRx, InTx, InStack
<1>2. "rx" # "tx" /\ "rx" # "stack" /\ "tx" # "stack"
  OBVIOUS
<1> QED BY <1>1, <1>2

LEMMA PlaceIs ==
  ASSUME NEW p \in Places
  PROVE  \/ \E s \in RxSlots : p = InRx(s) /\ BufAt(p) = rx.bufs[s]
         \/ \E s \in TxSlots : p = InTx(s) /\ BufAt(p) = tx.bufs[s]
         \/ \E s \in stack : p = InStack(s) /\ BufAt(p) = s
<1>1. CASE p \in {"rx"} \X RxSlots
  <2>1. p[1] = "rx" /\ p[2] \in RxSlots /\ p = <<"rx", p[2]>>
    BY <1>1
  <2> QED BY <2>1 DEF InRx, BufAt
<1>2. CASE p \in {"tx"} \X TxSlots
  <2>1. p[1] = "tx" /\ p[2] \in TxSlots /\ p = <<"tx", p[2]>>
    BY <1>2
  <2> QED BY <2>1 DEF InTx, BufAt
<1>3. CASE p \in {"stack"} \X stack
  <2>1. p[1] = "stack" /\ p[2] \in stack /\ p = <<"stack", p[2]>>
    BY <1>3
  <2> QED BY <2>1 DEF InStack, BufAt
<1> QED BY <1>1, <1>2, <1>3 DEF Places

LEMMA RxPlace == ASSUME NEW s \in RxSlots PROVE InRx(s) \in Places /\ BufAt(InRx(s)) = rx.bufs[s]
<1>1. InRx(s)[1] = "rx" /\ InRx(s)[2] = s /\ InRx(s) \in Places
  BY DEF Places, InRx
<1> QED BY <1>1 DEF BufAt
LEMMA TxPlace == ASSUME NEW s \in TxSlots PROVE InTx(s) \in Places /\ BufAt(InTx(s)) = tx.bufs[s]
<1>1. InTx(s)[1] = "tx" /\ InTx(s)[2] = s /\ InTx(s) \in Places
  BY DEF Places, InTx
<1> QED BY <1>1 DEF BufAt
LEMMA StackPlace == ASSUME NEW s \in stack PROVE InStack(s) \in Places /\ BufAt(InStack(s)) = s
<1>1. InStack(s)[1] = "stack" /\ InStack(s)[2] = s /\ InStack(s) \in Places
  BY DEF Places, InStack
<1> QED BY <1>1 DEF BufAt

LEMMA OnceIsOnce == BuffersOnce <=> OnceNow
<1>1. ASSUME BuffersOnce PROVE OnceNow
  <2>1. /\ \A p, q \in Places : BufAt(p) = BufAt(q) => p = q
        /\ \A p \in Places : BufAt(p) \in alloc
        /\ \A b \in alloc : \E p \in Places : BufAt(p) = b
    BY <1>1 DEF BuffersOnce
  <2>2. ASSUME NEW s \in RxSlots, NEW t \in RxSlots, rx.bufs[s] = rx.bufs[t] PROVE s = t
    BY <2>1, <2>2, RxPlace, Apart3
  <2>3. ASSUME NEW s \in TxSlots, NEW t \in TxSlots, tx.bufs[s] = tx.bufs[t] PROVE s = t
    BY <2>1, <2>3, TxPlace, Apart3
  <2>4. ASSUME NEW s \in RxSlots, NEW b \in stack, rx.bufs[s] = b PROVE FALSE
    <3>1. InRx(s) \in Places /\ BufAt(InRx(s)) = b
      BY <2>4, RxPlace
    <3>2. InStack(b) \in Places /\ BufAt(InStack(b)) = b
      BY StackPlace
    <3>3. InRx(s) = InStack(b)
      BY <2>1, <3>1, <3>2
    <3> QED BY <3>3, Apart3
  <2>5. ASSUME NEW s \in TxSlots, NEW b \in stack, tx.bufs[s] = b PROVE FALSE
    <3>1. InTx(s) \in Places /\ BufAt(InTx(s)) = b
      BY <2>5, TxPlace
    <3>2. InStack(b) \in Places /\ BufAt(InStack(b)) = b
      BY StackPlace
    <3>3. InTx(s) = InStack(b)
      BY <2>1, <3>1, <3>2
    <3> QED BY <3>3, Apart3
  <2>6. ASSUME NEW s \in RxSlots, NEW t \in TxSlots, rx.bufs[s] = tx.bufs[t] PROVE FALSE
    BY <2>1, <2>6, RxPlace, TxPlace, Apart3
  <2>7. /\ \A s \in RxSlots : rx.bufs[s] \in alloc
        /\ \A s \in TxSlots : tx.bufs[s] \in alloc
        /\ stack \subseteq alloc
    BY <2>1, RxPlace, TxPlace, StackPlace
  <2>8. ASSUME NEW b \in alloc
        PROVE  (\E s \in RxSlots : rx.bufs[s] = b) \/ (\E t \in TxSlots : tx.bufs[t] = b) \/ b \in stack
    BY <2>1, PlaceIs
  <2> QED BY <2>2, <2>3, <2>4, <2>5, <2>6, <2>7, <2>8 DEF OnceNow, Once
<1>2. ASSUME OnceNow PROVE BuffersOnce
  <2>1. ASSUME NEW p \in Places, NEW q \in Places, BufAt(p) = BufAt(q) PROVE p = q
    BY <1>2, <2>1, PlaceIs DEF OnceNow, Once
  <2>2. ASSUME NEW p \in Places PROVE BufAt(p) \in alloc
    BY <1>2, PlaceIs DEF OnceNow, Once
  <2>3. ASSUME NEW b \in alloc PROVE \E p \in Places : BufAt(p) = b
    <3>1. (\E s \in RxSlots : rx.bufs[s] = b) \/ (\E t \in TxSlots : tx.bufs[t] = b) \/ b \in stack
      BY <1>2, Zenon DEF OnceNow, Once
    <3> QED BY <3>1, RxPlace, TxPlace, StackPlace
  <2> QED BY <2>1, <2>2, <2>3 DEF BuffersOnce
<1> QED BY <1>1, <1>2

(* What can become of a buffer of the ring while entry e is free: its      *)
(* entry, a, becomes the free one, and e holds ...                         *)
LEMMA OnceMoved ==       \* ... the same buffer,
  ASSUME NEW rs, NEW rb, NEW ts, NEW tb, NEW st, NEW al, Once(rs, rb, ts, tb, st, al),
         NEW a \in rs, NEW e, e \notin rs, NEW rb2,
         \A s \in rs \ {a} : rb2[s] = rb[s], rb2[e] = rb[a]
  PROVE  Once((rs \ {a}) \cup {e}, rb2, ts, tb, st, al)
<1> DEFINE rs2 == (rs \ {a}) \cup {e}
<1>1. \A s \in rs2 : IF s = e THEN rb2[s] = rb[a] ELSE s \in rs /\ s # a /\ rb2[s] = rb[s]
  OBVIOUS
<1>2. \A s \in rs2 : \E x \in rs : rb2[s] = rb[x]
  BY <1>1
<1>3. \A s, t \in rs2 : rb2[s] = rb2[t] => s = t
  BY <1>1 DEF Once
<1>4. \A x \in rs : \E s \in rs2 : rb2[s] = rb[x]
  OBVIOUS
<1> HIDE DEF rs2
<1>5. Once(rs2, rb2, ts, tb, st, al)
  BY <1>2, <1>3, <1>4 DEF Once
<1> QED BY <1>5 DEF rs2

LEMMA OnceReplaced ==    \* ... a new one, and the old one goes to the stack,
  ASSUME NEW rs, NEW rb, NEW ts, NEW tb, NEW st, NEW al, Once(rs, rb, ts, tb, st, al),
         NEW a \in rs, NEW e, e \notin rs, NEW rb2, NEW f, f \notin al,
         \A s \in rs \ {a} : rb2[s] = rb[s], rb2[e] = f
  PROVE  Once((rs \ {a}) \cup {e}, rb2, ts, tb, st \cup {rb[a]}, al \cup {f})
<1> DEFINE rs2 == (rs \ {a}) \cup {e}
           st2 == st \cup {rb[a]}
           al2 == al \cup {f}
<1>1. \A s \in rs2 : IF s = e THEN rb2[s] = f ELSE s \in rs /\ s # a /\ rb2[s] = rb[s]
  OBVIOUS
<1>2. \A s \in rs2 : rb2[s] = f \/ (\E x \in rs : x # a /\ rb2[s] = rb[x])
  BY <1>1
<1>3. \A s, t \in rs2 : rb2[s] = rb2[t] => s = t
  BY <1>1 DEF Once
<1>4. \A x \in rs : x = a \/ \E s \in rs2 : rb2[s] = rb[x]
  OBVIOUS
<1>5. /\ \A b \in st2 : b \in st \/ b = rb[a]
      /\ \A b \in al2 : b \in al \/ b = f
      /\ rb[a] \in st2 /\ st \subseteq st2 /\ f \in al2 /\ al \subseteq al2 /\ e \in rs2
      /\ rb2[e] = f
  OBVIOUS
<1> HIDE DEF rs2, st2, al2
<1>6. \A s \in rs2 : rb2[s] \in al2 /\ rb2[s] \notin st2
  BY <1>2, <1>5 DEF Once
<1>7. \A t \in ts : tb[t] \in al2 /\ tb[t] \notin st2
  BY <1>5 DEF Once
<1>8. \A s \in rs2, t \in ts : rb2[s] # tb[t]
  BY <1>2 DEF Once
<1>9. st2 \subseteq al2
  BY <1>5 DEF Once
<1>10. \A b \in al2 : (\E s \in rs2 : rb2[s] = b) \/ (\E t \in ts : tb[t] = b) \/ b \in st2
  BY <1>4, <1>5 DEF Once
<1>11. \A s, t \in ts : tb[s] = tb[t] => s = t
  BY DEF Once
<1>12. Once(rs2, rb2, ts, tb, st2, al2)
  BY <1>3, <1>6, <1>7, <1>8, <1>9, <1>10, <1>11 DEF Once
<1> QED BY <1>12 DEF rs2, st2, al2

Gets(ts, tb, t0, tb2, f) == (\A t \in ts \ {t0} : tb2[t] = tb[t]) /\ tb2[t0] = f

LEMMA OnceSwapped ==     \* ... one of the XDP ring's, which gets the old one,
  ASSUME NEW rs, NEW rb, NEW ts, NEW tb, NEW st, NEW al, Once(rs, rb, ts, tb, st, al),
         NEW a \in rs, NEW e, e \notin rs, NEW rb2, NEW t0 \in ts, NEW tb2,
         Gets(rs \ {a}, rb, e, rb2, tb[t0]), Gets(ts, tb, t0, tb2, rb[a])
  PROVE  Once((rs \ {a}) \cup {e}, rb2, ts, tb2, st, al)
<1> DEFINE rs2 == (rs \ {a}) \cup {e}
<1>0. /\ \A s \in rs \ {a} : rb2[s] = rb[s]
      /\ \A t \in ts \ {t0} : tb2[t] = tb[t]
      /\ rb2[e] = tb[t0] /\ tb2[t0] = rb[a]
  BY DEF Gets
<1>1. \A s \in rs2 : IF s = e THEN rb2[s] = tb[t0] ELSE s \in rs /\ s # a /\ rb2[s] = rb[s]
  BY <1>0
<1>2. \A s \in rs2 : rb2[s] = tb[t0] \/ (\E x \in rs : x # a /\ rb2[s] = rb[x])
  BY <1>1
<1>3. \A s, t \in rs2 : rb2[s] = rb2[t] => s = t
  BY <1>1 DEF Once
<1>4. \A t \in ts : IF t = t0 THEN tb2[t] = rb[a] ELSE tb2[t] = tb[t]
  BY <1>0
<1>5. \A s, t \in ts : tb2[s] = tb2[t] => s = t
  BY <1>4 DEF Once
<1>6. \A x \in rs : x = a \/ \E s \in rs2 : rb2[s] = rb[x]
  BY <1>0
<1>7. e \in rs2 /\ rb2[e] = tb[t0] /\ tb2[t0] = rb[a]
  BY <1>0
<1> HIDE DEF rs2
<1>8. \A s \in rs2 : rb2[s] \in al /\ rb2[s] \notin st
  BY <1>2 DEF Once
<1>9. \A t \in ts : tb2[t] \in al /\ tb2[t] \notin st
  BY <1>4 DEF Once
<1>10. \A s \in rs2, t \in ts : rb2[s] # tb2[t]
  BY <1>2, <1>4 DEF Once
<1>11. \A b \in al : (\E s \in rs2 : rb2[s] = b) \/ (\E t \in ts : tb2[t] = b) \/ b \in st
  <2> SUFFICES ASSUME NEW b \in al
               PROVE  (\E s \in rs2 : rb2[s] = b) \/ (\E t \in ts : tb2[t] = b) \/ b \in st
    OBVIOUS
  <2>1. CASE \E s \in rs : rb[s] = b
    BY <1>6, <1>7, <2>1
  <2>2. CASE \E t \in ts : tb[t] = b
    BY <1>4, <1>7, <2>2
  <2>3. CASE b \in st
    BY <2>3
  <2> QED BY <2>1, <2>2, <2>3 DEF Once
<1>12. Once(rs2, rb2, ts, tb2, st, al)
  BY <1>3, <1>5, <1>8, <1>9, <1>10, <1>11 DEF Once
<1> QED BY <1>12 DEF rs2

LEMMA OnceFreed ==
  ASSUME NEW rs, NEW rb, NEW ts, NEW tb, NEW st, NEW al, Once(rs, rb, ts, tb, st, al), NEW b \in st
  PROVE  Once(rs, rb, ts, tb, st \ {b}, al \ {b})
BY DEF Once

----------------------------------------------------------------------------
(* The receive ring.                                                       *)
LEMMA NextRem ==
  ASSUME NEW n \in Nat \ {0}, NEW a \in Int
  PROVE  /\ a % n \in 0 .. n - 1
         /\ a % n = n - 1 => (a + 1) % n = 0
         /\ a % n # n - 1 => (a + 1) % n = (a % n) + 1
<1> DEFINE r == a % n
<1>1. r \in 0 .. n - 1
  BY Euclid
<1>2. (r + 1) % n = (a + 1) % n
  <2>1. 1 \in Int
    OBVIOUS
  <2> QED BY <2>1, ModAdd, Zenon
<1> HIDE DEF r
<1>3. r # n - 1 => (r + 1) % n = r + 1
  <2>1. ASSUME r # n - 1 PROVE (r + 1) % n = r + 1
    <3>1. r + 1 \in 0 .. n - 1
      BY <1>1, <2>1
    <3> QED BY <3>1, ModSmall, Zenon
  <2> QED BY <2>1
<1>4. r = n - 1 => (r + 1) % n = 0
  <2>1. ASSUME r = n - 1 PROVE (r + 1) % n = 0
    <3>1. r + 1 = 0 + n * 1 /\ 0 \in Int /\ 1 \in Int
      BY <2>1
    <3>2. (0 + n * 1) % n = 0 % n
      BY <3>1, Turns, Zenon
    <3>3. 0 \in 0 .. n - 1
      OBVIOUS
    <3>4. 0 % n = 0
      BY <3>3, ModSmall, Zenon
    <3> QED BY <3>1, <3>2, <3>4, Zenon
  <2> QED BY <2>1
<1>5. /\ r \in 0 .. n - 1
      /\ r = n - 1 => (a + 1) % n = 0
      /\ r # n - 1 => (a + 1) % n = r + 1
  BY <1>1, <1>2, <1>3, <1>4, Zenon
<1> QED BY <1>5 DEF r

LEMMA RxTypes ==
  ASSUME TypeOK
  PROVE  /\ rx.wr \in 0 .. PtrMod - 1 /\ rx.rd \in 0 .. PtrMod - 1 /\ rx.rd \in Int /\ rx.wr \in Int
         /\ rx.bufs \in [0 .. Cnt - 1 -> Bufs \cup {NoBuf}]
         /\ rx.ds \in [0 .. Cnt - 1 -> [dd : BOOLEAN, buf : Bufs \cup {NoBuf}]]
         /\ written \in Nat /\ rcvd \in Nat /\ last \in Nat
<1>1. rx.wr \in 0 .. PtrMod - 1 /\ rx.rd \in 0 .. PtrMod - 1
  BY DEF TypeOK
<1>2. rx.wr \in Int /\ rx.rd \in Int
  BY <1>1, Sizes
<1> QED BY <1>1, <1>2 DEF TypeOK

LEMMA RxSlotIs ==
  ASSUME TypeOK, NEW k \in Int
  PROVE  RxSlot(k) \in 0 .. Cnt - 1 /\ RxSlot(k) \in Int
<1>1. Cnt \in Nat \ {0} /\ rx.rd \in Int
  BY Sizes, RxTypes
<1>2. Entry(Cnt, rx.rd, k) \in 0 .. Cnt - 1
  BY <1>1, EntryRange, Zenon
<1> QED BY <1>1, <1>2 DEF RxSlot

LEMMA RxSlotOnce ==
  ASSUME TypeOK, NEW j \in 0 .. Cnt - 1, NEW k \in 0 .. Cnt - 1, RxSlot(j) = RxSlot(k)
  PROVE  j = k
<1>1. Cnt \in Nat \ {0} /\ rx.rd \in Int /\ j \in Int /\ k \in Int /\ j - k < Cnt /\ k - j < Cnt
  BY Sizes, RxTypes
<1>2. Entry(Cnt, rx.rd, j) = Entry(Cnt, rx.rd, k)
  BY DEF RxSlot
<1> QED BY <1>1, <1>2, EntryOnce, Zenon

(* Where the buffers of a ring are whose pointers are Cnt - 1 apart.       *)
LEMMA FedIs ==
  ASSUME NEW wr \in 0 .. PtrMod - 1, NEW rd \in 0 .. PtrMod - 1, wr = (rd + (Cnt - 1)) % PtrMod
  PROVE  /\ ~(wr = 0 /\ rd = 0)
         /\ {RxIdx(rd + k) : k \in 0 .. PtrMinus(wr, rd) - 1} = {Entry(Cnt, rd, k) : k \in 0 .. Cnt - 2}
<1>1. /\ Cnt \in Nat \ {0} /\ PtrMod \in Nat \ {0}
      /\ Cnt - 1 \in 0 .. PtrMod - 1 /\ Cnt - 1 # 0
  BY Sizes, PointersFit
<1>2. PtrMinus(wr, rd) = Cnt - 1
  <2>1. PtrMinus((rd + (Cnt - 1)) % PtrMod, rd) = Cnt - 1
    BY <1>1, PtrDistance, Zenon
  <2> QED BY <2>1
<1>3. ~(wr = 0 /\ rd = 0)
  <2>1. ASSUME wr = 0, rd = 0 PROVE FALSE
    <3>1. rd + (Cnt - 1) = Cnt - 1
      BY <1>1, <2>1
    <3>2. (Cnt - 1) % PtrMod = Cnt - 1
      BY <1>1, ModSmall, Zenon
    <3>3. wr = Cnt - 1
      BY <3>1, <3>2, Zenon
    <3> QED BY <1>1, <2>1, <3>3
  <2> QED BY <2>1
<1>4. Cnt - 1 - 1 = Cnt - 2
  BY <1>1
<1>5. \A k : RxIdx(rd + k) = Entry(Cnt, rd, k)
  BY Zenon DEF RxIdx, Entry
<1> QED BY <1>2, <1>3, <1>4, <1>5

(* A ring that was fed has one free entry, that of the write pointer.      *)
LEMMA RxFed ==
  ASSUME TypeOK, RxRing, on # "empty"
  PROVE  /\ RxIdx(rx.rd) = RxSlot(0) /\ RxIdx(rx.wr) = RxSlot(Cnt - 1)
         /\ ~NeverFed(rx)
         /\ RxSlots = {RxSlot(k) : k \in 0 .. Cnt - 2}
<1>1. /\ Cnt \in Nat \ {0} /\ PtrMod \in Nat \ {0} /\ PtrMod % Cnt = 0
      /\ rx.rd \in Int /\ Cnt - 1 \in Int /\ 0 \in Int
      /\ Cnt - 1 \in 0 .. PtrMod - 1 /\ Cnt - 1 # 0
  BY Sizes, RxTypes, PointersFit
<1>2. rx.wr = (rx.rd + (Cnt - 1)) % PtrMod
  BY DEF RxRing
<1>3. RxIdx(rx.rd) = RxSlot(0)
  <2>1. rx.rd + 0 = rx.rd
    BY <1>1
  <2> QED BY <2>1 DEF RxIdx, RxSlot, Entry
<1>4. RxIdx(rx.wr) = RxSlot(Cnt - 1)
  <2>1. rx.rd + (Cnt - 1) \in Int
    BY <1>1
  <2>2. ((rx.rd + (Cnt - 1)) % PtrMod) % Cnt = (rx.rd + (Cnt - 1)) % Cnt
    BY <1>1, <2>1, Nested, Zenon
  <2> QED BY <1>2, <2>2, Zenon DEF RxIdx, RxSlot, Entry
<1>5. /\ ~(rx.wr = 0 /\ rx.rd = 0)
      /\ {RxIdx(rx.rd + k) : k \in 0 .. PtrMinus(rx.wr, rx.rd) - 1}
           = {Entry(Cnt, rx.rd, k) : k \in 0 .. Cnt - 2}
  BY <1>2, RxTypes, FedIs
<1>6. ~NeverFed(rx)
  BY <1>5 DEF NeverFed
<1>7. RxSlots = {RxSlot(k) : k \in 0 .. Cnt - 2}
  BY <1>5, <1>6 DEF RxSlots, RxSlot
<1> QED BY <1>3, <1>4, <1>6, <1>7

(* The buffers of a ring that was fed are different, and none of them      *)
(* is one of the XDP ring.                                                 *)
LEMMA RxBuffers ==
  ASSUME TypeOK, RxRing, OnceNow, on # "empty"
  PROVE  /\ \A k \in 0 .. Cnt - 2 :
              /\ rx.bufs[RxSlot(k)] \in alloc /\ rx.bufs[RxSlot(k)] \in Bufs
              /\ rx.bufs[RxSlot(k)] \notin stack
         /\ \A j, k \in 0 .. Cnt - 2 : rx.bufs[RxSlot(j)] = rx.bufs[RxSlot(k)] => j = k
         /\ \A k \in 0 .. Cnt - 2, t \in TxSlots : rx.bufs[RxSlot(k)] # tx.bufs[t]
         /\ RxBuf = rx.bufs[RxSlot(0)] /\ RxBuf \in Bufs /\ RxBuf \in alloc
<1>1. RxSlots = {RxSlot(k) : k \in 0 .. Cnt - 2} /\ RxIdx(rx.rd) = RxSlot(0)
  BY RxFed
<1>2. \A k \in 0 .. Cnt - 2 : RxSlot(k) \in RxSlots
  BY <1>1
<1>3. alloc \subseteq Bufs /\ 0 \in 0 .. Cnt - 2
  BY Sizes DEF TypeOK
<1>4. \A k \in 0 .. Cnt - 2 :
              /\ rx.bufs[RxSlot(k)] \in alloc /\ rx.bufs[RxSlot(k)] \in Bufs
              /\ rx.bufs[RxSlot(k)] \notin stack
  BY <1>2, <1>3 DEF OnceNow, Once
<1>5. ASSUME NEW j \in 0 .. Cnt - 2, NEW k \in 0 .. Cnt - 2, rx.bufs[RxSlot(j)] = rx.bufs[RxSlot(k)]
      PROVE  j = k
  <2>1. RxSlot(j) = RxSlot(k)
    BY <1>2, <1>5 DEF OnceNow, Once
  <2>2. j \in 0 .. Cnt - 1 /\ k \in 0 .. Cnt - 1
    BY Sizes
  <2> QED BY <2>1, <2>2, RxSlotOnce
<1>6. \A k \in 0 .. Cnt - 2, t \in TxSlots : rx.bufs[RxSlot(k)] # tx.bufs[t]
  BY <1>2 DEF OnceNow, Once
<1>7. RxBuf = rx.bufs[RxSlot(0)]
  BY <1>1 DEF RxBuf
<1> QED BY <1>3, <1>4, <1>5, <1>6, <1>7

(* The entries of the ring when its pointers have moved by one.            *)
LEMMA RxShift ==
  ASSUME TypeOK, TypeOK', RxRing, rx'.rd = PtrPlus(rx.rd, 1), on # "empty"
  PROVE  /\ \A k \in Int : Entry(Cnt, rx'.rd, k) = RxSlot(1 + k)
         /\ {Entry(Cnt, rx'.rd, k) : k \in 0 .. Cnt - 2} = (RxSlots \ {RxSlot(0)}) \cup {RxSlot(Cnt - 1)}
         /\ RxSlot(0) \in RxSlots /\ RxSlot(Cnt - 1) \notin RxSlots
<1>1. /\ Cnt \in Nat \ {0} /\ PtrMod \in Nat \ {0} /\ PtrMod % Cnt = 0 /\ rx.rd \in Int /\ 1 \in Int
      /\ Cnt > 1
  BY Sizes, RxTypes
<1>2. ASSUME NEW k \in Int PROVE Entry(Cnt, rx'.rd, k) = RxSlot(1 + k)
  <2>1. Entry(Cnt, (rx.rd + 1) % PtrMod, k) = Entry(Cnt, rx.rd, 1 + k)
    <3>1. Moved(Cnt, PtrMod, rx.rd, 1, k)
      BY <1>1, EntryMoved, Zenon
    <3> QED BY <3>1 DEF Moved
  <2> QED BY <2>1, Zenon DEF PtrPlus, RxSlot
<1>3. RxSlots = {RxSlot(k) : k \in 0 .. Cnt - 2}
  BY RxFed
<1>4. \A k \in 0 .. Cnt - 2 : k \in Int /\ 1 + k \in 1 .. Cnt - 1
  BY <1>1
<1>5. {Entry(Cnt, rx'.rd, k) : k \in 0 .. Cnt - 2} = {RxSlot(k) : k \in 1 .. Cnt - 1}
  <2>1. \A k \in 1 .. Cnt - 1 : k - 1 \in 0 .. Cnt - 2 /\ 1 + (k - 1) = k /\ k - 1 \in Int
    BY <1>1
  <2>2. ASSUME NEW k \in 0 .. Cnt - 2
        PROVE Entry(Cnt, rx'.rd, k) \in {RxSlot(i) : i \in 1 .. Cnt - 1}
    <3>1. Entry(Cnt, rx'.rd, k) = RxSlot(1 + k) /\ 1 + k \in 1 .. Cnt - 1
      BY <1>2, <1>4
    <3> QED BY <3>1
  <2>3. ASSUME NEW k \in 1 .. Cnt - 1
        PROVE RxSlot(k) \in {Entry(Cnt, rx'.rd, i) : i \in 0 .. Cnt - 2}
    <3>1. Entry(Cnt, rx'.rd, k - 1) = RxSlot(1 + (k - 1)) /\ 1 + (k - 1) = k
          /\ k - 1 \in 0 .. Cnt - 2
      BY <1>2, <2>1
    <3> QED BY <3>1
  <2> QED BY <2>2, <2>3
<1>6. /\ \A k \in 1 .. Cnt - 1 : RxSlot(k) # RxSlot(0)
      /\ \A k \in 0 .. Cnt - 2 : RxSlot(k) # RxSlot(Cnt - 1)
  <2>1. \A k \in 1 .. Cnt - 1 : k \in 0 .. Cnt - 1 /\ k # 0 /\ 0 \in 0 .. Cnt - 1
    BY <1>1
  <2>2. \A k \in 0 .. Cnt - 2 : k \in 0 .. Cnt - 1 /\ k # Cnt - 1 /\ Cnt - 1 \in 0 .. Cnt - 1
    BY <1>1
  <2> QED BY <2>1, <2>2, RxSlotOnce
<1>7. /\ \A k \in 0 .. Cnt - 2 : k = 0 \/ k \in 1 .. Cnt - 1
      /\ \A k \in 1 .. Cnt - 1 : k = Cnt - 1 \/ k \in 0 .. Cnt - 2
      /\ 0 \in 0 .. Cnt - 2 /\ Cnt - 1 \in 1 .. Cnt - 1
  BY <1>1
<1>8. {RxSlot(k) : k \in 1 .. Cnt - 1} = (RxSlots \ {RxSlot(0)}) \cup {RxSlot(Cnt - 1)}
  BY <1>3, <1>6, <1>7
<1>9. RxSlot(0) \in RxSlots /\ RxSlot(Cnt - 1) \notin RxSlots
  BY <1>3, <1>6, <1>7
<1> QED BY <1>2, <1>5, <1>8, <1>9

----------------------------------------------------------------------------
(* A frame is taken, and its entry's neighbour on the other side is given  *)
(* a buffer.                                                               *)
LEMMA GivenIs ==
  ASSUME TypeOK, RxRing, on # "empty", NEW frag \in Bufs, rx' = Given(Taken, frag)
  PROVE  /\ rx'.wr = PtrPlus(rx.wr, 1) /\ rx'.rd = PtrPlus(rx.rd, 1)
         /\ rx'.bufs = [rx.bufs EXCEPT ![RxSlot(Cnt - 1)] = frag]
         /\ rx'.ds = [rx.ds EXCEPT ![RxSlot(Cnt - 1)] = [dd |-> FALSE, buf |-> frag]]
         /\ rx' \in [wr : 0 .. PtrMod - 1, rd : 0 .. PtrMod - 1,
                     bufs : [0 .. Cnt - 1 -> Bufs \cup {NoBuf}],
                     ds : [0 .. Cnt - 1 -> [dd : BOOLEAN, buf : Bufs \cup {NoBuf}]]]
<1> DEFINE e == RxIdx(rx.wr)
<1>1. rx \in [wr : 0 .. PtrMod - 1, rd : 0 .. PtrMod - 1,
              bufs : [0 .. Cnt - 1 -> Bufs \cup {NoBuf}],
              ds : [0 .. Cnt - 1 -> [dd : BOOLEAN, buf : Bufs \cup {NoBuf}]]]
  BY DEF TypeOK
<1>2. rx' = [rx EXCEPT !.rd = PtrPlus(@, 1), !.wr = PtrPlus(@, 1), !.bufs[e] = frag,
                       !.ds[e] = [dd |-> FALSE, buf |-> frag]]
  BY <1>1 DEF Given, Taken
<1>3. e = RxSlot(Cnt - 1)
  BY RxFed
<1>4. e \in 0 .. Cnt - 1
  <2>1. Cnt - 1 \in Int
    BY Sizes
  <2> QED BY <1>3, <2>1, RxSlotIs
<1>5. \A p \in Int : PtrPlus(p, 1) \in 0 .. PtrMod - 1
  <2>1. ASSUME NEW p \in Int PROVE PtrPlus(p, 1) \in 0 .. PtrMod - 1
    <3>1. p + 1 \in Int /\ PtrMod \in Nat \ {0}
      BY Sizes
    <3> QED BY <3>1, Euclid DEF PtrPlus
  <2> QED BY <2>1
<1>6. rx.rd \in Int /\ rx.wr \in Int
  BY RxTypes
<1> HIDE DEF e
<1>7. /\ rx'.wr = PtrPlus(rx.wr, 1) /\ rx'.rd = PtrPlus(rx.rd, 1)
      /\ rx'.bufs = [rx.bufs EXCEPT ![e] = frag]
      /\ rx'.ds = [rx.ds EXCEPT ![e] = [dd |-> FALSE, buf |-> frag]]
  BY <1>1, <1>2
<1>8. /\ rx'.bufs \in [0 .. Cnt - 1 -> Bufs \cup {NoBuf}]
      /\ rx'.ds \in [0 .. Cnt - 1 -> [dd : BOOLEAN, buf : Bufs \cup {NoBuf}]]
  <2>1. /\ rx.bufs \in [0 .. Cnt - 1 -> Bufs \cup {NoBuf}] /\ frag \in Bufs \cup {NoBuf}
        /\ rx.ds \in [0 .. Cnt - 1 -> [dd : BOOLEAN, buf : Bufs \cup {NoBuf}]]
    BY <1>1
  <2>2. [dd |-> FALSE, buf |-> frag] \in [dd : BOOLEAN, buf : Bufs \cup {NoBuf}]
    BY <2>1
  <2> QED BY <1>4, <1>7, <2>1, <2>2
<1>9. rx' = [wr |-> rx'.wr, rd |-> rx'.rd, bufs |-> rx'.bufs, ds |-> rx'.ds]
  BY <1>1, <1>2
<1>10. rx'.wr \in 0 .. PtrMod - 1 /\ rx'.rd \in 0 .. PtrMod - 1
  BY <1>5, <1>6, <1>7
<1>11. rx' \in [wr : 0 .. PtrMod - 1, rd : 0 .. PtrMod - 1,
                     bufs : [0 .. Cnt - 1 -> Bufs \cup {NoBuf}],
                     ds : [0 .. Cnt - 1 -> [dd : BOOLEAN, buf : Bufs \cup {NoBuf}]]]
  BY <1>8, <1>9, <1>10
<1> QED BY <1>3, <1>7, <1>11

LEMMA KnownIs ==
  ASSUME TypeOK
  PROVE  Known \in 0 .. Cnt - 1 /\ Cnt - FlBatch <= Known
<1>1. rx.wr % FlBatch \in 0 .. FlBatch - 1
  BY RxTypes, Sizes, Euclid
<1> QED BY <1>1, Sizes DEF Known

(* The device learns of a batch when it is complete.                       *)
LEMMA KnownMoves ==
  ASSUME TypeOK, TypeOK', RxRing, rx'.wr = PtrPlus(rx.wr, 1), dev'.fl_wr = TellDevice(dev).fl_wr
  PROVE  /\ dev'.fl_wr = RxSlot(1 + Known')
         /\ Known <= 1 + Known' /\ Known' \in 0 .. Cnt - 1
<1> DEFINE m == rx.wr % FlBatch
           m2 == rx'.wr % FlBatch
<1>1. /\ FlBatch \in Nat \ {0} /\ PtrMod \in Nat \ {0} /\ PtrMod % FlBatch = 0
      /\ rx.wr \in Int /\ 1 \in Int /\ Cnt \in Nat \ {0} /\ FlBatch < Cnt /\ rx.wr + 1 \in Int
  BY RxTypes, Sizes
<1>2. m2 = (rx.wr + 1) % FlBatch
  <2>1. ((rx.wr + 1) % PtrMod) % FlBatch = (rx.wr + 1) % FlBatch
    BY <1>1, Nested, Zenon
  <2> QED BY <2>1 DEF PtrPlus
<1>3. /\ m \in 0 .. FlBatch - 1
      /\ m = FlBatch - 1 => m2 = 0
      /\ m # FlBatch - 1 => m2 = m + 1
  BY <1>1, <1>2, NextRem
<1>4. Known = Cnt - 1 - m /\ Known' = Cnt - 1 - m2
  BY DEF Known
<1>5. PtrPlus(rx.wr, 1) % FlBatch = m2
  OBVIOUS
<1>6. dev'.fl_wr = IF m2 = 0 THEN RxIdx(dev.fl_wr + FlBatch) ELSE dev.fl_wr
  <2>1. TellDevice(dev).fl_wr = IF PtrPlus(rx.wr, 1) % FlBatch = 0 THEN RxIdx(dev.fl_wr + FlBatch)
                                ELSE dev.fl_wr
    BY DEF TellDevice, TypeOK
  <2> QED BY <1>5, <2>1
<1> HIDE DEF m, m2
<1>7. m2 \in 0 .. FlBatch - 1
  BY <1>1, <1>3
<1>8. Known <= 1 + Known' /\ Known' \in 0 .. Cnt - 1 /\ Known \in Int
  BY <1>1, <1>3, <1>4, <1>7
<1>9. dev.fl_wr = RxSlot(Known)
  BY DEF RxRing
<1>10. CASE m2 = 0
  <2>1. Known + FlBatch = 1 + Known'
    BY <1>1, <1>3, <1>4, <1>10
  <2>2. (Entry(Cnt, rx.rd, Known) + FlBatch) % Cnt = Entry(Cnt, rx.rd, Known + FlBatch)
    <3>1. FlBatch \in Int /\ rx.rd \in Int
      BY <1>1, RxTypes
    <3>2. Further(Cnt, rx.rd, Known, FlBatch)
      BY <1>1, <1>8, <3>1, EntryNext, Zenon
    <3> QED BY <3>2 DEF Further
  <2> QED BY <1>6, <1>8, <1>9, <1>10, <2>1, <2>2 DEF RxIdx, RxSlot
<1>11. CASE m2 # 0
  <2>1. 1 + Known' = Known
    BY <1>1, <1>3, <1>4, <1>11
  <2> QED BY <1>6, <1>8, <1>9, <1>11, <2>1
<1> QED BY <1>10, <1>11

LEMMA ReadyMeans ==
  ASSUME TypeOK, RxRing, on # "empty", Ready
  PROVE  Filling >= 1 /\ Filling \in 0 .. Cnt - 1
<1>1. 0 \in 0 .. Cnt - 2 /\ Filling \in 0 .. Known
  BY Sizes DEF RxRing
<1>2. rx.ds[RxSlot(0)].dd <=> 0 < Filling
  BY <1>1 DEF RxRing
<1>3. rx.ds[RxSlot(0)].dd
  BY RxFed DEF Ready
<1>4. 0 < Filling
  BY <1>2, <1>3
<1>5. Known \in 0 .. Cnt - 1 /\ Cnt \in Nat
  BY KnownIs, Sizes
<1> QED BY <1>1, <1>4, <1>5

LEMMA ReceiveOne ==
  ASSUME TypeOK, TypeOK', Receiving, OnceNow, Enabled, on' = on, Ready,
         NEW frag \in Bufs, rx' = Given(Taken, frag),
         dev'.fl_wr = TellDevice(dev).fl_wr, dev'.fl_rd = dev.fl_rd, Counts,
         \A k \in 1 .. Cnt - 2 : content'[rx.bufs[RxSlot(k)]] = content[rx.bufs[RxSlot(k)]]
  PROVE  Receiving'
<1> DEFINE n == Filling
<1>1. /\ RxRing /\ Enabled' /\ on # "empty" /\ last = rcvd
  BY DEF Receiving, Enabled
<1>2. /\ rcvd' = rcvd + 1 /\ written' = written /\ last' = content[RxBuf]
      /\ written \in Nat /\ rcvd \in Nat /\ Filling' = written' - rcvd' /\ n = written - rcvd
  BY RxTypes DEF Counts, Filling
<1>3. n >= 1 /\ n \in 0 .. Known /\ n \in Int /\ Known \in 0 .. Cnt - 1
  BY <1>1, ReadyMeans, KnownIs DEF RxRing
<1>4. Filling' = n - 1
  BY <1>2
<1> HIDE DEF n
<1>5. last' = rcvd'
  <2>1. 0 \in 0 .. n - 1
    BY <1>3
  <2>2. content[rx.bufs[RxSlot(0)]] = rcvd + 0 + 1
    BY <1>1, <2>1 DEF RxRing, n
  <2> QED BY <1>1, <1>2, <2>2, RxBuffers
<1>6. /\ rx'.wr = PtrPlus(rx.wr, 1) /\ rx'.rd = PtrPlus(rx.rd, 1)
      /\ rx'.bufs = [rx.bufs EXCEPT ![RxSlot(Cnt - 1)] = frag]
      /\ rx'.ds = [rx.ds EXCEPT ![RxSlot(Cnt - 1)] = [dd |-> FALSE, buf |-> frag]]
  BY <1>1, GivenIs
<1>7. \A k \in Int : Entry(Cnt, rx'.rd, k) = RxSlot(1 + k)
  BY <1>1, <1>6, RxShift
<1>8. /\ dev'.fl_wr = RxSlot(1 + Known') /\ Known <= 1 + Known' /\ Known' \in 0 .. Cnt - 1
  BY <1>1, <1>6, KnownMoves
<1>9. rx'.wr = (rx'.rd + (Cnt - 1)) % PtrMod
  <2>1. /\ PtrMod \in Nat \ {0} /\ rx.rd \in Int /\ Cnt - 1 \in Int /\ 1 \in Int
        /\ rx.rd + (Cnt - 1) \in Int /\ rx.rd + 1 \in Int
        /\ (rx.rd + (Cnt - 1)) + 1 = (rx.rd + 1) + (Cnt - 1)
    BY RxTypes, Sizes
  <2>2. (((rx.rd + (Cnt - 1)) % PtrMod) + 1) % PtrMod = ((rx.rd + (Cnt - 1)) + 1) % PtrMod
    BY <2>1, ModAdd, Zenon
  <2>3. (((rx.rd + 1) % PtrMod) + (Cnt - 1)) % PtrMod = ((rx.rd + 1) + (Cnt - 1)) % PtrMod
    BY <2>1, ModAdd, Zenon
  <2>4. rx.wr = (rx.rd + (Cnt - 1)) % PtrMod
    BY <1>1 DEF RxRing
  <2>5. PtrPlus(rx.wr, 1) = (PtrPlus(rx.rd, 1) + (Cnt - 1)) % PtrMod
    BY <2>1, <2>2, <2>3, <2>4, Zenon DEF PtrPlus
  <2> QED BY <1>6, <2>5
<1>10. /\ Filling' \in 0 .. Known' /\ Filling' \in Int /\ Known' \in Int
       /\ 1 + Filling' = n
  <2> DEFINE a == Filling'
             b == Known'
             c == Known
  <2>1. a = n - 1 /\ n >= 1 /\ n \in Int /\ n \in 0 .. c /\ c <= 1 + b /\ c \in Int /\ b \in Int
    <3>1. a = n - 1 /\ n >= 1 /\ n \in Int
      BY <1>3, <1>4
    <3>2. c \in 0 .. Cnt - 1 /\ b \in 0 .. Cnt - 1 /\ c <= 1 + b /\ n \in 0 .. c
      BY <1>3, <1>8
    <3>3. c \in Int /\ b \in Int
      <4> HIDE DEF a, b, c
      <4> QED BY <3>2, Sizes
    <3> HIDE DEF a, b, c
    <3> QED BY <3>1, <3>2, <3>3
  <2> HIDE DEF a, b, c
  <2>2. a \in 0 .. b /\ a \in Int /\ 1 + a = n
    BY <2>1
  <2> QED BY <2>1, <2>2 DEF a, b, c
<1>11. dev'.fl_rd = Entry(Cnt, rx'.rd, Filling') /\ dev'.fl_wr = Entry(Cnt, rx'.rd, Known')
  <2>1. dev.fl_rd = RxSlot(n)
    BY <1>1 DEF RxRing, n
  <2> QED BY <1>7, <1>8, <1>10, <2>1
<1>12. \A k \in 1 .. Cnt - 2 : /\ k \in 0 .. Cnt - 2 /\ RxSlot(k) # RxSlot(Cnt - 1)
                              /\ RxSlot(k) \in 0 .. Cnt - 1
  <2>1. \A k \in 1 .. Cnt - 2 : k \in 0 .. Cnt - 1 /\ k # Cnt - 1 /\ Cnt - 1 \in 0 .. Cnt - 1
                                /\ k \in 0 .. Cnt - 2 /\ k \in Int
    BY Sizes
  <2> QED BY <2>1, RxSlotOnce, RxSlotIs
<1>13. \A k \in 1 .. Cnt - 2 : rx'.bufs[RxSlot(k)] = rx.bufs[RxSlot(k)]
                               /\ rx'.ds[RxSlot(k)] = rx.ds[RxSlot(k)]
  BY <1>6, <1>12, RxTypes
<1>14. rx'.bufs[RxSlot(Cnt - 1)] = frag /\ rx'.ds[RxSlot(Cnt - 1)] = [dd |-> FALSE, buf |-> frag]
  <2>1. RxSlot(Cnt - 1) \in 0 .. Cnt - 1
    BY Sizes, RxSlotIs
  <2> QED BY <1>6, <2>1, RxTypes
<1>15. ASSUME NEW k \in 0 .. Cnt - 2
       PROVE  /\ rx'.ds[Entry(Cnt, rx'.rd, k)].dd <=> k < Filling'
              /\ rx'.ds[Entry(Cnt, rx'.rd, k)].buf = rx'.bufs[Entry(Cnt, rx'.rd, k)]
  <2>1. k \in Int /\ Entry(Cnt, rx'.rd, k) = RxSlot(1 + k)
    BY <1>7, Sizes
  <2>2. CASE 1 + k \in 1 .. Cnt - 2
    <3>1. /\ rx.ds[RxSlot(1 + k)].dd <=> 1 + k < n
          /\ rx.ds[RxSlot(1 + k)].buf = rx.bufs[RxSlot(1 + k)]
      BY <1>1, <1>12, <2>2 DEF RxRing, n
    <3>2. (1 + k < n) <=> (k < Filling')
      BY <1>3, <1>4, <2>1
    <3>3. rx'.ds[RxSlot(1 + k)] = rx.ds[RxSlot(1 + k)] /\ rx'.bufs[RxSlot(1 + k)] = rx.bufs[RxSlot(1 + k)]
      BY <1>13, <2>2
    <3> QED BY <2>1, <3>1, <3>2, <3>3
  <2>3. CASE 1 + k = Cnt - 1
    <3>1. ~(k < Filling')
      BY <1>3, <1>4, <2>1, <2>3, Sizes
    <3>2. /\ ~rx'.ds[RxSlot(1 + k)].dd /\ rx'.ds[RxSlot(1 + k)].buf = frag
          /\ rx'.bufs[RxSlot(1 + k)] = frag
      BY <1>14, <2>3
    <3> QED BY <2>1, <3>1, <3>2
  <2>4. 1 + k \in 1 .. Cnt - 2 \/ 1 + k = Cnt - 1
    BY <2>1, Sizes
  <2> QED BY <2>2, <2>3, <2>4
<1>16. ASSUME NEW k \in 0 .. Filling' - 1
       PROVE  content'[rx'.bufs[Entry(Cnt, rx'.rd, k)]] = rcvd' + k + 1
  <2>1. /\ k \in Int /\ 1 + k \in 0 .. n - 1 /\ 1 + k \in 1 .. Cnt - 2
        /\ rcvd' + k + 1 = rcvd + (1 + k) + 1
    BY <1>2, <1>3, <1>4, Sizes
  <2>2. Entry(Cnt, rx'.rd, k) = RxSlot(1 + k)
    BY <1>7, <2>1
  <2>3. content[rx.bufs[RxSlot(1 + k)]] = rcvd + (1 + k) + 1
    BY <1>1, <2>1 DEF RxRing, n
  <2>4. content'[rx.bufs[RxSlot(1 + k)]] = content[rx.bufs[RxSlot(1 + k)]]
        /\ rx'.bufs[RxSlot(1 + k)] = rx.bufs[RxSlot(1 + k)]
    BY <1>13, <2>1
  <2> QED BY <2>1, <2>2, <2>3, <2>4
<1>17. RxRing'
  BY <1>9, <1>10, <1>11, <1>15, <1>16 DEF RxRing, RxSlot
<1> QED BY <1>1, <1>5, <1>17 DEF Receiving

----------------------------------------------------------------------------
(* The transmit ring.                                                      *)
TxType == [wr : 0 .. PtrMod - 1, rd : 0 .. PtrMod - 1, add : Nat, qcp : 0 .. TxCnt - 1,
           bufs : [0 .. TxCnt - 1 -> Nat]]

LEMMA TxTypes ==
  ASSUME NEW t \in TxType
  PROVE  /\ t.wr \in 0 .. PtrMod - 1 /\ t.rd \in 0 .. PtrMod - 1 /\ t.rd \in Int /\ t.wr \in Int
         /\ t.add \in Nat /\ t.qcp \in 0 .. TxCnt - 1 /\ t.qcp \in Int
         /\ t.bufs \in [0 .. TxCnt - 1 -> Nat]
<1>1. /\ t.wr \in 0 .. PtrMod - 1 /\ t.rd \in 0 .. PtrMod - 1
      /\ t.add \in Nat /\ t.qcp \in 0 .. TxCnt - 1
      /\ t.bufs \in [0 .. TxCnt - 1 -> Nat]
  BY DEF TxType
<1>2. t.wr \in Int /\ t.rd \in Int /\ t.qcp \in Int
  BY <1>1, Sizes
<1> QED BY <1>1, <1>2

LEMMA AtIs ==
  ASSUME NEW t \in TxType, NEW k \in Int
  PROVE  At(t, k) \in 0 .. TxCnt - 1 /\ At(t, k) \in Int
<1>1. TxCnt \in Nat \ {0} /\ t.rd \in Int
  BY Sizes, TxTypes
<1>2. Entry(TxCnt, t.rd, k) \in 0 .. TxCnt - 1
  BY <1>1, EntryRange, Zenon
<1> QED BY <1>1, <1>2 DEF At

LEMMA AtOnce ==
  ASSUME NEW t \in TxType, NEW i \in Int, NEW j \in Int, i - j < TxCnt, j - i < TxCnt,
         At(t, i) = At(t, j)
  PROVE  i = j
<1>1. TxCnt \in Nat \ {0} /\ t.rd \in Int
  BY Sizes, TxTypes
<1>2. Entry(TxCnt, t.rd, i) = Entry(TxCnt, t.rd, j)
  BY DEF At
<1> QED BY <1>1, <1>2, EntryOnce, Zenon

LEMMA AtFurther ==
  ASSUME NEW t \in TxType, NEW k \in Int, NEW d \in Int
  PROVE  TxIdx(At(t, k) + d) = At(t, k + d)
<1>1. TxCnt \in Nat \ {0} /\ t.rd \in Int
  BY Sizes, TxTypes
<1>2. Further(TxCnt, t.rd, k, d)
  BY <1>1, EntryNext, Zenon
<1> QED BY <1>2 DEF Further, At, TxIdx

LEMMA AtMoved ==
  ASSUME NEW t \in TxType, NEW t2, NEW d \in Int, NEW k \in Int, t2.rd = PtrPlus(t.rd, d)
  PROVE  At(t2, k) = At(t, d + k)
<1>1. TxCnt \in Nat \ {0} /\ PtrMod \in Nat \ {0} /\ PtrMod % TxCnt = 0 /\ t.rd \in Int
  BY Sizes, TxTypes
<1>2. Moved(TxCnt, PtrMod, t.rd, d, k)
  BY <1>1, EntryMoved, Zenon
<1> QED BY <1>2 DEF Moved, At, PtrPlus

(* How full a ring is, and where its next entry goes.                      *)
LEMMA FullIs ==
  ASSUME NEW t \in TxType, NEW d, NEW u \in 0 .. TxCnt - 1, NEW v \in Int, TxRing(t, d, u, v)
  PROVE  /\ PtrMinus(t.wr, t.rd) = u /\ (Full(t) <=> u = TxCnt - 1)
         /\ TxIdx(t.wr) = At(t, u)
<1>1. /\ TxCnt \in Nat \ {0} /\ PtrMod \in Nat \ {0} /\ PtrMod % TxCnt = 0 /\ t.rd \in Int
      /\ u \in 0 .. PtrMod - 1 /\ u \in Int /\ t.rd \in 0 .. PtrMod - 1
  BY Sizes, TxTypes, PointersFit
<1>2. t.wr = (t.rd + u) % PtrMod
  BY DEF TxRing
<1>3. PtrMinus((t.rd + u) % PtrMod, t.rd) = u
  BY <1>1, PtrDistance, Zenon
<1>4. TxIdx(t.wr) = At(t, u)
  <2>1. t.rd + u \in Int
    BY <1>1
  <2>2. ((t.rd + u) % PtrMod) % TxCnt = (t.rd + u) % TxCnt
    BY <1>1, <2>1, Nested, Zenon
  <2> QED BY <1>2, <2>2, Zenon DEF TxIdx, At, Entry
<1>5. PtrMinus(t.wr, t.rd) = u
  BY <1>2, <1>3
<1>6. Full(t) <=> u = TxCnt - 1
  <2>1. Full(t) <=> u >= TxCnt - 1
    BY <1>5 DEF Full
  <2> QED BY <1>1, <2>1
<1> QED BY <1>4, <1>5, <1>6

LEMMA AtDistance ==
  ASSUME NEW t \in TxType, NEW i \in Int, NEW j \in Int, j - i \in 0 .. TxCnt - 1
  PROVE  TxMinus(At(t, j), At(t, i)) = j - i
<1>1. t.rd \in Int
  BY TxTypes
<1>2. TxMinus(Entry(TxCnt, t.rd, j), Entry(TxCnt, t.rd, i)) = j - i
  BY <1>1, TxDistance, Zenon
<1> QED BY <1>2 DEF At

LEMMA TodoIs ==
  ASSUME NEW t \in TxType, NEW u, NEW v \in 0 .. TxCnt - 1, TxRing(t, dev, u, v)
  PROVE  Todo(t) = v
<1>1. v \in Int /\ 0 \in Int /\ v - 0 \in 0 .. TxCnt - 1 /\ v - 0 = v
  BY Sizes
<1>2. TxMinus(At(t, v), At(t, 0)) = v - 0
  BY <1>1, AtDistance
<1> QED BY <1>1, <1>2 DEF TxRing, Todo

(* n entries are completed, ...                                            *)
Completed(t, t2, n) ==
  /\ t2.wr = t.wr /\ t2.rd = PtrPlus(t.rd, n) /\ t2.qcp = TxIdx(t.qcp + n) /\ t2.add = t.add

LEMMA RingCompleted ==
  ASSUME NEW t \in TxType, NEW d, NEW u \in 0 .. TxCnt - 1, NEW v \in 0 .. TxCnt - 1,
         TxRing(t, d, u, v), NEW n \in 0 .. v, NEW t2, Completed(t, t2, n)
  PROVE  /\ TxRing(t2, d, u - n, v - n) /\ u - n \in 0 .. TxCnt - 1 /\ v - n \in 0 .. TxCnt - 1
         /\ \A k \in Int : At(t2, k) = At(t, n + k)
<1>0. t2.wr = t.wr /\ t2.rd = PtrPlus(t.rd, n) /\ t2.qcp = TxIdx(t.qcp + n) /\ t2.add = t.add
  BY DEF Completed
<1>1. /\ u \in Int /\ v \in Int /\ n \in Int /\ 0 \in Int /\ t.add \in Nat /\ v + t.add <= u
      /\ PtrMod \in Nat \ {0} /\ t.rd \in Int
  BY Sizes, TxTypes DEF TxRing
<1>2. \A k \in Int : At(t2, k) = At(t, n + k)
  BY <1>0, <1>1, AtMoved
<1>3. /\ u - n \in 0 .. TxCnt - 1 /\ v - n \in 0 .. TxCnt - 1 /\ u - n \in Int /\ v - n \in Int
      /\ n + (u - n) = u /\ n + (v - n) = v /\ n + 0 = n /\ 0 + n = n
      /\ (u - n) - t2.add \in Int /\ n + ((u - n) - t2.add) = u - t.add
      /\ (v - n) + t2.add <= u - n
  BY <1>0, <1>1, Sizes
<1>4. t2.wr = (t2.rd + (u - n)) % PtrMod
  <2>1. Moved(PtrMod, PtrMod, t.rd, n, u - n)
    <3>1. PtrMod % PtrMod = 0
      <4>1. (0 + PtrMod * 1) % PtrMod = 0 % PtrMod
        <5>1. 0 \in Int /\ 1 \in Int
          OBVIOUS
        <5> QED BY <1>1, <5>1, Turns, Zenon
      <4>2. 0 \in 0 .. PtrMod - 1 /\ 0 + PtrMod * 1 = PtrMod
        BY <1>1
      <4>3. 0 % PtrMod = 0
        BY <1>1, <4>2, ModSmall, Zenon
      <4> QED BY <4>1, <4>2, <4>3
    <3> QED BY <1>1, <1>3, <3>1, EntryMoved, Zenon
  <2>2. (((t.rd + n) % PtrMod) + (u - n)) % PtrMod = (t.rd + (n + (u - n))) % PtrMod
    BY <2>1 DEF Moved, Entry
  <2>3. t.wr = (t.rd + u) % PtrMod
    BY DEF TxRing
  <2> QED BY <1>0, <1>3, <2>2, <2>3, Zenon DEF PtrPlus
<1>5. t2.qcp = At(t2, 0)
  <2>1. t.qcp = At(t, 0)
    BY DEF TxRing
  <2>2. TxIdx(At(t, 0) + n) = At(t, 0 + n)
    BY <1>1, AtFurther
  <2> QED BY <1>0, <1>1, <1>2, <1>3, <2>1, <2>2
<1>6. d.tx_rd = At(t2, v - n)
  BY <1>2, <1>3 DEF TxRing
<1>7. d.tx_wr = At(t2, (u - n) - t2.add)
  BY <1>2, <1>3 DEF TxRing
<1> QED BY <1>2, <1>3, <1>4, <1>5, <1>6, <1>7 DEF TxRing

(* ... one is added, ...                                                   *)
Put(t, t2) ==
  /\ t2.wr = PtrPlus(t.wr, 1) /\ t2.rd = t.rd /\ t2.qcp = t.qcp /\ t2.add = t.add + 1

LEMMA RingPut ==
  ASSUME NEW t \in TxType, NEW d, NEW u \in Int, NEW v \in Int,
         TxRing(t, d, u, v), NEW t2, Put(t, t2)
  PROVE  TxRing(t2, d, u + 1, v) /\ \A k : At(t2, k) = At(t, k)
<1>0. t2.wr = PtrPlus(t.wr, 1) /\ t2.rd = t.rd /\ t2.qcp = t.qcp /\ t2.add = t.add + 1
  BY DEF Put
<1>1. /\ t.add \in Nat /\ v + t.add <= u /\ PtrMod \in Nat \ {0} /\ t.rd \in Int
      /\ t.rd + u \in Int /\ 1 \in Int /\ (t.rd + u) + 1 = t.rd + (u + 1)
      /\ (u + 1) - (t.add + 1) = u - t.add
  <2>1. t.add \in Nat /\ t.rd \in Int /\ PtrMod \in Nat \ {0}
    BY Sizes, TxTypes
  <2>2. v + t.add <= u
    BY DEF TxRing
  <2> QED BY <2>1, <2>2
<1>2. \A k : At(t2, k) = At(t, k)
  BY <1>0 DEF At
<1>3. t2.wr = (t2.rd + (u + 1)) % PtrMod
  <2>1. (((t.rd + u) % PtrMod) + 1) % PtrMod = ((t.rd + u) + 1) % PtrMod
    BY <1>1, ModAdd, Zenon
  <2>2. t.wr = (t.rd + u) % PtrMod
    BY DEF TxRing
  <2> QED BY <1>0, <1>1, <2>1, <2>2, Zenon DEF PtrPlus
<1>4. v + t2.add <= u + 1 /\ (u + 1) - t2.add = u - t.add
  BY <1>0, <1>1
<1> QED BY <1>0, <1>2, <1>3, <1>4 DEF TxRing

(* ... the device is told of what was added, and sends one.                *)
Flushed(t, d, t2, d2) ==
  /\ t2.wr = t.wr /\ t2.rd = t.rd /\ t2.qcp = t.qcp /\ t2.add = 0
  /\ d2.tx_rd = d.tx_rd /\ d2.tx_wr = TxIdx(d.tx_wr + t.add)

LEMMA RingFlushed ==
  ASSUME NEW t \in TxType, NEW d, NEW u \in Int, NEW v \in Int, TxRing(t, d, u, v), NEW t2, NEW d2,
         Flushed(t, d, t2, d2)
  PROVE  TxRing(t2, d2, u, v) /\ \A k : At(t2, k) = At(t, k)
<1>0. /\ t2.wr = t.wr /\ t2.rd = t.rd /\ t2.qcp = t.qcp /\ t2.add = 0
      /\ d2.tx_rd = d.tx_rd /\ d2.tx_wr = TxIdx(d.tx_wr + t.add)
  BY DEF Flushed
<1>1. t.add \in Nat /\ t.add \in Int /\ v + t.add <= u /\ u - t.add \in Int
      /\ (u - t.add) + t.add = u /\ u - 0 = u /\ v + 0 <= u
  BY TxTypes DEF TxRing
<1>2. \A k : At(t2, k) = At(t, k)
  BY <1>0 DEF At
<1>3. d2.tx_wr = At(t, u)
  <2>1. TxIdx(At(t, u - t.add) + t.add) = At(t, (u - t.add) + t.add)
    BY <1>1, AtFurther
  <2> QED BY <1>0, <1>1, <2>1 DEF TxRing
<1> QED BY <1>0, <1>1, <1>2, <1>3 DEF TxRing

LEMMA RingSent ==
  ASSUME NEW t \in TxType, NEW d, NEW u \in 0 .. TxCnt - 1, NEW v \in 0 .. TxCnt - 1, TxRing(t, d, u, v),
         d.tx_rd # d.tx_wr, NEW d2, d2.tx_rd = TxIdx(d.tx_rd + 1), d2.tx_wr = d.tx_wr
  PROVE  TxRing(t, d2, u, v + 1) /\ v + 1 \in 0 .. TxCnt - 1 /\ v < u
<1>1. t.add \in Nat /\ v + t.add <= u /\ u \in Int /\ v \in Int /\ 1 \in Int
  BY TxTypes, Sizes DEF TxRing
<1>2. v # u - t.add
  BY DEF TxRing
<1>3. v + 1 + t.add <= u /\ v < u /\ v + 1 \in 0 .. TxCnt - 1
  BY <1>1, <1>2, Sizes
<1>4. d2.tx_rd = At(t, v + 1)
  <2>1. TxIdx(At(t, v) + 1) = At(t, v + 1)
    BY <1>1, AtFurther
  <2> QED BY <2>1 DEF TxRing
<1> QED BY <1>3, <1>4 DEF TxRing

(* What the device has not sent yet.                                       *)
LEMMA InRingIs ==
  ASSUME TypeOK, NEW u \in 0 .. TxCnt - 1, NEW v \in 0 .. TxCnt - 1, TxRing(tx, dev, u, v)
  PROVE  /\ u - v \in Nat
         /\ InRing = [k \in 1 .. u - v |-> tx.bufs[At(tx, v + k - 1)]]
<1>1. tx \in TxType
  BY DEF TypeOK, TxType
<1>2. tx.add \in Nat /\ v + tx.add <= u /\ u \in Int /\ v \in Int /\ u - v \in 0 .. TxCnt - 1
  BY <1>1, TxTypes, Sizes DEF TxRing
<1>3. TxMinus(TxIdx(tx.wr), dev.tx_rd) = u - v
  <2>1. TxIdx(tx.wr) = At(tx, u)
    BY <1>1, <1>2, FullIs
  <2>2. TxMinus(At(tx, u), At(tx, v)) = u - v
    BY <1>1, <1>2, AtDistance
  <2> QED BY <2>1, <2>2 DEF TxRing
<1>4. ASSUME NEW k \in 1 .. u - v PROVE TxIdx(dev.tx_rd + k - 1) = At(tx, v + k - 1)
  <2>1. k - 1 \in Int /\ v + (k - 1) = v + k - 1 /\ At(tx, v) + (k - 1) = At(tx, v) + k - 1
    BY <1>1, <1>2, AtIs
  <2>2. TxIdx(At(tx, v) + (k - 1)) = At(tx, v + (k - 1))
    BY <1>1, <1>2, <2>1, AtFurther
  <2>3. dev.tx_rd = At(tx, v)
    BY DEF TxRing
  <2> QED BY <2>1, <2>2, <2>3
<1>5. InRing = [k \in 1 .. u - v |-> tx.bufs[At(tx, v + k - 1)]]
  BY <1>3, <1>4 DEF InRing
<1> QED BY <1>2, <1>5

----------------------------------------------------------------------------
Cat(s, t) == s \o t

LEMMA CatIs ==
  ASSUME NEW s \in Seq(Nat), NEW t \in Seq(Nat)
  PROVE  /\ Cat(s, t) \in Seq(Nat) /\ Len(s) \in Nat /\ Len(t) \in Nat
         /\ Len(Cat(s, t)) = Len(s) + Len(t)
         /\ \A k \in 1 .. Len(s) : Cat(s, t)[k] = s[k]
         /\ \A k \in 1 .. Len(t) : Cat(s, t)[Len(s) + k] = t[k]
<1>1. Len(s) \in Nat /\ Len(t) \in Nat
  OBVIOUS
<1>2. s \o t \in Seq(Nat) /\ Len(s \o t) = Len(s) + Len(t)
  OBVIOUS
<1>3. \A k \in 1 .. Len(s) : (s \o t)[k] = s[k]
  BY <1>1
<1>4. \A k \in 1 .. Len(t) : (s \o t)[Len(s) + k] = t[k]
  BY <1>1
<1> QED BY <1>1, <1>2, <1>3, <1>4 DEF Cat

(* What the invariant says of what is on its way.                          *)
LEMMA SendingMeans ==
  ASSUME TypeOK, Sending
  PROVE  FramesIntact /\ MessagesInOrder
<1>1. PICK u \in 0 .. TxCnt - 1, v \in 0 .. TxCnt - 1 :
         TxRing(tx, dev, u, v) /\ Transit(u, v)
  BY DEF Sending
<1>2. /\ u - v \in Nat /\ u \in Int /\ v \in Int
      /\ InRing = [k \in 1 .. u - v |-> tx.bufs[At(tx, v + k - 1)]]
  BY <1>1, InRingIs, Sizes
<1>3. tx \in TxType /\ out \in Seq(Nat) /\ queue \in Seq(Nat) /\ sent \in Nat /\ handed \in Nat
  BY DEF TypeOK, TxType
<1>4. \A k \in 1 .. u - v : /\ v + k - 1 \in v .. u - 1 /\ (v + k - 1) - v + 1 = k
                           /\ InRing[k] = tx.bufs[At(tx, v + k - 1)] /\ v + k - 1 \in Int
  BY <1>2
<1>5. ASSUME kind = "net" PROVE [k \in DOMAIN InRing |-> content[InRing[k]]] = out
  <2>1. Frames(tx, u, v, content, out)
    BY <1>1, <1>5 DEF Transit
  <2>2. ASSUME NEW k \in 1 .. u - v PROVE content[InRing[k]] = out[k]
    <3>1. content[tx.bufs[At(tx, v + k - 1)]] = out[(v + k - 1) - v + 1]
      BY <1>4, <2>1 DEF Frames
    <3> QED BY <1>4, <3>1
  <2>3. out = [k \in 1 .. u - v |-> out[k]]
    BY <1>3, <2>1 DEF Frames
  <2>4. DOMAIN InRing = 1 .. u - v
    BY <1>2
  <2> HIDE DEF InRing
  <2> QED BY <2>2, <2>3, <2>4
<1>6. ASSUME kind = "ctrl" PROVE MessagesInOrder
  <2> DEFINE n == u - v
             all == <<sent>> \o InRing \o queue
  <2>1. Messages(tx, u, v, queue, 0, sent, handed)
    BY <1>1, <1>6 DEF Transit
  <2>2. InRing \in Seq(Nat) /\ Len(InRing) = n /\ n \in Nat
    <3>1. \A k \in 1 .. n : InRing[k] \in Nat
      BY ZenonT(60), <1>3, <1>4, AtIs, TxTypes
    <3>2. InRing = [k \in 1 .. n |-> InRing[k]] /\ n \in Nat
      BY <1>2
    <3> HIDE DEF InRing, n
    <3> QED BY <3>1, <3>2
  <2>3. /\ \A k \in 1 .. n : sent < InRing[k]
        /\ \A k \in 1 .. n, j \in 1 .. Len(queue) : InRing[k] < queue[j]
        /\ \A j, k \in 1 .. n : j < k => InRing[j] < InRing[k]
    <3>1. \A k \in 1 .. n : sent < InRing[k]
      BY <1>4, <2>1 DEF Messages
    <3>2. \A k \in 1 .. n : \A j \in 0 + 1 .. Len(queue) : InRing[k] < queue[j]
      BY <1>4, <2>1 DEF Messages
    <3>3. ASSUME NEW j \in 1 .. n, NEW k \in 1 .. n, j < k PROVE InRing[j] < InRing[k]
      <4>1. v + j - 1 < v + k - 1
        BY <1>2, <3>3
      <4> QED BY <1>4, <2>1, <4>1 DEF Messages
    <3> QED BY <3>1, <3>2, <3>3
  <2>4. /\ \A k \in 1 .. Len(queue) : sent < queue[k]
        /\ \A j, k \in 1 .. Len(queue) : j < k => queue[j] < queue[k]
    BY <2>1 DEF Messages
  <2> DEFINE r == InRing
  <2> HIDE DEF n, r
  <2>5. r \in Seq(Nat) /\ Len(r) = n /\ n \in Nat
    BY <2>2 DEF r
  <2>6. /\ Len(<<sent>> \o r) = 1 + n /\ (<<sent>> \o r) \in Seq(Nat)
        /\ (<<sent>> \o r)[1] = sent
        /\ \A k \in 1 .. n : (<<sent>> \o r)[1 + k] = r[k]
    BY <1>3, <2>5
  <2> DEFINE p == <<sent>> \o r
  <2> HIDE DEF p
  <2>7. /\ Len(p) = 1 + n /\ p \in Seq(Nat) /\ p[1] = sent
        /\ \A k \in 1 .. n : p[1 + k] = r[k]
    BY <2>6 DEF p
  <2>8. /\ Len(Cat(p, queue)) = 1 + n + Len(queue) /\ Cat(p, queue) \in Seq(Nat)
        /\ Len(queue) \in Nat
        /\ \A k \in 1 .. 1 + n : Cat(p, queue)[k] = p[k]
        /\ \A k \in 1 .. Len(queue) : Cat(p, queue)[1 + n + k] = queue[k]
    <3>1. /\ Cat(p, queue) \in Seq(Nat) /\ Len(queue) \in Nat
          /\ Len(Cat(p, queue)) = Len(p) + Len(queue)
          /\ \A k \in 1 .. Len(p) : Cat(p, queue)[k] = p[k]
          /\ \A k \in 1 .. Len(queue) : Cat(p, queue)[Len(p) + k] = queue[k]
      BY <1>3, <2>7, CatIs
    <3> QED BY <2>7, <3>1, Zenon
  <2>9. all = Cat(p, queue)
    BY DEF p, r, Cat
  <2> HIDE DEF all
  <2> DEFINE m == Len(queue)
             qu == queue
  <2>10. /\ DOMAIN all = 1 .. 1 + n + m /\ m \in Nat
         /\ all[1] = sent
         /\ \A k \in 1 .. n : all[1 + k] = r[k]
         /\ \A k \in 1 .. m : all[1 + n + k] = qu[k]
    <3>1. DOMAIN all = 1 .. 1 + n + Len(queue)
      BY <2>8, <2>9
    <3>2. 1 \in 1 .. 1 + n /\ \A k \in 1 .. n : 1 + k \in 1 .. 1 + n
      BY <2>5
    <3>3. \A k \in 1 .. 1 + n : all[k] = p[k]
      BY <2>8, <2>9
    <3>4. all[1] = sent /\ \A k \in 1 .. n : all[1 + k] = r[k]
      BY <2>7, <3>2, <3>3
    <3> QED BY <2>8, <2>9, <3>1, <3>4
  <2>11. /\ \A k \in 1 .. n : sent < r[k]
         /\ \A k \in 1 .. n, j \in 1 .. m : r[k] < qu[j]
         /\ \A j, k \in 1 .. n : j < k => r[j] < r[k]
         /\ \A k \in 1 .. m : sent < qu[k]
         /\ \A j, k \in 1 .. m : j < k => qu[j] < qu[k]
    BY <2>3, <2>4 DEF r
  <2> HIDE DEF m, qu
  <2>12. ASSUME NEW j \in DOMAIN all, NEW k \in DOMAIN all, j < k PROVE all[j] < all[k]
    <3>1. /\ j \in Int /\ k \in Int
          /\ j = 1 \/ j - 1 \in 1 .. n \/ j - 1 - n \in 1 .. m
          /\ k - 1 \in 1 .. n \/ k - 1 - n \in 1 .. m
          /\ j = 1 + (j - 1) /\ k = 1 + (k - 1)
          /\ j = 1 + n + (j - 1 - n) /\ k = 1 + n + (k - 1 - n)
      <4>1. n \in Nat /\ m \in Nat /\ j \in 1 .. 1 + n + m /\ k \in 1 .. 1 + n + m /\ j < k
        BY <2>5, <2>10, <2>12
      <4> HIDE DEF all
      <4> QED BY <4>1
    <3>2. CASE j = 1
      BY <2>11, <2>10, <2>11, <3>1, <3>2
    <3>3. CASE j - 1 \in 1 .. n
      <4>1. all[j] = r[j - 1]
        BY <2>10, <3>1, <3>3
      <4>2. CASE k - 1 \in 1 .. n
        <5>1. j - 1 < k - 1 /\ all[k] = r[k - 1]
          BY <2>10, <2>12, <3>1, <4>2
        <5> QED BY <2>11, <3>3, <4>1, <4>2, <5>1
      <4>3. CASE k - 1 - n \in 1 .. m
        BY <2>10, <2>11, <3>1, <3>3, <4>1, <4>3
      <4> QED BY <3>1, <4>2, <4>3
    <3>4. CASE j - 1 - n \in 1 .. m
      <4>1. k - 1 - n \in 1 .. m /\ j - 1 - n < k - 1 - n
        <5>1. n \in Nat /\ m \in Nat /\ k \in 1 .. 1 + n + m /\ j < k
          BY <2>5, <2>10, <2>12
        <5> QED BY <3>1, <3>4, <5>1
      <4>2. all[j] = qu[j - 1 - n] /\ all[k] = qu[k - 1 - n]
        BY <2>10, <3>1, <3>4, <4>1
      <4> QED BY <2>11, <3>4, <4>1, <4>2
    <3> QED BY <3>1, <3>2, <3>3, <3>4
  <2>13. \A j, k \in DOMAIN all : j < k => all[j] < all[k]
    BY <2>12
  <2> QED BY <2>13 DEF all, MessagesInOrder
<1> QED BY <1>5, <1>6 DEF FramesIntact, MessagesInOrder

----------------------------------------------------------------------------
(* Numbers.                                                                *)
LEMMA LeastNat ==
  ASSUME NEW T \in SUBSET Nat, T # {}
  PROVE  \E x \in T : \A y \in T : x <= y
<1>1. IsWellFoundedOn(OpToRel(<, Nat), Nat)
  BY NatLessThanWellFounded
<1>2. PICK x \in T : \A y \in T : ~(<<y, x>> \in OpToRel(<, Nat))
  BY <1>1, WFMin
<1>3. \A y \in T : ~(y < x)
  BY <1>2 DEF OpToRel
<1> QED BY <1>3

(* What holds of 0 and, with i - 1, of i, holds up to n.                   *)
LEMMA UpTo ==
  ASSUME NEW n \in Nat, NEW T \in SUBSET (0 .. n), 0 \in T,
         \A i \in 1 .. n : i - 1 \in T => i \in T
  PROVE  n \in T
<1> DEFINE Bad == (0 .. n) \ T
<1>1. SUFFICES ASSUME Bad # {} PROVE FALSE
  OBVIOUS
<1>2. Bad \in SUBSET Nat
  OBVIOUS
<1>3. PICK k \in Bad : \A j \in Bad : k <= j
  BY <1>1, <1>2, LeastNat
<1>4. k \in 1 .. n /\ k - 1 \in 0 .. n /\ ~(k <= k - 1)
  BY <1>3
<1>5. k - 1 \in T
  BY <1>3, <1>4
<1> QED BY <1>3, <1>4, <1>5

(* The allocator: the n-th buffer that is left.                            *)
Below(T, b) == {c \in T : c < b}

LEMMA NthExists ==
  ASSUME NEW T \in SUBSET Nat, IsFiniteSet(T), NEW n \in Nat, n < Cardinality(T)
  PROVE  \E b \in T : Cardinality(Below(T, b)) = n
<1> DEFINE Found == {i \in 0 .. n : \E b \in T : Cardinality(Below(T, b)) = i}
<1>1. Cardinality(T) \in Nat
  BY FS_CardinalityType
<1>2. 0 \in Found
  <2>1. T # {}
    BY FS_EmptySet
  <2>2. PICK x \in T : \A y \in T : x <= y
    BY <2>1, LeastNat
  <2>3. Below(T, x) = {}
    <3>1. \A c \in T : ~(c < x)
      BY <2>2
    <3> QED BY <3>1 DEF Below
  <2>4. Cardinality(Below(T, x)) = 0
    BY <2>3, FS_EmptySet
  <2> QED BY <2>4
<1>3. ASSUME NEW i \in 1 .. n, i - 1 \in Found PROVE i \in Found
  <2>1. PICK b \in T : Cardinality(Below(T, b)) = i - 1
    BY <1>3
  <2> DEFINE D == Below(T, b) \cup {b}
  <2>2. D \subseteq T /\ b \notin Below(T, b) /\ Below(T, b) \subseteq T
    BY DEF Below
  <2>3. IsFiniteSet(Below(T, b))
    BY <2>2, FS_Subset
  <2>4. Cardinality(D) = i
    <3>1. Cardinality(D) = Cardinality(Below(T, b)) + 1
      BY <2>2, <2>3, FS_AddElement
    <3> QED BY <2>1, <3>1
  <2>5. T \ D # {}
    <3>1. D # T
      BY <1>1, <2>4
    <3> QED BY <2>2, <3>1
  <2>6. PICK x \in T \ D : \A y \in T \ D : x <= y
    <3>1. T \ D \in SUBSET Nat
      OBVIOUS
    <3> QED BY <2>5, <3>1, LeastNat
  <2>7. \A c \in T : c \in D <=> c <= b
    BY DEF Below
  <2>8. b < x
    BY <2>6, <2>7
  <2>9. \A c \in T : c < x <=> c \in D
    BY <2>6, <2>7, <2>8
  <2>10. Below(T, x) = D
    BY <2>2, <2>9 DEF Below
  <2> QED BY <2>4, <2>6, <2>10
<1>4. n \in Found
  <2>1. Found \in SUBSET (0 .. n)
    OBVIOUS
  <2> HIDE DEF Found
  <2> QED BY <1>2, <1>3, <2>1, UpTo
<1> QED BY <1>4

LEMMA FreshIs ==
  ASSUME NEW n \in Nat, n >= 1, CanAlloc(n)
  PROVE  \A m \in 1 .. n : /\ Fresh(m) \in Bufs \ alloc
                           /\ Cardinality(Below(Bufs \ alloc, Fresh(m))) = m - 1
<1> DEFINE T == Bufs \ alloc
<1>1. T \in SUBSET Nat /\ IsFiniteSet(T)
  <2>1. IsFiniteSet(Bufs) /\ T \subseteq Bufs
    BY VectorAssumption
  <2> QED BY <2>1, FS_Subset, Sizes
<1>2. Cardinality(T) >= n /\ Cardinality(T) \in Nat
  BY <1>1, FS_CardinalityType DEF CanAlloc
<1> SUFFICES ASSUME NEW m \in 1 .. n
             PROVE  Fresh(m) \in T /\ Cardinality(Below(T, Fresh(m))) = m - 1
  OBVIOUS
<1>3. m - 1 \in Nat /\ m - 1 < Cardinality(T)
  BY <1>2
<1>4. \E b \in T : Cardinality(Below(T, b)) = m - 1
  BY <1>1, <1>3, NthExists
<1>5. \E b \in T : Cardinality({c \in T : c < b}) = m - 1
  BY <1>4 DEF Below
<1>6. Fresh(m) = CHOOSE b \in T : Cardinality({c \in T : c < b}) = m - 1
  BY DEF Fresh
<1>7. Fresh(m) \in T /\ Cardinality({c \in T : c < Fresh(m)}) = m - 1
  BY <1>5, <1>6, Zenon
<1> QED BY <1>7 DEF Below

LEMMA FreshApart ==
  ASSUME NEW n \in Nat, n >= 1, CanAlloc(n), NEW i \in 1 .. n, NEW j \in 1 .. n, Fresh(i) = Fresh(j)
  PROVE  i = j
<1>1. /\ Cardinality(Below(Bufs \ alloc, Fresh(i))) = i - 1
      /\ Cardinality(Below(Bufs \ alloc, Fresh(j))) = j - 1
  BY FreshIs
<1>2. i - 1 = j - 1
  BY <1>1
<1> QED BY <1>2

----------------------------------------------------------------------------
(* What a step leaves alone.                                               *)
LEMMA SlotsSame ==
  ASSUME (on' = "empty") <=> (on = "empty"), rx'.wr = rx.wr, rx'.rd = rx.rd
  PROVE  RxSlots' = RxSlots
BY DEF RxSlots, NeverFed

LEMMA OnceSame ==
  ASSUME TypeOK, OnceNow, (on' = "empty") <=> (on = "empty"), kind' = kind, rx'.wr = rx.wr, rx'.rd = rx.rd, rx'.bufs = rx.bufs,
         stack' = stack, alloc' = alloc, kind = "net" => tx'.bufs = tx.bufs
  PROVE  OnceNow'
<1>1. RxSlots' = RxSlots
  BY SlotsSame
<1>2. TxSlots' = TxSlots
  BY DEF TxSlots
<1>3. \A s \in TxSlots : tx'.bufs[s] = tx.bufs[s]
  <2>1. kind = "ctrl" => TxSlots = {}
    BY DEF TxSlots
  <2>2. kind \in {"net", "ctrl"}
    BY DEF TypeOK
  <2> QED BY <2>1, <2>2
<1> QED BY <1>1, <1>2, <1>3 DEF OnceNow, Once

LEMMA ReceivingSame ==
  ASSUME TypeOK, Receiving, Enabled' <=> Enabled, rx' = rx, dev'.fl_rd = dev.fl_rd, dev'.fl_wr = dev.fl_wr,
         written' = written, rcvd' = rcvd, last' = last,
         \A k \in 0 .. Cnt - 2 : content'[rx.bufs[RxSlot(k)]] = content[rx.bufs[RxSlot(k)]]
  PROVE  Receiving'
<1>1. Filling' = Filling /\ Known' = Known
  BY DEF Filling, Known
<1>2. ASSUME RxRing PROVE RxRing'
  <2>1. \A k \in 0 .. Filling - 1 : k \in 0 .. Cnt - 2
    <3>1. Filling \in 0 .. Known /\ Known \in 0 .. Cnt - 1 /\ Cnt \in Nat
      BY <1>2, KnownIs, Sizes DEF RxRing
    <3> QED BY <3>1
  <2>2. \A k \in 0 .. Filling - 1 : content'[rx'.bufs[RxSlot(k)]] = rcvd' + k + 1
    BY <1>2, <2>1 DEF RxRing
  <2>3. \A k : RxSlot(k)' = RxSlot(k)
    BY DEF RxSlot
  <2> QED BY <1>1, <1>2, <2>2, <2>3 DEF RxRing, RxSlot
<1>3. RxEmpty => RxEmpty'
  BY DEF RxEmpty
<1> QED BY <1>1, <1>2, <1>3 DEF Receiving

(* The frames in the ring when entries are completed.                      *)
LEMMA FramesShift ==
  ASSUME NEW t \in TxType, NEW u \in Int, NEW v \in Int, NEW c, NEW o, Frames(t, u, v, c, o),
         NEW n \in Int, NEW t2, t2.bufs = t.bufs, \A k \in Int : At(t2, k) = At(t, n + k), NEW c2,
         \A s \in 0 .. TxCnt - 1 : c2[t.bufs[s]] = c[t.bufs[s]]
  PROVE  Frames(t2, u - n, v - n, c2, o)
<1>1. Len(o) = (u - n) - (v - n)
  BY DEF Frames
<1>2. ASSUME NEW k \in (v - n) .. (u - n) - 1
      PROVE  c2[t2.bufs[At(t2, k)]] = o[k - (v - n) + 1]
  <2>1. k \in Int /\ n + k \in v .. u - 1 /\ n + k \in Int /\ (n + k) - v + 1 = k - (v - n) + 1
    OBVIOUS
  <2>2. At(t2, k) = At(t, n + k) /\ At(t, n + k) \in 0 .. TxCnt - 1
    BY <2>1, AtIs
  <2>3. c[t.bufs[At(t, n + k)]] = o[(n + k) - v + 1]
    BY <2>1 DEF Frames
  <2>4. c2[t2.bufs[At(t2, k)]] = c[t.bufs[At(t, n + k)]]
    BY <2>2
  <2> QED BY <2>1, <2>3, <2>4
<1> QED BY <1>1, <1>2 DEF Frames

LEMMA SendingSame ==
  ASSUME TypeOK, Sending, tx' = tx, dev'.tx_rd = dev.tx_rd, dev'.tx_wr = dev.tx_wr,
         kind' = kind, queue' = queue, sent' = sent, handed' = handed, out' = out,
         ~Enabled' => ~Enabled,
         kind = "net" => \A s \in 0 .. TxCnt - 1 : content'[tx.bufs[s]] = content[tx.bufs[s]]
  PROVE  Sending'
<1>1. PICK u \in 0 .. TxCnt - 1, v \in 0 .. TxCnt - 1 :
         TxRing(tx, dev, u, v) /\ Transit(u, v)
  BY DEF Sending
<1>2. TxRing(tx', dev', u, v)
  BY <1>1 DEF TxRing, At
<1>3. tx \in TxType /\ u \in Int /\ v \in Int
  <2>1. u \in Int /\ v \in Int
    BY Sizes
  <2> QED BY <2>1 DEF TypeOK, TxType
<1>4. ASSUME kind = "net" PROVE Frames(tx', u, v, content', out')
  <2>1. Frames(tx, u, v, content, out) /\ u - 0 = u /\ v - 0 = v /\ 0 \in Int
    BY <1>1, <1>3, <1>4 DEF Transit
  <2>2. \A k \in Int : At(tx', k) = At(tx, 0 + k)
    OBVIOUS
  <2>3. Frames(tx', u - 0, v - 0, content', out)
    BY <1>3, <1>4, <2>1, <2>2, FramesShift
  <2> QED BY <2>1, <2>3
<1>5. ASSUME kind # "net"
      PROVE  /\ Messages(tx', u, v, queue', 0, sent', handed')
             /\ tx'.add = 0 /\ (queue' # <<>> => u = TxCnt - 1)
  BY <1>1, <1>5 DEF Transit
<1>6. Transit(u, v)'
  BY <1>4, <1>5 DEF Transit
<1> QED BY <1>2, <1>6 DEF Sending

(* One buffer of the receive ring gets another content.                    *)
LEMMA ContentKept ==
  ASSUME TypeOK, OnceNow, RxRing, on # "empty", NEW k \in 0 .. Cnt - 2, NEW x,
         content' = [content EXCEPT ![rx.bufs[RxSlot(k)]] = x]
  PROVE  /\ kind = "net" => \A s \in 0 .. TxCnt - 1 : content'[tx.bufs[s]] = content[tx.bufs[s]]
         /\ \A j \in 0 .. Cnt - 2 : j # k => content'[rx.bufs[RxSlot(j)]] = content[rx.bufs[RxSlot(j)]]
         /\ content'[rx.bufs[RxSlot(k)]] = x
<1> DEFINE b == rx.bufs[RxSlot(k)]
<1>1. content \in [Bufs -> Nat] /\ alloc \subseteq Bufs
  BY DEF TypeOK
<1>2. b \in Bufs
  BY RxBuffers
<1>3. \A a \in Bufs : a # b => content'[a] = content[a]
  BY <1>1
<1>4. ASSUME kind = "net", NEW s \in 0 .. TxCnt - 1 PROVE content'[tx.bufs[s]] = content[tx.bufs[s]]
  <2>1. s \in TxSlots
    BY <1>4 DEF TxSlots
  <2>2. tx.bufs[s] \in alloc
    BY <2>1 DEF OnceNow, Once
  <2>3. tx.bufs[s] # b
    BY <2>1, RxBuffers
  <2> QED BY <1>1, <1>3, <2>2, <2>3
<1>5. ASSUME NEW j \in 0 .. Cnt - 2, j # k
      PROVE  content'[rx.bufs[RxSlot(j)]] = content[rx.bufs[RxSlot(j)]]
  <2>1. rx.bufs[RxSlot(j)] \in Bufs /\ rx.bufs[RxSlot(j)] # b
    BY <1>5, RxBuffers
  <2> QED BY <1>3, <2>1
<1>6. content'[b] = x
  BY <1>1, <1>2
<1> QED BY <1>4, <1>5, <1>6

LEMMA TellsOnly ==
  ASSUME TypeOK, dev' = TellDevice(dev)
  PROVE  /\ dev' \in [fl_wr : 0 .. Cnt - 1, fl_rd : 0 .. Cnt - 1,
                      tx_wr : 0 .. TxCnt - 1, tx_rd : 0 .. TxCnt - 1]
         /\ dev'.fl_rd = dev.fl_rd /\ dev'.tx_rd = dev.tx_rd /\ dev'.tx_wr = dev.tx_wr
         /\ dev'.fl_wr = TellDevice(dev).fl_wr
<1>1. dev \in [fl_wr : 0 .. Cnt - 1, fl_rd : 0 .. Cnt - 1,
               tx_wr : 0 .. TxCnt - 1, tx_rd : 0 .. TxCnt - 1]
  BY DEF TypeOK
<1>2. RxIdx(dev.fl_wr + FlBatch) \in 0 .. Cnt - 1
  <2>1. dev.fl_wr + FlBatch \in Int /\ Cnt \in Nat \ {0}
    BY <1>1, Sizes
  <2> QED BY <2>1, Euclid DEF RxIdx
<1> DEFINE w == IF PtrPlus(rx.wr, 1) % FlBatch = 0 THEN RxIdx(dev.fl_wr + FlBatch) ELSE dev.fl_wr
<1>3. w \in 0 .. Cnt - 1
  BY <1>1, <1>2
<1>4. dev' = [dev EXCEPT !.fl_wr = w]
  BY DEF TellDevice
<1> HIDE DEF w
<1> QED BY <1>1, <1>3, <1>4

LEMMA Stepped ==
  ASSUME TypeOK, RxRing, rx'.rd = PtrPlus(rx.rd, 1), rx'.wr = PtrPlus(rx.wr, 1)
  PROVE  rx'.wr = (rx'.rd + (Cnt - 1)) % PtrMod
<1>1. /\ PtrMod \in Nat \ {0} /\ rx.rd \in Int /\ Cnt - 1 \in Int /\ 1 \in Int
      /\ rx.rd + (Cnt - 1) \in Int /\ rx.rd + 1 \in Int
      /\ (rx.rd + (Cnt - 1)) + 1 = (rx.rd + 1) + (Cnt - 1)
  BY RxTypes, Sizes
<1>2. (((rx.rd + (Cnt - 1)) % PtrMod) + 1) % PtrMod = ((rx.rd + (Cnt - 1)) + 1) % PtrMod
  BY <1>1, ModAdd, Zenon
<1>3. (((rx.rd + 1) % PtrMod) + (Cnt - 1)) % PtrMod = ((rx.rd + 1) + (Cnt - 1)) % PtrMod
  BY <1>1, ModAdd, Zenon
<1>4. rx.wr = (rx.rd + (Cnt - 1)) % PtrMod
  BY DEF RxRing
<1>5. PtrPlus(rx.wr, 1) = (PtrPlus(rx.rd, 1) + (Cnt - 1)) % PtrMod
  BY <1>1, <1>2, <1>3, <1>4, Zenon DEF PtrPlus
<1> QED BY <1>5

(* Where the buffers of the ring are when a frame was taken.               *)
LEMMA SlotsMove ==
  ASSUME TypeOK, TypeOK', RxRing, on # "empty", on' = on,
         rx'.rd = PtrPlus(rx.rd, 1), rx'.wr = PtrPlus(rx.wr, 1)
  PROVE  /\ RxSlots' = (RxSlots \ {RxSlot(0)}) \cup {RxSlot(Cnt - 1)}
         /\ RxSlot(0) \in RxSlots /\ RxSlot(Cnt - 1) \notin RxSlots
         /\ RxSlots \subseteq 0 .. Cnt - 1 /\ RxSlot(Cnt - 1) \in 0 .. Cnt - 1
<1>1. rx'.wr \in 0 .. PtrMod - 1 /\ rx'.rd \in 0 .. PtrMod - 1
  BY DEF TypeOK
<1>2. rx'.wr = (rx'.rd + (Cnt - 1)) % PtrMod
  BY Stepped
<1>3. /\ ~(rx'.wr = 0 /\ rx'.rd = 0)
      /\ {RxIdx(rx'.rd + k) : k \in 0 .. PtrMinus(rx'.wr, rx'.rd) - 1}
           = {Entry(Cnt, rx'.rd, k) : k \in 0 .. Cnt - 2}
  BY <1>1, <1>2, FedIs
<1>4. RxSlots' = {Entry(Cnt, rx'.rd, k) : k \in 0 .. Cnt - 2}
  BY <1>3 DEF RxSlots, NeverFed
<1>5. \A k \in 0 .. Cnt - 2 : k \in Int
  BY Sizes
<1>6. RxSlots \subseteq 0 .. Cnt - 1
  BY <1>5, RxFed, RxSlotIs
<1>7. Cnt - 1 \in Int
  BY Sizes
<1> QED BY <1>4, <1>6, <1>7, RxShift, RxSlotIs

----------------------------------------------------------------------------
(* A frame is dropped or goes to the stack.                                *)
LEMMA TakeOne ==
  ASSUME VInv, Enabled, Ready, Reuse \/ Pass, Counts, kind' = kind, on' = on,
         tx' \in TxType, tx'.bufs = tx.bufs, out' = out,
         queue' = queue, sent' = sent, handed' = handed
  PROVE  /\ TypeOK' /\ OnceNow' /\ Receiving'
         /\ dev'.tx_rd = dev.tx_rd /\ dev'.tx_wr = dev.tx_wr
         /\ kind = "net" => \A s \in 0 .. TxCnt - 1 : content'[tx.bufs[s]] = content[tx.bufs[s]]
<1>1. /\ TypeOK /\ OnceNow /\ Receiving /\ RxRing /\ on # "empty"
  BY DEF VInv, Receiving, Enabled
<1>2. /\ dev' = TellDevice(dev) /\ content' = [content EXCEPT ![rx.bufs[RxSlot(0)]] = 0]
      /\ 0 \in 0 .. Cnt - 2
  <2>1. RxBuf = rx.bufs[RxSlot(0)]
    BY <1>1, RxBuffers
  <2>2. 0 \in 0 .. Cnt - 2
    BY Sizes
  <2> QED BY <2>1, <2>2 DEF Reuse, Pass
<1>3. /\ kind = "net" => \A s \in 0 .. TxCnt - 1 : content'[tx.bufs[s]] = content[tx.bufs[s]]
      /\ \A j \in 0 .. Cnt - 2 : j # 0 => content'[rx.bufs[RxSlot(j)]] = content[rx.bufs[RxSlot(j)]]
  BY <1>1, <1>2, ContentKept
<1>4. /\ dev' \in [fl_wr : 0 .. Cnt - 1, fl_rd : 0 .. Cnt - 1,
                   tx_wr : 0 .. TxCnt - 1, tx_rd : 0 .. TxCnt - 1]
      /\ dev'.fl_rd = dev.fl_rd /\ dev'.tx_rd = dev.tx_rd /\ dev'.tx_wr = dev.tx_wr
      /\ dev'.fl_wr = TellDevice(dev).fl_wr
  BY <1>1, <1>2, TellsOnly
<1>5. RxBuf \in Bufs /\ RxBuf = rx.bufs[RxSlot(0)]
  BY <1>1, RxBuffers
<1>6. /\ rx' = Given(Taken, RxBuf) /\ alloc' = alloc /\ stack' = stack
      \/ /\ rx' = Given(Taken, Fresh(1)) /\ alloc' = alloc \cup {Fresh(1)}
         /\ stack' = stack \cup {RxBuf} /\ Fresh(1) \in Bufs \ alloc
  <2>1. CASE Reuse
    BY <2>1 DEF Reuse
  <2>2. CASE Pass
    <3>1. CanAlloc(1) /\ 1 \in Nat /\ 1 >= 1 /\ 1 \in 1 .. 1
      BY <2>2 DEF Pass
    <3>2. Fresh(1) \in Bufs \ alloc
      BY <3>1, FreshIs
    <3> QED BY <2>2, <3>2 DEF Pass
  <2> QED BY <2>1, <2>2
<1>7. PICK frag \in Bufs :
        /\ rx' = Given(Taken, frag)
        /\ \/ frag = RxBuf /\ alloc' = alloc /\ stack' = stack
           \/ /\ frag \notin alloc /\ alloc' = alloc \cup {frag}
              /\ stack' = stack \cup {RxBuf}
  <2>1. CASE rx' = Given(Taken, RxBuf) /\ alloc' = alloc /\ stack' = stack
    BY <1>5, <2>1
  <2>2. CASE /\ rx' = Given(Taken, Fresh(1)) /\ alloc' = alloc \cup {Fresh(1)}
             /\ stack' = stack \cup {RxBuf} /\ Fresh(1) \in Bufs \ alloc
    BY <2>2
  <2> QED BY <1>6, <2>1, <2>2
<1>8. /\ rx'.wr = PtrPlus(rx.wr, 1) /\ rx'.rd = PtrPlus(rx.rd, 1)
      /\ rx'.bufs = [rx.bufs EXCEPT ![RxSlot(Cnt - 1)] = frag]
      /\ rx' \in [wr : 0 .. PtrMod - 1, rd : 0 .. PtrMod - 1,
                  bufs : [0 .. Cnt - 1 -> Bufs \cup {NoBuf}],
                  ds : [0 .. Cnt - 1 -> [dd : BOOLEAN, buf : Bufs \cup {NoBuf}]]]
  BY <1>1, <1>7, GivenIs
<1>9. TypeOK'
  <2>1. content \in [Bufs -> Nat] /\ alloc \subseteq Bufs /\ kind \in {"net", "ctrl"}
        /\ on \in {"up", "closing", "reset", "empty"}
        /\ {written, rcvd, last, handed, sent} \subseteq Nat
        /\ out \in Seq(Nat) /\ queue \in Seq(Nat)
    BY <1>1 DEF TypeOK
  <2>2. content' \in [Bufs -> Nat]
    BY <1>2, <2>1
  <2>3. alloc' \subseteq Bufs
    BY <1>7, <2>1
  <2>4. written' = written /\ rcvd' = rcvd + 1 /\ last' = content[RxBuf]
    BY DEF Counts
  <2>5. {written', rcvd', last', handed', sent'} \subseteq Nat
    BY <1>5, <2>1, <2>4
  <2> QED BY <1>4, <1>8, <2>1, <2>2, <2>3, <2>5 DEF TypeOK, TxType
<1>10. OnceNow'
  <2>1. RxSlots' = (RxSlots \ {RxSlot(0)}) \cup {RxSlot(Cnt - 1)}
        /\ RxSlot(0) \in RxSlots /\ RxSlot(Cnt - 1) \notin RxSlots
    BY <1>1, <1>8, <1>9, SlotsMove
  <2>2. TxSlots' = TxSlots
    BY DEF TxSlots
  <2>3. RxSlots \subseteq 0 .. Cnt - 1 /\ RxSlot(Cnt - 1) \in 0 .. Cnt - 1
    BY <1>1, SlotsMove, <1>8, <1>9
  <2>4. /\ \A s \in RxSlots \ {RxSlot(0)} : rx'.bufs[s] = rx.bufs[s]
        /\ rx'.bufs[RxSlot(Cnt - 1)] = frag
    BY <1>1, <1>8, <2>1, <2>3, RxTypes
  <2>5. Once(RxSlots, rx.bufs, TxSlots, tx.bufs, stack, alloc)
    BY <1>1 DEF OnceNow
  <2>6. CASE frag = RxBuf /\ alloc' = alloc /\ stack' = stack
    <3>1. Once((RxSlots \ {RxSlot(0)}) \cup {RxSlot(Cnt - 1)}, rx'.bufs, TxSlots, tx.bufs, stack, alloc)
      BY <1>5, <2>1, <2>4, <2>5, <2>6, OnceMoved
    <3> QED BY <2>1, <2>2, <2>6, <3>1 DEF OnceNow
  <2>7. CASE /\ frag \notin alloc /\ alloc' = alloc \cup {frag}
             /\ stack' = stack \cup {RxBuf}
    <3>1. Once((RxSlots \ {RxSlot(0)}) \cup {RxSlot(Cnt - 1)}, rx'.bufs, TxSlots, tx.bufs,
               stack \cup {rx.bufs[RxSlot(0)]}, alloc \cup {frag})
      BY <2>1, <2>4, <2>5, <2>7, OnceReplaced
    <3> QED BY <1>5, <2>1, <2>2, <2>7, <3>1 DEF OnceNow
  <2> QED BY <1>7, <2>6, <2>7
<1>11. Receiving'
  <2>1. \A k \in 1 .. Cnt - 2 : k \in 0 .. Cnt - 2 /\ k # 0
    BY Sizes
  <2>2. \A k \in 1 .. Cnt - 2 : content'[rx.bufs[RxSlot(k)]] = content[rx.bufs[RxSlot(k)]]
    BY <1>3, <2>1
  <2> QED BY <1>1, <1>4, <1>7, <1>9, <2>2, ReceiveOne
<1> QED BY <1>3, <1>4, <1>9, <1>10, <1>11

----------------------------------------------------------------------------
(* The XDP ring is completed, or not.                                      *)
LEMMA XdpRing ==
  ASSUME TypeOK, Sending, kind = "net", NEW t, t = tx \/ t = XdpComplete(tx)
  PROVE  /\ t \in TxType /\ t.bufs = tx.bufs /\ t.add = tx.add
         /\ \E u, v \in 0 .. TxCnt - 1 :
              /\ TxRing(t, dev, u, v)
              /\ \A c \in [Bufs -> Nat] :
                   (\A s \in 0 .. TxCnt - 1 : c[tx.bufs[s]] = content[tx.bufs[s]])
                     => Frames(t, u, v, c, out)
<1>1. PICK u \in 0 .. TxCnt - 1, v \in 0 .. TxCnt - 1 :
         TxRing(tx, dev, u, v) /\ Frames(tx, u, v, content, out)
  BY DEF Sending, Transit
<1>2. tx \in TxType
  BY DEF TypeOK, TxType
<1>3. u \in Int /\ v \in Int /\ v \in Nat
  BY Sizes
<1> DEFINE n == AtMostMax(v)
<1>4. n \in 0 .. v /\ n \in Int
  BY <1>3, Sizes DEF AtMostMax
<1>5. \A a, b \in Int : TxIdx(a + b) \in 0 .. TxCnt - 1 /\ PtrPlus(a, b) \in 0 .. PtrMod - 1
  <2>1. ASSUME NEW a \in Int, NEW b \in Int
        PROVE  TxIdx(a + b) \in 0 .. TxCnt - 1 /\ PtrPlus(a, b) \in 0 .. PtrMod - 1
    <3>1. a + b \in Int /\ PtrMod \in Nat \ {0} /\ TxCnt \in Nat \ {0}
      BY Sizes
    <3> QED BY <3>1, Euclid DEF PtrPlus, TxIdx
  <2> QED BY <2>1
<1>6. CASE t = tx
  <2>1. ASSUME NEW c \in [Bufs -> Nat], \A s \in 0 .. TxCnt - 1 : c[tx.bufs[s]] = content[tx.bufs[s]]
        PROVE  Frames(tx, u, v, c, out)
    <3>1. u - 0 = u /\ v - 0 = v /\ 0 \in Int /\ \A k \in Int : At(tx, k) = At(tx, 0 + k)
      BY <1>3
    <3>2. Frames(tx, u - 0, v - 0, c, out)
      BY <1>1, <1>2, <1>3, <2>1, <3>1, FramesShift
    <3> QED BY <3>1, <3>2
  <2> QED BY <1>1, <1>2, <1>6, <2>1
<1>7. CASE t = XdpComplete(tx)
  <2>1. Todo(tx) = v
    BY <1>1, <1>2, TodoIs
  <2>2. t = [tx EXCEPT !.qcp = TxIdx(@ + n), !.rd = PtrPlus(@, n)]
    BY <1>7, <2>1 DEF XdpComplete
  <2> HIDE DEF n
  <2>3. /\ t.wr = tx.wr /\ t.rd = PtrPlus(tx.rd, n) /\ t.qcp = TxIdx(tx.qcp + n)
        /\ t.add = tx.add /\ t.bufs = tx.bufs
        /\ t = [wr |-> t.wr, rd |-> t.rd, add |-> t.add, qcp |-> t.qcp, bufs |-> t.bufs]
    BY <1>2, <2>2 DEF TxType
  <2>4. t \in TxType
    <3>1. t.rd \in 0 .. PtrMod - 1 /\ t.qcp \in 0 .. TxCnt - 1
      BY <1>2, <1>4, <1>5, <2>3, TxTypes
    <3>2. t.wr \in 0 .. PtrMod - 1 /\ t.add \in Nat /\ t.bufs \in [0 .. TxCnt - 1 -> Nat]
      BY <1>2, <2>3, TxTypes
    <3> QED BY <2>3, <3>1, <3>2 DEF TxType
  <2>5. /\ TxRing(t, dev, u - n, v - n) /\ u - n \in 0 .. TxCnt - 1 /\ v - n \in 0 .. TxCnt - 1
        /\ \A k \in Int : At(t, k) = At(tx, n + k)
    <3>1. Completed(tx, t, n) /\ TxRing(tx, dev, u, v) /\ n \in 0 .. v
      BY <1>1, <1>4, <2>3 DEF Completed
    <3>2. TxRing(t, dev, u - n, v - n)
      BY <1>2, <3>1, RingCompleted, Zenon
    <3>3. u - n \in 0 .. TxCnt - 1 /\ v - n \in 0 .. TxCnt - 1
      BY <1>2, <3>1, RingCompleted, Zenon
    <3>4. \A k \in Int : At(t, k) = At(tx, n + k)
      BY <1>2, <1>4, <2>3, AtMoved
    <3> QED BY <3>2, <3>3, <3>4
  <2>6. ASSUME NEW c \in [Bufs -> Nat], \A s \in 0 .. TxCnt - 1 : c[tx.bufs[s]] = content[tx.bufs[s]]
        PROVE  Frames(t, u - n, v - n, c, out)
    BY <1>1, <1>2, <1>3, <1>4, <2>3, <2>5, <2>6, FramesShift
  <2> QED BY <2>3, <2>4, <2>5, <2>6
<1> QED BY <1>6, <1>7

LEMMA SendingThen ==
  ASSUME TypeOK, TypeOK', Sending, kind = "net", kind' = kind, tx' = tx \/ tx' = XdpComplete(tx),
         dev'.tx_rd = dev.tx_rd, dev'.tx_wr = dev.tx_wr, out' = out, sent' = sent, handed' = handed,
         Enabled',
         \A s \in 0 .. TxCnt - 1 : content'[tx.bufs[s]] = content[tx.bufs[s]]
  PROVE  Sending'
<1>1. content' \in [Bufs -> Nat]
  BY DEF TypeOK
<1>2. PICK u \in 0 .. TxCnt - 1, v \in 0 .. TxCnt - 1 :
              TxRing(tx', dev, u, v) /\ Frames(tx', u, v, content', out)
  BY <1>1, XdpRing
<1>3. TxRing(tx', dev', u, v)
  BY <1>2 DEF TxRing
<1> QED BY <1>2, <1>3 DEF Sending, Transit

(* A frame is sent back: its buffer and that of the XDP ring's next entry  *)
(* are swapped.                                                            *)
LEMMA SendBack ==
  ASSUME VInv, kind = "net", Enabled, Ready, Counts, kind' = kind, on' = on,
         queue' = queue, sent' = sent, handed' = handed,
         NEW t, t = tx \/ t = XdpComplete(tx), ~Full(t),
         rx' = Given(Taken, t.bufs[TxIdx(t.wr)]), dev' = TellDevice(dev),
         tx' = [t EXCEPT !.bufs[TxIdx(t.wr)] = RxBuf, !.wr = PtrPlus(@, 1), !.add = @ + 1],
         out' = Append(out, content[RxBuf]), UNCHANGED <<content, alloc, stack>>
  PROVE  TypeOK' /\ OnceNow' /\ Receiving' /\ Sending'
<1>1. /\ TypeOK /\ OnceNow /\ Receiving /\ RxRing /\ on # "empty" /\ Sending
  BY DEF VInv, Receiving, Enabled
<1>2. t \in TxType /\ t.bufs = tx.bufs /\ content \in [Bufs -> Nat]
  BY <1>1, XdpRing DEF TypeOK
<1>3. PICK u \in 0 .. TxCnt - 1, v \in 0 .. TxCnt - 1 :
              TxRing(t, dev, u, v) /\ Frames(t, u, v, content, out)
  BY <1>1, <1>2, XdpRing
<1> DEFINE slot == At(t, u)
<1>4. u # TxCnt - 1 /\ TxIdx(t.wr) = slot /\ u \in Int /\ v \in Int
  <2>1. u \in Int /\ v \in Int
    BY Sizes
  <2> QED BY <1>2, <1>3, <2>1, FullIs
<1>5. slot \in 0 .. TxCnt - 1
  BY <1>2, <1>4, AtIs
<1> HIDE DEF slot
<1>6. slot \in TxSlots /\ TxSlots' = TxSlots /\ TxSlots = 0 .. TxCnt - 1
  BY <1>1, <1>5 DEF TxSlots
<1>7. /\ RxBuf \in Bufs /\ RxBuf = rx.bufs[RxSlot(0)]
      /\ tx.bufs[slot] \in alloc /\ alloc \subseteq Bufs
  BY <1>1, <1>6, RxBuffers DEF OnceNow, Once, TypeOK
<1> DEFINE frag == tx.bufs[slot]
<1>8. frag \in Bufs /\ rx' = Given(Taken, frag)
  BY <1>2, <1>4, <1>7
<1>9. /\ rx'.wr = PtrPlus(rx.wr, 1) /\ rx'.rd = PtrPlus(rx.rd, 1)
      /\ rx'.bufs = [rx.bufs EXCEPT ![RxSlot(Cnt - 1)] = frag]
      /\ rx' \in [wr : 0 .. PtrMod - 1, rd : 0 .. PtrMod - 1,
                  bufs : [0 .. Cnt - 1 -> Bufs \cup {NoBuf}],
                  ds : [0 .. Cnt - 1 -> [dd : BOOLEAN, buf : Bufs \cup {NoBuf}]]]
  BY <1>1, <1>8, GivenIs
<1>10. /\ dev' \in [fl_wr : 0 .. Cnt - 1, fl_rd : 0 .. Cnt - 1,
                   tx_wr : 0 .. TxCnt - 1, tx_rd : 0 .. TxCnt - 1]
      /\ dev'.fl_rd = dev.fl_rd /\ dev'.tx_rd = dev.tx_rd /\ dev'.tx_wr = dev.tx_wr
      /\ dev'.fl_wr = TellDevice(dev).fl_wr
  BY <1>1, TellsOnly
<1>11. /\ tx'.wr = PtrPlus(t.wr, 1) /\ tx'.rd = t.rd /\ tx'.qcp = t.qcp /\ tx'.add = t.add + 1
       /\ tx'.bufs = [t.bufs EXCEPT ![slot] = RxBuf]
       /\ tx' = [wr |-> tx'.wr, rd |-> tx'.rd, add |-> tx'.add, qcp |-> tx'.qcp, bufs |-> tx'.bufs]
  BY <1>2, <1>4 DEF TxType
<1>12. tx' \in TxType
  <2>1. tx'.wr \in 0 .. PtrMod - 1
    <3>1. t.wr + 1 \in Int /\ PtrMod \in Nat \ {0}
      BY SMTT(30), <1>2, TxTypes, Sizes
    <3> QED BY <1>11, <3>1, Euclid DEF PtrPlus
  <2>2. RxBuf \in Nat
    BY <1>7, Sizes
  <2>3. tx'.bufs \in [0 .. TxCnt - 1 -> Nat]
    BY ZenonT(60), <1>2, <1>5, <1>11, <2>2, TxTypes
  <2>4. tx'.rd \in 0 .. PtrMod - 1 /\ tx'.qcp \in 0 .. TxCnt - 1 /\ tx'.add \in Nat
    BY <1>2, <1>11, TxTypes
  <2> QED BY <1>11, <2>1, <2>3, <2>4 DEF TxType
<1>13. content[RxBuf] \in Nat /\ out \in Seq(Nat)
  BY <1>1, <1>2, <1>7 DEF TypeOK
<1>14. TypeOK'
  <2>1. content \in [Bufs -> Nat] /\ alloc \subseteq Bufs /\ kind \in {"net", "ctrl"}
        /\ on \in {"up", "closing", "reset", "empty"}
        /\ {written, rcvd, last, handed, sent} \subseteq Nat /\ queue \in Seq(Nat)
    BY <1>1 DEF TypeOK
  <2>2. written' = written /\ rcvd' = rcvd + 1 /\ last' = content[RxBuf]
    BY DEF Counts
  <2>3. {written', rcvd', last', handed', sent'} \subseteq Nat
    BY <1>13, <2>1, <2>2
  <2>4. out' \in Seq(Nat)
    BY <1>13
  <2> QED BY <1>9, <1>10, <1>12, <2>1, <2>3, <2>4 DEF TypeOK, TxType
<1>15. OnceNow'
  <2>1. RxSlots' = (RxSlots \ {RxSlot(0)}) \cup {RxSlot(Cnt - 1)}
        /\ RxSlot(0) \in RxSlots /\ RxSlot(Cnt - 1) \notin RxSlots
        /\ RxSlots \subseteq 0 .. Cnt - 1 /\ RxSlot(Cnt - 1) \in 0 .. Cnt - 1
    BY <1>1, <1>9, <1>14, SlotsMove
  <2>2. /\ \A s \in RxSlots \ {RxSlot(0)} : rx'.bufs[s] = rx.bufs[s]
        /\ rx'.bufs[RxSlot(Cnt - 1)] = tx.bufs[slot]
    BY <1>1, <1>9, <2>1, RxTypes
  <2>3. /\ \A s \in TxSlots \ {slot} : tx'.bufs[s] = tx.bufs[s]
        /\ tx'.bufs[slot] = rx.bufs[RxSlot(0)]
    BY ZenonT(60), <1>2, <1>5, <1>6, <1>7, <1>11, TxTypes
  <2>4. Once(RxSlots, rx.bufs, TxSlots, tx.bufs, stack, alloc)
    BY <1>1 DEF OnceNow
  <2>5. Once((RxSlots \ {RxSlot(0)}) \cup {RxSlot(Cnt - 1)}, rx'.bufs, TxSlots, tx'.bufs, stack, alloc)
    <3>1. slot \in TxSlots
      BY <1>6
    <3>2. /\ Gets(RxSlots \ {RxSlot(0)}, rx.bufs, RxSlot(Cnt - 1), rx'.bufs, tx.bufs[slot])
          /\ Gets(TxSlots, tx.bufs, slot, tx'.bufs, rx.bufs[RxSlot(0)])
      BY <2>1, <2>2, <2>3 DEF Gets
    <3> QED BY <2>1, <2>4, <3>1, <3>2, OnceSwapped
  <2> QED BY <1>6, <2>1, <2>5 DEF OnceNow
<1>16. Receiving'
  BY <1>1, <1>8, <1>10, <1>14, ReceiveOne
<1>17. TxRing(tx', dev', u + 1, v) /\ \A k : At(tx', k) = At(t, k)
  <2>1. TxRing(tx', dev, u + 1, v) /\ \A k : At(tx', k) = At(t, k)
    <3>1. Put(t, tx')
      BY <1>11 DEF Put
    <3>2. TxRing(tx', dev, u + 1, v)
      BY <1>2, <1>3, <1>4, <3>1, RingPut, Zenon
    <3>3. \A k : At(tx', k) = At(t, k)
      BY <1>11 DEF At
    <3> QED BY <3>2, <3>3
  <2> QED BY <1>10, <2>1 DEF TxRing
<1>18. Frames(tx', u + 1, v, content', out')
  <2>1. Len(out) = u - v /\ Len(out) \in Nat
    BY <1>3, <1>13 DEF Frames
  <2>2. /\ Len(out') = Len(out) + 1 /\ out'[Len(out) + 1] = content[RxBuf]
        /\ \A i \in 1 .. Len(out) : out'[i] = out[i]
    BY <1>13
  <2>3. Len(out') = (u + 1) - v
    BY <1>4, <2>1, <2>2
  <2>4. ASSUME NEW k \in v .. (u + 1) - 1 PROVE content'[tx'.bufs[At(tx', k)]] = out'[k - v + 1]
    <3>1. k \in Int /\ (k \in v .. u - 1 \/ k = u) /\ u - k < TxCnt /\ k - u < TxCnt
      <4>1. u <= TxCnt - 1 /\ v >= 0 /\ TxCnt \in Nat
        BY Sizes
      <4> QED BY <1>4, <4>1
    <3>2. CASE k \in v .. u - 1
      <4>1. k # u /\ k - v + 1 \in 1 .. Len(out)
        BY <1>4, <2>1, <3>2
      <4>2. At(t, k) # slot /\ At(t, k) \in 0 .. TxCnt - 1
        BY <1>2, <1>4, <3>1, <4>1, AtOnce, AtIs DEF slot
      <4>3. tx'.bufs[At(t, k)] = t.bufs[At(t, k)]
        BY <1>2, <1>11, <4>2, TxTypes
      <4>4. content[t.bufs[At(t, k)]] = out[k - v + 1]
        BY <1>3, <3>2 DEF Frames
      <4> QED BY <1>17, <2>2, <4>1, <4>3, <4>4
    <3>3. CASE k = u
      <4>1. tx'.bufs[slot] = RxBuf
        BY <1>2, <1>5, <1>11, TxTypes
      <4>2. k - v + 1 = Len(out) + 1
        BY <2>1, <3>3
      <4> QED BY <1>17, <2>2, <3>3, <4>1, <4>2 DEF slot
    <3> QED BY <3>1, <3>2, <3>3
  <2> QED BY <2>3, <2>4 DEF Frames
<1>19. Sending'
  <2>1. u + 1 \in 0 .. TxCnt - 1
    BY <1>4, Sizes
  <2>2. Enabled' /\ sent' <= handed'
    BY <1>1 DEF Enabled, Sending
  <2> QED BY <1>17, <1>18, <2>1, <2>2 DEF Sending, Transit
<1> QED BY <1>14, <1>15, <1>16, <1>19

----------------------------------------------------------------------------
(* The device.                                                             *)
DevType == [fl_wr : 0 .. Cnt - 1, fl_rd : 0 .. Cnt - 1,
            tx_wr : 0 .. TxCnt - 1, tx_rd : 0 .. TxCnt - 1]
RxType == [wr : 0 .. PtrMod - 1, rd : 0 .. PtrMod - 1,
           bufs : [0 .. Cnt - 1 -> Bufs \cup {NoBuf}],
           ds : [0 .. Cnt - 1 -> [dd : BOOLEAN, buf : Bufs \cup {NoBuf}]]]

LEMMA Types ==
  ASSUME TypeOK
  PROVE  /\ kind \in {"net", "ctrl"} /\ on \in {"up", "closing", "reset", "empty"}
         /\ rx \in RxType /\ tx \in TxType /\ dev \in DevType
         /\ content \in [Bufs -> Nat] /\ alloc \subseteq Bufs
         /\ written \in Nat /\ rcvd \in Nat /\ last \in Nat /\ handed \in Nat /\ sent \in Nat
         /\ out \in Seq(Nat) /\ queue \in Seq(Nat)
BY DEF TypeOK, RxType, TxType, DevType

LEMMA StepDevReceive ==
  ASSUME VInv, DevReceive
  PROVE  VInv'
<1> DEFINE n == Filling
           e == dev.fl_rd
<1>1. /\ TypeOK /\ OnceNow /\ Receiving /\ RxRing /\ on # "empty" /\ Sending /\ Modes /\ Enabled
  BY DEF VInv, Receiving, Enabled, DevReceive
<1>2. n \in 0 .. Known /\ Known \in 0 .. Cnt - 1 /\ n = written - rcvd
  BY <1>1, KnownIs DEF RxRing, Filling
<1>3. dev.fl_rd = RxSlot(n) /\ dev.fl_wr = RxSlot(Known) /\ dev.fl_rd # dev.fl_wr
  BY <1>1 DEF RxRing, DevReceive
<1>4. n \in 0 .. Cnt - 2 /\ n + 1 \in 0 .. Known /\ n \in Int /\ n \in 0 .. Cnt - 1
  <2>1. n # Known
    BY <1>3
  <2>2. Cnt \in Nat /\ Known \in Int
    BY <1>2, Sizes
  <2> HIDE DEF n
  <2> QED BY <1>2, <2>1, <2>2
<1> HIDE DEF n
<1>5. e = RxSlot(n) /\ e \in 0 .. Cnt - 1
  BY <1>1, <1>3, <1>4, RxSlotIs
<1>6. rx.ds[e].buf = rx.bufs[RxSlot(n)]
  BY <1>1, <1>4, <1>5 DEF RxRing
<1>7. rx \in RxType /\ dev \in DevType /\ content \in [Bufs -> Nat] /\ written \in Nat /\ rcvd \in Nat
  BY <1>1, Types
<1>8. rx' = [rx EXCEPT !.ds[e].dd = TRUE]
  BY DEF DevReceive
<1>9. dev' = [dev EXCEPT !.fl_rd = RxIdx(dev.fl_rd + 1)]
  BY DEF DevReceive
<1> HIDE DEF e
<1>10. /\ rx'.wr = rx.wr /\ rx'.rd = rx.rd /\ rx'.bufs = rx.bufs
       /\ rx'.ds = [rx.ds EXCEPT ![e].dd = TRUE]
       /\ rx' = [wr |-> rx'.wr, rd |-> rx'.rd, bufs |-> rx'.bufs, ds |-> rx'.ds]
  BY <1>7, <1>8 DEF RxType
<1>11. rx.ds \in [0 .. Cnt - 1 -> [dd : BOOLEAN, buf : Bufs \cup {NoBuf}]]
       /\ rx.bufs \in [0 .. Cnt - 1 -> Bufs \cup {NoBuf}]
       /\ rx.wr \in 0 .. PtrMod - 1 /\ rx.rd \in 0 .. PtrMod - 1
  BY <1>7 DEF RxType
<1>12. /\ rx'.ds[e] = [rx.ds[e] EXCEPT !.dd = TRUE]
       /\ \A s \in 0 .. Cnt - 1 : s # e => rx'.ds[s] = rx.ds[s]
  BY <1>5, <1>10, <1>11
<1>13. rx'.ds[e].dd /\ rx'.ds[e].buf = rx.ds[e].buf
       /\ rx'.ds[e] \in [dd : BOOLEAN, buf : Bufs \cup {NoBuf}]
  BY <1>5, <1>11, <1>12
<1>14. rx' \in RxType
  <2>1. rx'.ds \in [0 .. Cnt - 1 -> [dd : BOOLEAN, buf : Bufs \cup {NoBuf}]]
    <3> DEFINE D == [dd : BOOLEAN, buf : Bufs \cup {NoBuf}]
    <3>1. rx.ds \in [0 .. Cnt - 1 -> D] /\ rx'.ds[e] \in D
      BY <1>11, <1>13
    <3>2. rx'.ds = [s \in 0 .. Cnt - 1 |-> rx'.ds[s]]
      BY <1>10, <1>11
    <3> HIDE DEF D
    <3>3. \A s \in 0 .. Cnt - 1 : rx'.ds[s] \in D
      BY <1>12, <3>1
    <3>4. rx'.ds \in [0 .. Cnt - 1 -> D]
      BY <3>2, <3>3
    <3> QED BY <3>4 DEF D
  <2> QED BY <1>10, <1>11, <2>1 DEF RxType
<1>15. dev' \in DevType /\ dev'.fl_rd = RxSlot(n + 1) /\ dev'.fl_wr = dev.fl_wr
       /\ dev'.tx_rd = dev.tx_rd /\ dev'.tx_wr = dev.tx_wr
  <2>1. Further(Cnt, rx.rd, n, 1)
    <3>1. Cnt \in Nat \ {0} /\ rx.rd \in Int /\ 1 \in Int
      BY <1>1, Sizes, RxTypes
    <3> QED BY <1>4, <3>1, EntryNext, Zenon
  <2>2. RxIdx(dev.fl_rd + 1) = RxSlot(n + 1)
    BY <1>3, <2>1 DEF Further, RxIdx, RxSlot
  <2>3. RxSlot(n + 1) \in 0 .. Cnt - 1
    <3>1. n + 1 \in Int
      BY <1>4
    <3> QED BY <1>1, <3>1, RxSlotIs
  <2> QED BY <1>7, <1>9, <2>2, <2>3 DEF DevType
<1>16. content' = [content EXCEPT ![rx.bufs[RxSlot(n)]] = written + 1]
  BY <1>6 DEF DevReceive, e
<1>17. /\ kind = "net" => \A s \in 0 .. TxCnt - 1 : content'[tx.bufs[s]] = content[tx.bufs[s]]
       /\ \A j \in 0 .. Cnt - 2 : j # n => content'[rx.bufs[RxSlot(j)]] = content[rx.bufs[RxSlot(j)]]
       /\ content'[rx.bufs[RxSlot(n)]] = written + 1
  BY <1>1, <1>4, <1>16, ContentKept
<1>18. /\ kind' = kind /\ on' = on /\ tx' = tx /\ alloc' = alloc /\ stack' = stack /\ pc' = pc
       /\ written' = written + 1 /\ rcvd' = rcvd /\ last' = last
       /\ out' = out /\ queue' = queue /\ handed' = handed /\ sent' = sent
  BY DEF DevReceive, mode, pollVars, ctrlVars
<1>19. TypeOK'
  <2>1. content' \in [Bufs -> Nat]
    <3>1. written + 1 \in Nat
      BY <1>7
    <3> QED BY <1>7, <1>16, <3>1
  <2>2. written' \in Nat
    BY <1>7, <1>18
  <2> QED BY ZenonT(60), <1>1, <1>14, <1>15, <1>18, <2>1, <2>2 DEF TypeOK, RxType, DevType
<1>20. Modes' /\ OnceNow'
  BY <1>1, <1>10, <1>18, OnceSame DEF Modes
<1>21. RxRing'
  <2>1. Filling' = n + 1 /\ Known' = Known /\ \A k : RxSlot(k)' = RxSlot(k)
    BY <1>2, <1>7, <1>10, <1>18 DEF Filling, Known, RxSlot
  <2>2. ASSUME NEW k \in 0 .. Cnt - 2
        PROVE  /\ rx'.ds[RxSlot(k)].dd <=> k < n + 1
               /\ rx'.ds[RxSlot(k)].buf = rx'.bufs[RxSlot(k)]
    <3>1. /\ rx.ds[RxSlot(k)].dd <=> k < n
          /\ rx.ds[RxSlot(k)].buf = rx.bufs[RxSlot(k)]
      BY <1>1 DEF RxRing, n
    <3>2. CASE k = n
      BY <1>4, <1>5, <1>6, <1>10, <1>13, <3>2
    <3>3. CASE k # n
      <4>1. k \in 0 .. Cnt - 1 /\ k \in Int
        BY Sizes
      <4>2. RxSlot(k) # e /\ RxSlot(k) \in 0 .. Cnt - 1
        BY <1>1, <1>4, <1>5, <3>3, <4>1, RxSlotOnce, RxSlotIs
      <4>3. (k < n + 1) <=> (k < n)
        BY <1>4, <3>3, <4>1
      <4> QED BY <1>10, <1>12, <3>1, <4>2, <4>3
    <3> QED BY <3>2, <3>3
  <2>3. ASSUME NEW k \in 0 .. n + 1 - 1 PROVE content'[rx'.bufs[RxSlot(k)]] = rcvd' + k + 1
    <3>1. CASE k = n
      BY <1>2, <1>7, <1>10, <1>17, <1>18, <3>1
    <3>2. CASE k # n
      <4>1. k \in 0 .. n - 1 /\ k \in 0 .. Cnt - 2
        BY <1>4, <3>2, Sizes
      <4>2. content[rx.bufs[RxSlot(k)]] = rcvd + k + 1
        BY <1>1, <4>1 DEF RxRing, n
      <4> QED BY <1>10, <1>17, <1>18, <3>2, <4>1, <4>2
    <3> QED BY <3>1, <3>2
  <2>4. rx'.wr = (rx'.rd + (Cnt - 1)) % PtrMod
    BY <1>1, <1>10 DEF RxRing
  <2>5. dev'.fl_wr = RxSlot(Known)
    BY <1>3, <1>15
  <2> QED BY <1>4, <1>15, <2>1, <2>2, <2>3, <2>4, <2>5 DEF RxRing
<1>22. Receiving'
  BY <1>1, <1>18, <1>21 DEF Receiving, Enabled
<1>23. Sending'
  BY <1>1, <1>15, <1>17, <1>18, SendingSame DEF Enabled
<1> QED BY <1>19, <1>20, <1>22, <1>23 DEF VInv

LEMMA StepDevSend ==
  ASSUME VInv, DevSend
  PROVE  VInv'
<1>1. /\ TypeOK /\ OnceNow /\ Receiving /\ RxRing /\ on # "empty" /\ Sending /\ Modes /\ Enabled
  BY DEF VInv, Receiving, Enabled, DevSend
<1>2. /\ kind \in {"net", "ctrl"} /\ tx \in TxType /\ dev \in DevType /\ content \in [Bufs -> Nat]
      /\ alloc \subseteq Bufs /\ sent \in Nat /\ handed \in Nat /\ out \in Seq(Nat) /\ queue \in Seq(Nat)
  BY <1>1, Types
<1>3. PICK u \in 0 .. TxCnt - 1, v \in 0 .. TxCnt - 1 :
         TxRing(tx, dev, u, v) /\ Transit(u, v)
  BY <1>1 DEF Sending
<1>4. u \in Int /\ v \in Int
  BY Sizes
<1>5. /\ kind' = kind /\ on' = on /\ rx' = rx /\ tx' = tx /\ alloc' = alloc /\ stack' = stack
      /\ pc' = pc /\ written' = written /\ rcvd' = rcvd /\ last' = last
      /\ queue' = queue /\ handed' = handed
      /\ dev.tx_rd # dev.tx_wr /\ dev' = [dev EXCEPT !.tx_rd = TxIdx(dev.tx_rd + 1)]
  BY DEF DevSend, mode, pollVars, rxHist
<1>6. /\ dev'.tx_rd = TxIdx(dev.tx_rd + 1) /\ dev'.tx_wr = dev.tx_wr
      /\ dev'.fl_wr = dev.fl_wr /\ dev'.fl_rd = dev.fl_rd
      /\ dev' \in DevType
  <2>1. TxIdx(dev.tx_rd + 1) \in 0 .. TxCnt - 1
    <3>1. dev.tx_rd + 1 \in Int /\ TxCnt \in Nat \ {0}
      BY <1>2, Sizes DEF DevType
    <3> QED BY <3>1, Euclid DEF TxIdx
  <2> QED BY <1>2, <1>5, <2>1 DEF DevType
<1>7. TxRing(tx, dev', u, v + 1) /\ v + 1 \in 0 .. TxCnt - 1 /\ v < u
  BY <1>2, <1>3, <1>5, <1>6, RingSent
<1> DEFINE e == At(tx, v)
<1>8. e \in 0 .. TxCnt - 1 /\ dev.tx_rd = e
  BY <1>2, <1>3, <1>4, AtIs DEF TxRing
<1> HIDE DEF e
<1>9. TxRing(tx', dev', u, v + 1) /\ \A k : At(tx', k) = At(tx, k)
  BY <1>5, <1>7 DEF TxRing, At
<1>10. Modes' /\ OnceNow'
  BY <1>1, <1>5, OnceSame DEF Modes
<1>11. ASSUME kind = "ctrl" PROVE TypeOK' /\ Receiving' /\ Sending'
  <2>1. sent' = tx.bufs[e] /\ content' = content /\ out' = out
    BY <1>8, <1>11 DEF DevSend
  <2>2. sent' \in Nat
    BY <1>2, <1>8, <2>1, TxTypes
  <2>3. TypeOK'
    BY ZenonT(60), <1>1, <1>5, <1>6, <2>1, <2>2 DEF TypeOK, DevType
  <2>4. Receiving'
    BY <1>1, <1>5, <1>6, <2>1, ReceivingSame DEF Enabled
  <2>5. /\ Messages(tx, u, v, queue, 0, sent, handed) /\ tx.add = 0
        /\ queue # <<>> => u = TxCnt - 1
    BY <1>3, <1>11 DEF Transit
  <2>6. v \in v .. u - 1 /\ \A k \in v + 1 .. u - 1 : k \in v .. u - 1 /\ v < k
    BY <1>4, <1>7
  <2>7. sent' = tx.bufs[At(tx, v)]
    BY <2>1 DEF e
  <2>8. sent' <= handed /\ \A k \in v + 1 .. u - 1 : sent' < tx.bufs[At(tx, k)] /\ tx.bufs[At(tx, k)] <= handed
    BY <2>5, <2>6, <2>7 DEF Messages
  <2>9. \A k \in 0 + 1 .. Len(queue) : sent' < queue[k] /\ queue[k] <= handed
    BY <2>5, <2>6, <2>7 DEF Messages
  <2>10. Messages(tx, u, v + 1, queue, 0, sent', handed)
    BY <2>5, <2>6, <2>8, <2>9 DEF Messages
  <2>11. Messages(tx', u, v + 1, queue', 0, sent', handed')
    BY <1>5, <2>10
  <2>12. Transit(u, v + 1)'
    BY <1>5, <1>11, <2>5, <2>11 DEF Transit
  <2> QED BY <1>1, <1>5, <1>7, <1>9, <2>3, <2>4, <2>8, <2>12 DEF Sending, Enabled
<1>12. ASSUME kind = "net" PROVE TypeOK' /\ Receiving' /\ Sending'
  <2>1. content' = [content EXCEPT ![tx.bufs[e]] = 0] /\ out' = Tail(out) /\ sent' = sent
    BY <1>8, <1>12 DEF DevSend
  <2>2. Frames(tx, u, v, content, out)
    BY <1>3, <1>12 DEF Transit
  <2>3. TxSlots = 0 .. TxCnt - 1
    BY <1>1, <1>12 DEF TxSlots
  <2>4. /\ \A s \in 0 .. TxCnt - 1 : tx.bufs[s] \in Bufs
        /\ \A s \in 0 .. TxCnt - 1 : s # e => tx.bufs[s] # tx.bufs[e]
    BY <1>1, <1>2, <1>8, <2>3 DEF OnceNow, Once
  <2>5. /\ \A k \in 0 .. Cnt - 2 : rx.bufs[RxSlot(k)] # tx.bufs[e] /\ rx.bufs[RxSlot(k)] \in Bufs
    BY <1>1, <1>8, <2>3, RxBuffers
  <2>6. \A b \in Bufs : b # tx.bufs[e] => content'[b] = content[b]
    BY <1>2, <2>1
  <2>7. Receiving'
    <3>1. \A k \in 0 .. Cnt - 2 : content'[rx.bufs[RxSlot(k)]] = content[rx.bufs[RxSlot(k)]]
      BY <2>5, <2>6
    <3> QED BY <1>1, <1>5, <1>6, <3>1, ReceivingSame DEF Enabled
  <2>8. Len(out) = u - v /\ out # <<>> /\ u - v >= 1
    BY <1>4, <1>7, <2>2 DEF Frames
  <2>9. /\ Tail(out) \in Seq(Nat) /\ Len(Tail(out)) = Len(out) - 1
        /\ \A i \in 1 .. Len(out) - 1 : Tail(out)[i] = out[i + 1]
    BY <1>2, <2>8
  <2>10. TypeOK'
    <3>1. content' \in [Bufs -> Nat] /\ out' \in Seq(Nat)
      BY <1>2, <2>1, <2>9
    <3> QED BY <1>1, <1>5, <1>6, <2>1, <3>1 DEF TypeOK, DevType
  <2>11. Frames(tx', u, v + 1, content', out')
    <3>1. Len(out') = u - (v + 1)
      BY <1>4, <2>1, <2>8, <2>9
    <3>2. ASSUME NEW k \in v + 1 .. u - 1
          PROVE  content'[tx'.bufs[At(tx', k)]] = out'[k - (v + 1) + 1]
      <4>1. /\ k \in Int /\ k \in v .. u - 1 /\ k # v /\ k - v < TxCnt /\ v - k < TxCnt
            /\ k - (v + 1) + 1 \in 1 .. u - v - 1 /\ k - (v + 1) + 1 + 1 = k - v + 1
        <5>1. u <= TxCnt - 1 /\ v >= 0 /\ TxCnt \in Nat
          BY Sizes
        <5> QED BY <1>4, <5>1
      <4>2. At(tx, k) # e /\ At(tx, k) \in 0 .. TxCnt - 1
        BY <1>2, <1>4, <4>1, AtOnce, AtIs DEF e
      <4>3. content'[tx.bufs[At(tx, k)]] = content[tx.bufs[At(tx, k)]]
        BY <2>4, <2>6, <4>2
      <4>4. content[tx.bufs[At(tx, k)]] = out[k - v + 1]
        BY <2>2, <4>1 DEF Frames
      <4>5. out'[k - (v + 1) + 1] = out[k - v + 1]
        BY <2>1, <2>8, <2>9, <4>1
      <4> QED BY <1>5, <1>9, <4>3, <4>4, <4>5
    <3> QED BY <3>1, <3>2 DEF Frames
  <2>12. Transit(u, v + 1)'
    BY <1>5, <1>12, <2>11 DEF Transit
  <2>13. sent' <= handed'
    BY <1>1, <1>5, <2>1 DEF Sending
  <2> QED BY <1>1, <1>5, <1>7, <1>9, <2>7, <2>10, <2>12, <2>13 DEF Sending, Enabled
<1> QED BY <1>2, <1>10, <1>11, <1>12 DEF VInv

----------------------------------------------------------------------------
(* The poll.                                                               *)
LEMMA StepSame ==
  ASSUME VInv, kind' = kind, Enabled' <=> Enabled, (on' = "empty") <=> (on = "empty"),
         on' \in {"up", "closing", "reset", "empty"}, Modes',
         UNCHANGED <<rx, tx, dev, content, rxHist, out, ctrlVars>>,
         \/ UNCHANGED <<alloc, stack>>
         \/ \E b \in stack : stack' = stack \ {b} /\ alloc' = alloc \ {b}
  PROVE  VInv'
<1>1. /\ TypeOK /\ OnceNow /\ Receiving /\ Sending
  BY DEF VInv
<1>2. alloc' \subseteq alloc
  OBVIOUS
<1>3. TypeOK'
  BY <1>1, <1>2 DEF TypeOK, rxHist, ctrlVars
<1>4. Receiving' /\ Sending'
  BY <1>1, ReceivingSame, SendingSame DEF rxHist, ctrlVars
<1>5. OnceNow'
  <2>1. CASE UNCHANGED <<alloc, stack>>
    BY <1>1, <2>1, OnceSame
  <2>2. ASSUME NEW b \in stack, stack' = stack \ {b}, alloc' = alloc \ {b} PROVE OnceNow'
    <3>1. Once(RxSlots, rx.bufs, TxSlots, tx.bufs, stack \ {b}, alloc \ {b})
      BY <1>1, OnceFreed DEF OnceNow
    <3>2. RxSlots' = RxSlots
      BY SlotsSame
    <3>3. TxSlots' = TxSlots
      BY DEF TxSlots
    <3> QED BY <2>2, <3>1, <3>2, <3>3 DEF OnceNow
  <2> QED BY <2>1, <2>2
<1> QED BY <1>3, <1>4, <1>5 DEF VInv

LEMMA StepQuiet ==
  ASSUME VInv,
         \/ IrqRxTx \/ StackFrees \/ Poll \/ PollEnd \/ CtrlRxNone \/ CtrlPollEnd \/ CloseStack
         \/ UNCHANGED vars
  PROVE  VInv'
<1>0. Modes
  BY DEF VInv
<1>1. CASE IrqRxTx \/ Poll \/ PollEnd \/ CtrlRxNone \/ CtrlPollEnd
  <2>1. UNCHANGED <<kind, on, rx, tx, dev, content, rxHist, out, ctrlVars, alloc, stack>> /\ on = "up"
    BY <1>0, <1>1 DEF IrqRxTx, Poll, PollEnd, CtrlRxNone, CtrlPollEnd, mode, Modes
  <2>2. Modes'
    BY <2>1 DEF Modes
  <2> QED BY <2>1, <2>2, StepSame DEF Enabled
<1>2. CASE StackFrees
  <2>1. /\ UNCHANGED <<kind, on, pc, rx, tx, dev, content, rxHist, out, ctrlVars>>
        /\ \E b \in stack : stack' = stack \ {b} /\ alloc' = alloc \ {b}
    BY <1>2 DEF StackFrees, mode, pollVars
  <2>2. Modes' /\ on \in {"up", "closing", "reset", "empty"}
    BY <1>0, <2>1 DEF Modes, VInv, TypeOK
  <2> QED BY <2>1, <2>2, StepSame DEF Enabled
<1>3. CASE CloseStack
  <2>1. /\ UNCHANGED <<kind, pc, rx, tx, dev, content, rxHist, out, ctrlVars, alloc, stack>>
        /\ on = "up" /\ on' = "closing" /\ pc = "idle" /\ kind = "net"
    BY <1>3 DEF CloseStack, pollVars
  <2>2. Modes'
    BY <2>1 DEF Modes
  <2> QED BY <2>1, <2>2, StepSame DEF Enabled
<1>4. CASE UNCHANGED vars
  <2>1. UNCHANGED <<kind, on, pc, rx, tx, dev, content, rxHist, out, ctrlVars, alloc, stack>>
    BY <1>4 DEF vars, mode, pollVars
  <2>2. Modes' /\ on \in {"up", "closing", "reset", "empty"}
    BY <1>0, <2>1 DEF Modes, VInv, TypeOK
  <2> QED BY <2>1, <2>2, StepSame DEF Enabled
<1> QED BY <1>1, <1>2, <1>3, <1>4

LEMMA StepRxOne ==
  ASSUME VInv, RxOne \/ CtrlRxOne
  PROVE  VInv'
<1>1. /\ TypeOK /\ OnceNow /\ Receiving /\ Sending /\ Modes
  BY DEF VInv
<1>2. /\ pc = "rx" /\ Ready /\ Counts /\ kind' = kind /\ on' = on
      /\ queue' = queue /\ sent' = sent /\ handed' = handed
  BY DEF RxOne, CtrlRxOne, mode, ctrlVars
<1>3. on = "up" /\ Enabled /\ Enabled' /\ Modes'
  BY <1>1, <1>2 DEF Modes, Enabled
<1>4. tx \in TxType
  BY <1>1, Types
<1>5. CASE (Reuse \/ Pass) /\ tx' = tx /\ out' = out
  <2>1. /\ TypeOK' /\ OnceNow' /\ Receiving'
        /\ dev'.tx_rd = dev.tx_rd /\ dev'.tx_wr = dev.tx_wr
        /\ kind = "net" => \A s \in 0 .. TxCnt - 1 : content'[tx.bufs[s]] = content[tx.bufs[s]]
    BY <1>2, <1>3, <1>4, <1>5, TakeOne
  <2>2. Sending'
    BY <1>1, <1>2, <1>3, <1>5, <2>1, SendingSame
  <2> QED BY <1>3, <2>1, <2>2 DEF VInv
<1>6. CASE XdpTx /\ kind = "net"
  <2> DEFINE t == IF Full(tx) /\ ~cmpl THEN XdpComplete(tx) ELSE tx
  <2>1. t = tx \/ t = XdpComplete(tx)
    OBVIOUS
  <2>2. \/ Full(t) /\ Reuse /\ tx' = t /\ out' = out
        \/ /\ ~Full(t) /\ rx' = Given(Taken, t.bufs[TxIdx(t.wr)]) /\ dev' = TellDevice(dev)
           /\ tx' = [t EXCEPT !.bufs[TxIdx(t.wr)] = RxBuf, !.wr = PtrPlus(@, 1), !.add = @ + 1]
           /\ out' = Append(out, content[RxBuf]) /\ UNCHANGED <<content, alloc, stack>>
    BY <1>6 DEF XdpTx
  <2> HIDE DEF t
  <2>3. CASE Full(t) /\ Reuse /\ tx' = t /\ out' = out
    <3>1. tx' \in TxType /\ tx'.bufs = tx.bufs
      BY <1>1, <1>6, <2>1, <2>3, XdpRing
    <3>2. /\ TypeOK' /\ OnceNow' /\ Receiving'
          /\ dev'.tx_rd = dev.tx_rd /\ dev'.tx_wr = dev.tx_wr
          /\ kind = "net" => \A s \in 0 .. TxCnt - 1 : content'[tx.bufs[s]] = content[tx.bufs[s]]
      BY <1>2, <1>3, <2>3, <3>1, TakeOne
    <3>3. Sending'
      <4>1. sent' <= handed'
        BY <1>1, <1>2 DEF Sending
      <4> QED BY <1>1, <1>2, <1>3, <1>6, <2>1, <2>3, <3>2, SendingThen
    <3> QED BY <1>3, <3>2, <3>3 DEF VInv
  <2>4. CASE /\ ~Full(t) /\ rx' = Given(Taken, t.bufs[TxIdx(t.wr)]) /\ dev' = TellDevice(dev)
             /\ tx' = [t EXCEPT !.bufs[TxIdx(t.wr)] = RxBuf, !.wr = PtrPlus(@, 1), !.add = @ + 1]
             /\ out' = Append(out, content[RxBuf]) /\ UNCHANGED <<content, alloc, stack>>
    <3>1. TypeOK' /\ OnceNow' /\ Receiving' /\ Sending'
      BY <1>2, <1>3, <1>6, <2>1, <2>4, SendBack
    <3> QED BY <1>3, <3>1 DEF VInv
  <2> QED BY <2>2, <2>3, <2>4
<1> QED BY <1>5, <1>6 DEF RxOne, CtrlRxOne

(* The doorbell.                                                           *)
LEMMA FlushIs ==
  ASSUME NEW t \in TxType, NEW d \in DevType, Flush(t, d)
  PROVE  /\ tx' \in TxType /\ dev' \in DevType /\ Flushed(t, d, tx', dev') /\ tx'.bufs = t.bufs
         /\ dev'.fl_wr = d.fl_wr /\ dev'.fl_rd = d.fl_rd /\ tx'.add = 0
<1> DEFINE w == TxIdx(d.tx_wr + t.add)
<1>1. w \in 0 .. TxCnt - 1
  <2>1. d.tx_wr + t.add \in Int /\ TxCnt \in Nat \ {0}
    BY TxTypes, Sizes DEF DevType
  <2> QED BY <2>1, Euclid DEF TxIdx
<1>2. dev' = [d EXCEPT !.tx_wr = w] /\ tx' = [t EXCEPT !.add = 0]
  BY DEF Flush
<1>3. /\ dev'.tx_wr = w /\ dev'.tx_rd = d.tx_rd /\ dev'.fl_wr = d.fl_wr /\ dev'.fl_rd = d.fl_rd
      /\ tx'.add = 0 /\ tx'.wr = t.wr /\ tx'.rd = t.rd /\ tx'.qcp = t.qcp /\ tx'.bufs = t.bufs
  BY <1>2 DEF DevType, TxType
<1>4. Flushed(t, d, tx', dev')
  BY <1>3 DEF Flushed
<1> HIDE DEF w
<1> QED BY <1>1, <1>2, <1>3, <1>4 DEF TxType, DevType

LEMMA StepRxEnd ==
  ASSUME VInv, RxEnd
  PROVE  VInv'
<1>1. /\ TypeOK /\ OnceNow /\ Receiving /\ Sending /\ Modes
  BY DEF VInv
<1>2. /\ pc = "rx" /\ kind = "net" /\ kind' = kind /\ on' = on /\ rx' = rx /\ content' = content
      /\ alloc' = alloc /\ stack' = stack /\ written' = written /\ rcvd' = rcvd /\ last' = last
      /\ out' = out /\ queue' = queue /\ sent' = sent /\ handed' = handed
  BY DEF RxEnd, mode, ctrlVars, rxHist
<1>3. on = "up" /\ Enabled /\ Enabled' /\ Modes'
  BY <1>1, <1>2 DEF Modes, Enabled
<1>4. tx \in TxType /\ dev \in DevType
  BY <1>1, Types
<1>5. \/ Flush(tx, dev)
      \/ (tx' = XdpComplete(tx) \/ tx' = tx) /\ dev' = dev
  BY DEF RxEnd
<1>6. CASE Flush(tx, dev)
  <2>1. /\ tx' \in TxType /\ dev' \in DevType /\ Flushed(tx, dev, tx', dev') /\ tx'.bufs = tx.bufs
        /\ dev'.fl_wr = dev.fl_wr /\ dev'.fl_rd = dev.fl_rd
    BY <1>4, <1>6, FlushIs
  <2>2. TypeOK'
    BY <1>1, <1>2, <2>1 DEF TypeOK, TxType, DevType
  <2>3. OnceNow' /\ Receiving'
    BY <1>1, <1>2, <1>3, <2>1, OnceSame, ReceivingSame
  <2>4. PICK u \in 0 .. TxCnt - 1, v \in 0 .. TxCnt - 1 :
          TxRing(tx, dev, u, v) /\ Frames(tx, u, v, content, out)
    BY <1>1, <1>2 DEF Sending, Transit
  <2>5. u \in Int /\ v \in Int
    BY Sizes
  <2>6. TxRing(tx', dev', u, v)
    BY <1>4, <2>1, <2>4, <2>5, RingFlushed, Zenon
  <2>7. \A k : At(tx', k) = At(tx, k)
    BY <2>1 DEF Flushed, At
  <2>8. Frames(tx', u, v, content', out')
    BY <1>2, <2>1, <2>4, <2>7 DEF Frames
  <2>9. sent' <= handed'
    BY <1>1, <1>2 DEF Sending
  <2>10. Sending'
    BY <1>2, <1>3, <2>6, <2>8, <2>9 DEF Sending, Transit
  <2> QED BY <1>3, <2>2, <2>3, <2>10 DEF VInv
<1>7. CASE (tx' = XdpComplete(tx) \/ tx' = tx) /\ dev' = dev
  <2>1. tx' \in TxType /\ tx'.bufs = tx.bufs
    BY <1>1, <1>2, <1>7, XdpRing
  <2>2. TypeOK'
    BY <1>1, <1>2, <1>7, <2>1 DEF TypeOK, TxType
  <2>3. OnceNow' /\ Receiving'
    BY <1>1, <1>2, <1>3, <1>7, <2>1, OnceSame, ReceivingSame
  <2>4. Sending'
    BY <1>1, <1>2, <1>3, <1>7, <2>2, SendingThen
  <2> QED BY <1>3, <2>2, <2>3, <2>4 DEF VInv
<1> QED BY <1>5, <1>6, <1>7

----------------------------------------------------------------------------
(* Opening and closing.                                                    *)
JustFed ==
  /\ on = "up" /\ rx = Filled(rx.bufs) /\ rx.bufs \in [0 .. Cnt - 1 -> Bufs \cup {NoBuf}]
  /\ dev = DevFilled /\ written \in Nat /\ rcvd = written

LEMMA DevFilledIs ==
  /\ DevFilled \in DevType
  /\ DevFilled.fl_wr = Cnt - 1 - ((Cnt - 1) % FlBatch) /\ DevFilled.fl_wr \in 0 .. Cnt - 1
  /\ DevFilled.fl_rd = 0 /\ DevFilled.tx_rd = 0 /\ DevFilled.tx_wr = 0
<1> DEFINE q == (Cnt - 1) \div FlBatch
           r == (Cnt - 1) % FlBatch
<1>1. FlBatch \in Nat \ {0} /\ FlBatch < Cnt /\ Cnt \in Nat /\ Cnt - 1 \in Int /\ TxCnt \in Nat \ {0}
  BY Sizes
<1>2. Cnt - 1 = FlBatch * q + r /\ r \in 0 .. FlBatch - 1 /\ q \in Int
  BY <1>1, Euclid
<1>3. DevFilled.fl_wr = q * FlBatch
  BY DEF DevFilled
<1> HIDE DEF q, r
<1>4. q * FlBatch = FlBatch * q
  BY <1>1, <1>2
<1>5. q * FlBatch = Cnt - 1 - r
  BY <1>1, <1>2, <1>4
<1>6. Cnt - 1 - r \in 0 .. Cnt - 1
  BY <1>1, <1>2
<1>7. DevFilled.fl_wr = Cnt - 1 - r /\ DevFilled.fl_wr \in 0 .. Cnt - 1
  BY <1>3, <1>5, <1>6
<1>8. DevFilled.fl_rd = 0 /\ DevFilled.tx_rd = 0 /\ DevFilled.tx_wr = 0
      /\ DevFilled = [fl_wr |-> DevFilled.fl_wr, fl_rd |-> 0, tx_wr |-> 0, tx_rd |-> 0]
  BY DEF DevFilled
<1>9. 0 \in 0 .. Cnt - 1 /\ 0 \in 0 .. TxCnt - 1
  BY <1>1
<1>10. DevFilled \in DevType
  BY <1>7, <1>8, <1>9 DEF DevType
<1> QED BY <1>7, <1>8, <1>10 DEF r

LEMMA FedRing == JustFed => RxRing /\ rx \in RxType /\ RxSlots = 0 .. Cnt - 2
<1> SUFFICES ASSUME JustFed PROVE RxRing /\ rx \in RxType /\ RxSlots = 0 .. Cnt - 2
  OBVIOUS
<1>1. /\ Cnt \in Nat \ {0} /\ PtrMod \in Nat \ {0} /\ FlBatch \in Nat \ {0} /\ Cnt <= PtrMod
      /\ Cnt > 1 /\ Cnt - 1 \in 0 .. PtrMod - 1 /\ 0 \in 0 .. PtrMod - 1 /\ Cnt - 1 \in Int
  BY Sizes, PointersFit
<1>2. /\ rx.wr = Cnt - 1 /\ rx.rd = 0
      /\ rx.ds = [s \in 0 .. Cnt - 1 |->
                    IF s < Cnt - 1 THEN [dd |-> FALSE, buf |-> rx.bufs[s]] ELSE NoDesc]
      /\ rx = [wr |-> rx.wr, rd |-> rx.rd, bufs |-> rx.bufs, ds |-> rx.ds]
  BY DEF JustFed, Filled
<1>3. \A k \in 0 .. Cnt - 1 : RxSlot(k) = k
  <2>1. ASSUME NEW k \in 0 .. Cnt - 1 PROVE RxSlot(k) = k
    <3>1. 0 + k = k
      BY <1>1
    <3>2. k % Cnt = k
      BY <1>1, ModSmall, Zenon
    <3> QED BY <1>2, <3>1, <3>2 DEF RxSlot, Entry
  <2> QED BY <2>1
<1>4. rx.wr = (rx.rd + (Cnt - 1)) % PtrMod
  <2>1. (Cnt - 1) % PtrMod = Cnt - 1
    BY <1>1, ModSmall, Zenon
  <2>2. 0 + (Cnt - 1) = Cnt - 1
    BY <1>1
  <2> QED BY <1>2, <2>1, <2>2
<1>5. \A s \in 0 .. Cnt - 1 : rx.bufs[s] \in Bufs \cup {NoBuf}
  BY DEF JustFed
<1>6. rx \in RxType
  <2> DEFINE D == [dd : BOOLEAN, buf : Bufs \cup {NoBuf}]
  <2>1. \A s \in 0 .. Cnt - 1 : [dd |-> FALSE, buf |-> rx.bufs[s]] \in D
    BY <1>5
  <2>2. NoDesc \in D
    BY DEF NoDesc
  <2> HIDE DEF D
  <2>3. rx.ds \in [0 .. Cnt - 1 -> D]
    BY <1>2, <2>1, <2>2
  <2>4. rx.bufs \in [0 .. Cnt - 1 -> Bufs \cup {NoBuf}] /\ rx.wr \in 0 .. PtrMod - 1
        /\ rx.rd \in 0 .. PtrMod - 1
    BY <1>1, <1>2 DEF JustFed
  <2> QED BY <1>2, <2>3, <2>4 DEF D, RxType
<1>7. Filling = 0 /\ Known = Cnt - 1 - ((Cnt - 1) % FlBatch)
  BY <1>2 DEF JustFed, Filling, Known
<1>8. dev.fl_rd = RxSlot(0) /\ dev.fl_wr = RxSlot(Known) /\ Known \in 0 .. Cnt - 1
  <2>1. 0 \in 0 .. Cnt - 1
    BY <1>1
  <2>2. dev.fl_wr = Known /\ Known \in 0 .. Cnt - 1 /\ dev.fl_rd = 0
    BY <1>7, DevFilledIs DEF JustFed
  <2> QED BY <1>3, <2>1, <2>2
<1>9. \A k \in 0 .. Cnt - 2 : k \in 0 .. Cnt - 1 /\ k < Cnt - 1 /\ ~(k < 0)
  BY <1>1
<1>10. \A k \in 0 .. Cnt - 2 : /\ rx.ds[RxSlot(k)].dd <=> k < 0
                              /\ rx.ds[RxSlot(k)].buf = rx.bufs[RxSlot(k)]
  <2>1. ASSUME NEW k \in 0 .. Cnt - 2
        PROVE  /\ rx.ds[RxSlot(k)].dd <=> k < 0
               /\ rx.ds[RxSlot(k)].buf = rx.bufs[RxSlot(k)]
    <3>1. rx.ds[k] = [dd |-> FALSE, buf |-> rx.bufs[k]]
      BY <1>2, <1>9
    <3>2. rx.ds[k].dd = FALSE /\ rx.ds[k].buf = rx.bufs[k]
      BY <3>1
    <3> QED BY <1>3, <1>9, <3>2
  <2> QED BY <2>1
<1>11. 0 \in 0 .. Known /\ \A k \in 0 .. 0 - 1 : FALSE
  BY <1>8, <1>1
<1>12. RxRing
  BY <1>4, <1>7, <1>8, <1>10, <1>11 DEF RxRing
<1>13. RxSlots = 0 .. Cnt - 2
  <2>1. /\ ~(rx.wr = 0 /\ rx.rd = 0)
        /\ {RxIdx(rx.rd + k) : k \in 0 .. PtrMinus(rx.wr, rx.rd) - 1}
             = {Entry(Cnt, rx.rd, k) : k \in 0 .. Cnt - 2}
    <3>1. rx.wr \in 0 .. PtrMod - 1 /\ rx.rd \in 0 .. PtrMod - 1
      BY <1>1, <1>2
    <3> QED BY <1>4, <3>1, FedIs
  <2>2. RxSlots = {RxSlot(k) : k \in 0 .. Cnt - 2}
    BY <2>1 DEF RxSlots, NeverFed, RxSlot, JustFed
  <2>3. \A k \in 0 .. Cnt - 2 : RxSlot(k) = k
    BY <1>3, <1>9
  <2> QED BY <2>2, <2>3
<1> QED BY <1>6, <1>12, <1>13

LEMMA FedRingNext == JustFed' => RxRing' /\ (rx \in RxType)' /\ (RxSlots = 0 .. Cnt - 2)'
BY FedRing, PTL

LEMMA EmptyRing ==
  ASSUME NEW t, NEW d, t.wr = 0, t.rd = 0, t.qcp = 0, t.add = 0, d.tx_rd = 0, d.tx_wr = 0
  PROVE  TxRing(t, d, 0, 0)
<1>1. TxCnt \in Nat \ {0} /\ PtrMod \in Nat \ {0} /\ 0 \in 0 .. TxCnt - 1 /\ 0 \in 0 .. PtrMod - 1
      /\ 0 + 0 = 0 /\ 0 - 0 = 0
  BY Sizes
<1>2. 0 % TxCnt = 0 /\ 0 % PtrMod = 0
  BY <1>1, ModSmall
<1>3. At(t, 0) = 0
  BY <1>1, <1>2 DEF At, Entry
<1> QED BY <1>1, <1>2, <1>3 DEF TxRing

(* While the vector is down, nothing is on its way.                        *)
LEMMA DownMeans ==
  ASSUME VInv, on # "up"
  PROVE  /\ kind = "net" /\ pc = "idle"
         /\ ~Enabled => dev.tx_rd = 0 /\ dev.tx_wr = 0 /\ Len(out) = 0 /\ tx.wr = 0 /\ tx.rd = 0
                        /\ tx.add = 0 /\ tx.qcp = 0
<1>1. /\ TypeOK /\ Sending /\ Modes
  BY DEF VInv
<1>2. kind = "net" /\ pc = "idle"
  BY <1>1 DEF TypeOK, Modes
<1>3. ASSUME ~Enabled
      PROVE  dev.tx_rd = 0 /\ dev.tx_wr = 0 /\ Len(out) = 0 /\ tx.wr = 0 /\ tx.rd = 0
             /\ tx.add = 0 /\ tx.qcp = 0
  <2>1. tx.rd = 0 /\ tx.wr = 0 /\ tx \in TxType
    BY <1>1, <1>3, Types DEF Sending
  <2>2. PICK u \in 0 .. TxCnt - 1, v \in 0 .. TxCnt - 1 :
          TxRing(tx, dev, u, v) /\ Frames(tx, u, v, content, out)
    BY <1>1, <1>2 DEF Sending, Transit
  <2>3. /\ TxCnt \in Nat \ {0} /\ PtrMod \in Nat \ {0} /\ TxCnt <= PtrMod /\ u \in 0 .. PtrMod - 1
        /\ u \in Int /\ v \in Int /\ v >= 0 /\ tx.add \in Nat /\ 0 \in 0 .. TxCnt - 1
        /\ 0 + u = u /\ 0 + 0 = 0
    BY <2>1, Sizes, PointersFit, TxTypes
  <2>4. u = 0
    <3>1. tx.wr = (0 + u) % PtrMod
      BY <2>1, <2>2 DEF TxRing
    <3>2. u % PtrMod = u
      BY <2>3, ModSmall, Zenon
    <3> QED BY <2>1, <2>3, <3>1, <3>2
  <2>5. v + tx.add <= 0
    BY <2>2, <2>4 DEF TxRing
  <2>6. v = 0 /\ tx.add = 0 /\ u - v = 0 /\ u - tx.add = 0
    BY <2>3, <2>4, <2>5
  <2>7. At(tx, 0) = 0
    <3>1. 0 % TxCnt = 0
      BY <2>3, ModSmall, Zenon
    <3> QED BY <2>1, <2>3, <3>1 DEF At, Entry
  <2>8. dev.tx_rd = At(tx, v) /\ dev.tx_wr = At(tx, u - tx.add) /\ Len(out) = u - v
        /\ tx.qcp = At(tx, 0)
    BY <2>2 DEF TxRing, Frames
  <2> QED BY <2>1, <2>6, <2>7, <2>8
<1> QED BY <1>2, <1>3

LEMMA NothingToSend ==
  ASSUME kind' = "net", sent' <= handed', Len(out') = 0,
         tx'.wr = 0, tx'.rd = 0, tx'.qcp = 0, tx'.add = 0, dev'.tx_rd = 0, dev'.tx_wr = 0
  PROVE  Sending'
<1>1. TxRing(tx', dev', 0, 0)
  BY EmptyRing
<1>2. Frames(tx', 0, 0, content', out')
  BY DEF Frames
<1>3. 0 \in 0 .. TxCnt - 1
  BY Sizes
<1> QED BY <1>1, <1>2, <1>3 DEF Sending, Transit

LEMMA StepReset ==
  ASSUME VInv, DisableAndReset
  PROVE  VInv'
<1>1. /\ TypeOK /\ OnceNow /\ Receiving /\ Sending /\ Modes
  BY DEF VInv
<1>2. /\ on \in {"closing", "reset"} /\ on' = "reset" /\ rx' = RxReset /\ tx' = EmptyTx(tx.bufs)
      /\ dev' = [fl_wr |-> 0, fl_rd |-> 0, tx_wr |-> 0, tx_rd |-> 0]
      /\ rcvd' = written /\ last' = written /\ written' = written
      /\ content' = [b \in Bufs |-> 0] /\ out' = <<>>
      /\ kind' = kind /\ pc' = pc /\ alloc' = alloc /\ stack' = stack
      /\ queue' = queue /\ sent' = sent /\ handed' = handed
  BY DEF DisableAndReset, pollVars, ctrlVars
<1>3. kind = "net" /\ pc = "idle" /\ Modes' /\ ~Enabled'
  BY <1>2, DownMeans DEF Modes, Enabled
<1>4. /\ tx \in TxType /\ rx \in RxType /\ written \in Nat /\ sent <= handed
  BY <1>1, Types DEF Sending
<1>5. /\ Cnt \in Nat \ {0} /\ Cnt > 1 /\ Cnt - 1 \in 0 .. Cnt - 1 /\ 0 \in 0 .. Cnt - 1
      /\ 0 \in 0 .. TxCnt - 1 /\ 0 \in 0 .. PtrMod - 1 /\ Cnt - 1 \in Int
      /\ \A s : s \in 0 .. Cnt - 2 <=> s \in 0 .. Cnt - 1 /\ s # Cnt - 1
  BY Sizes
<1>6. /\ tx'.wr = 0 /\ tx'.rd = 0 /\ tx'.add = 0 /\ tx'.qcp = 0 /\ tx'.bufs = tx.bufs /\ tx' \in TxType
  <2>1. tx.bufs \in [0 .. TxCnt - 1 -> Nat] /\ 0 \in Nat
    BY <1>4, TxTypes
  <2> QED BY <1>2, <1>5, <2>1 DEF EmptyTx, TxType
<1>7. dev'.tx_rd = 0 /\ dev'.tx_wr = 0 /\ dev' \in DevType
  BY <1>2, <1>5 DEF DevType
<1>8. Sending'
  <2>1. sent' <= handed' /\ Len(out') = 0 /\ kind' = "net"
    BY <1>2, <1>3, <1>4
  <2> QED BY <1>6, <1>7, <2>1, NothingToSend
<1>9. TxSlots' = TxSlots
  BY <1>2 DEF TxSlots
<1>12. ASSUME rx' \in RxType, OnceNow', Receiving' PROVE VInv'
  <2>1. content' \in [Bufs -> Nat] /\ out' \in Seq(Nat)
    BY <1>2
  <2>2. TypeOK'
    BY ZenonT(60), <1>1, <1>2, <1>6, <1>7, <1>12, <2>1 DEF TypeOK, RxType, TxType, DevType
  <2> QED BY <1>3, <1>8, <1>12, <2>2 DEF VInv
<1>10. CASE on = "reset"
  <2>1. RxEmpty /\ NeverFed(rx) /\ rx' = rx
    BY <1>1, <1>2, <1>10 DEF Receiving, Enabled, RxEmpty, NeverFed, RxReset
  <2>2. OnceNow'
    BY <1>1, <1>2, <1>6, <1>10, <2>1, OnceSame
  <2>3. Receiving'
    BY <1>2, <1>3, <2>1 DEF Receiving, RxEmpty
  <2>4. rx' \in RxType
    BY <1>4, <2>1
  <2> QED BY <2>2, <2>3, <2>4, <1>12
<1>11. CASE on = "closing"
  <2> DEFINE e == RxSlot(Cnt - 1)
             a == Cnt - 1
  <2>1. RxRing /\ ~NeverFed(rx) /\ RxIdx(rx.wr) = e
        /\ RxSlots = {RxSlot(k) : k \in 0 .. Cnt - 2}
    BY <1>1, <1>11, RxFed DEF Receiving, Enabled
  <2>2. rx' = [wr |-> 0, rd |-> 0,
               bufs |-> [rx.bufs EXCEPT ![e] = rx.bufs[Cnt - 1], ![Cnt - 1] = NoBuf],
               ds |-> [s \in 0 .. Cnt - 1 |-> NoDesc]]
    BY <1>2, <2>1 DEF RxReset
  <2>3. e \in 0 .. Cnt - 1
    BY <1>1, <1>5, RxSlotIs
  <2>4. RxSlots = (0 .. Cnt - 1) \ {e}
    <3>1. ASSUME NEW k \in 0 .. Cnt - 2 PROVE RxSlot(k) \in (0 .. Cnt - 1) \ {e}
      <4>1. k \in 0 .. Cnt - 1 /\ k \in Int /\ k # Cnt - 1
        BY <1>5
      <4> QED BY <1>1, <1>5, <4>1, RxSlotIs, RxSlotOnce
    <3>2. ASSUME NEW s \in 0 .. Cnt - 1, s # e PROVE s \in RxSlots
      <4>1. \E k \in 0 .. Cnt - 1 : Entry(Cnt, rx.rd, k) = s
        BY <1>1, <1>5, RxTypes, EntryOfAll
      <4>2. PICK k \in 0 .. Cnt - 1 : RxSlot(k) = s
        BY <4>1 DEF RxSlot
      <4>3. k # Cnt - 1
        BY <3>2, <4>2
      <4>4. k \in 0 .. Cnt - 2
        BY <1>5, <4>3
      <4> QED BY <2>1, <4>2, <4>4
    <3> QED BY <2>1, <3>1, <3>2
  <2> HIDE DEF e
  <2>5. rx.bufs \in [0 .. Cnt - 1 -> Bufs \cup {NoBuf}]
    BY <1>4 DEF RxType
  <2>6. /\ rx'.wr = 0 /\ rx'.rd = 0
        /\ rx'.bufs = [rx.bufs EXCEPT ![e] = rx.bufs[Cnt - 1], ![Cnt - 1] = NoBuf]
        /\ rx'.ds = [s \in 0 .. Cnt - 1 |-> NoDesc]
        /\ rx' = [wr |-> rx'.wr, rd |-> rx'.rd, bufs |-> rx'.bufs, ds |-> rx'.ds]
    BY <2>2
  <2>7. rx' \in RxType
    <3>1. rx'.bufs \in [0 .. Cnt - 1 -> Bufs \cup {NoBuf}]
      BY <1>5, <2>3, <2>5, <2>6
    <3>2. NoDesc \in [dd : BOOLEAN, buf : Bufs \cup {NoBuf}]
      BY DEF NoDesc
    <3>3. rx'.ds \in [0 .. Cnt - 1 -> [dd : BOOLEAN, buf : Bufs \cup {NoBuf}]]
      <4> DEFINE D == [dd : BOOLEAN, buf : Bufs \cup {NoBuf}]
      <4>1. NoDesc \in D
        BY <3>2
      <4> HIDE DEF D
      <4>2. rx'.ds \in [0 .. Cnt - 1 -> D]
        BY <2>6, <4>1
      <4> QED BY <4>2 DEF D
    <3> QED BY <1>5, <2>6, <3>1, <3>3 DEF RxType
  <2>8. RxSlots' = 0 .. Cnt - 2
    BY <1>2, <2>6 DEF RxSlots, NeverFed
  <2>9. OnceNow'
    <3>1. Once(RxSlots, rx.bufs, TxSlots, tx.bufs, stack, alloc)
      BY <1>1 DEF OnceNow
    <3>2. CASE e = Cnt - 1
      <4>1. RxSlots' = RxSlots
        BY <1>5, <2>4, <2>8, <3>2
      <4>2. \A s \in RxSlots : rx'.bufs[s] = rx.bufs[s]
        BY <2>4, <2>5, <2>6, <3>2
      <4> QED BY <1>2, <1>6, <1>9, <3>1, <4>1, <4>2 DEF OnceNow, Once
    <3>3. CASE e # Cnt - 1
      <4>1. RxSlots' = (RxSlots \ {Cnt - 1}) \cup {e} /\ Cnt - 1 \in RxSlots /\ e \notin RxSlots
        BY <1>5, <2>3, <2>4, <2>8, <3>3
      <4>2. /\ \A s \in RxSlots \ {Cnt - 1} : rx'.bufs[s] = rx.bufs[s]
            /\ rx'.bufs[e] = rx.bufs[Cnt - 1]
        BY <2>3, <2>4, <2>5, <2>6, <3>3
      <4>3. Once((RxSlots \ {Cnt - 1}) \cup {e}, rx'.bufs, TxSlots, tx.bufs, stack, alloc)
        BY <3>1, <4>1, <4>2, OnceMoved
      <4> QED BY <1>2, <1>6, <1>9, <4>1, <4>3 DEF OnceNow
    <3> QED BY <3>2, <3>3
  <2>10. Receiving'
    BY <1>2, <1>3, <2>6 DEF Receiving, RxEmpty
  <2> QED BY <2>7, <2>9, <2>10, <1>12
<1> QED BY <1>2, <1>10, <1>11

LEMMA StepBufsFree ==
  ASSUME VInv, BufsFree
  PROVE  VInv'
<1>1. /\ TypeOK /\ OnceNow /\ Receiving /\ Sending /\ Modes
  BY DEF VInv
<1>2. /\ on = "reset" /\ on' = "empty"
      /\ alloc' = alloc \ ({rx.bufs[s] : s \in 0 .. Cnt - 2}
                           \cup {tx.bufs[s] : s \in 0 .. TxCnt - 1})
      /\ rx' = [rx EXCEPT !.bufs = [s \in 0 .. Cnt - 1 |->
                                      IF s < Cnt - 1 THEN NoBuf ELSE rx.bufs[s]]]
      /\ tx' = EmptyTx([s \in 0 .. TxCnt - 1 |-> NoBuf])
      /\ dev' = dev /\ content' = content /\ written' = written /\ rcvd' = rcvd /\ last' = last
      /\ out' = out /\ kind' = kind /\ pc' = pc /\ stack' = stack
      /\ queue' = queue /\ sent' = sent /\ handed' = handed
  BY DEF BufsFree, pollVars, ctrlVars, rxHist
<1>3. /\ kind = "net" /\ pc = "idle" /\ Modes' /\ ~Enabled' /\ ~Enabled
      /\ dev.tx_rd = 0 /\ dev.tx_wr = 0 /\ Len(out) = 0
  BY <1>2, DownMeans DEF Modes, Enabled
<1>4. tx \in TxType /\ rx \in RxType /\ sent <= handed
  BY <1>1, Types DEF Sending
<1>5. tx'.wr = 0 /\ tx'.rd = 0 /\ tx'.add = 0 /\ tx'.qcp = 0 /\ tx' \in TxType
  <2>1. 0 \in 0 .. TxCnt - 1 /\ 0 \in 0 .. PtrMod - 1 /\ 0 \in Nat
    BY Sizes
  <2>2. tx' = [wr |-> 0, rd |-> 0, add |-> 0, qcp |-> 0, bufs |-> [s \in 0 .. TxCnt - 1 |-> 0]]
    BY <1>2 DEF EmptyTx, NoBuf
  <2> QED BY <2>1, <2>2 DEF TxType
<1>6. Sending'
  <2>1. /\ kind' = "net" /\ sent' <= handed' /\ Len(out') = 0
        /\ dev'.tx_rd = 0 /\ dev'.tx_wr = 0
    BY <1>2, <1>3, <1>4
  <2> QED BY <1>5, <2>1, NothingToSend
<1>7. RxEmpty
  BY <1>1, <1>3 DEF Receiving
<1>8. rx'.wr = rx.wr /\ rx'.rd = rx.rd /\ rx' \in RxType
  <2>1. rx.bufs \in [0 .. Cnt - 1 -> Bufs \cup {NoBuf}]
    BY <1>4 DEF RxType
  <2> DEFINE bs == [s \in 0 .. Cnt - 1 |-> IF s < Cnt - 1 THEN NoBuf ELSE rx.bufs[s]]
  <2>2. bs \in [0 .. Cnt - 1 -> Bufs \cup {NoBuf}]
    BY <2>1
  <2>3. rx' = [rx EXCEPT !.bufs = bs]
    BY <1>2
  <2> HIDE DEF bs
  <2> QED BY <1>4, <2>2, <2>3 DEF RxType
<1>9. Receiving'
  BY <1>1, <1>2, <1>3, <1>7, <1>8 DEF Receiving, RxEmpty
<1>10. OnceNow'
  <2>1. RxSlots = 0 .. Cnt - 2 /\ TxSlots = 0 .. TxCnt - 1
    BY <1>2, <1>3, <1>7 DEF RxSlots, TxSlots, NeverFed, RxEmpty
  <2>2. RxSlots' = {} /\ TxSlots' = {}
    BY <1>2 DEF RxSlots, TxSlots
  <2>3. \A b \in alloc' : b \in stack
    BY <1>1, <1>2, <2>1 DEF OnceNow, Once
  <2>4. \A b \in stack : b \in alloc'
    BY <1>1, <1>2, <2>1 DEF OnceNow, Once
  <2>5. Once({}, rx'.bufs, {}, tx'.bufs, stack, alloc')
    BY <2>3, <2>4 DEF Once
  <2> QED BY <1>2, <2>2, <2>5 DEF OnceNow
<1>11. TypeOK'
  <2>1. alloc' \subseteq Bufs
    BY <1>1, <1>2 DEF TypeOK
  <2> QED BY <1>1, <1>2, <1>5, <1>8, <2>1 DEF TypeOK, TxType, RxType
<1> QED BY <1>3, <1>6, <1>9, <1>10, <1>11 DEF VInv

LEMMA StepBufsAlloc ==
  ASSUME VInv, BufsAlloc
  PROVE  VInv'
<1> DEFINE N == Cnt - 1 + TxCnt
           F == [n \in 1 .. N |-> Fresh(n)]
<1>1. /\ TypeOK /\ OnceNow /\ Receiving /\ Sending /\ Modes
  BY DEF VInv
<1>2. /\ on = "empty" /\ CanAlloc(N) /\ on' = "reset"
      /\ rx' = [wr |-> 0, rd |-> 0, ds |-> [s \in 0 .. Cnt - 1 |-> NoDesc],
                bufs |-> [s \in 0 .. Cnt - 1 |->
                            IF s < Cnt - 1 THEN Fresh(s + 1) ELSE NoBuf]]
      /\ tx' = EmptyTx([s \in 0 .. TxCnt - 1 |-> Fresh(Cnt + s)])
      /\ alloc' = alloc \cup {Fresh(n) : n \in 1 .. N}
      /\ dev' = dev /\ content' = content /\ written' = written /\ rcvd' = rcvd /\ last' = last
      /\ out' = out /\ kind' = kind /\ pc' = pc /\ stack' = stack
      /\ queue' = queue /\ sent' = sent /\ handed' = handed
  BY DEF BufsAlloc, pollVars, ctrlVars, rxHist
<1>3. /\ kind = "net" /\ pc = "idle" /\ Modes' /\ ~Enabled' /\ ~Enabled
      /\ dev.tx_rd = 0 /\ dev.tx_wr = 0 /\ Len(out) = 0
  BY <1>2, DownMeans DEF Modes, Enabled
<1>4. /\ Cnt \in Nat /\ TxCnt \in Nat /\ Cnt > 1 /\ TxCnt > 0 /\ N \in Nat /\ N >= 1
      /\ \A s \in 0 .. Cnt - 2 : s < Cnt - 1 /\ s \in 0 .. Cnt - 1 /\ s + 1 \in 1 .. N /\ s \in Int
      /\ \A s \in 0 .. TxCnt - 1 : Cnt + s \in 1 .. N /\ s \in Int
      /\ \A s \in 0 .. Cnt - 1 : s < Cnt - 1 => s \in 0 .. Cnt - 2
      /\ \A n \in 1 .. N : \/ n - 1 \in 0 .. Cnt - 2 /\ n = (n - 1) + 1
                           \/ n - Cnt \in 0 .. TxCnt - 1 /\ n = Cnt + (n - Cnt)
  BY Sizes
<1> HIDE DEF N
<1>5. \A n \in 1 .. N : Fresh(n) \in Bufs /\ Fresh(n) \notin alloc
  BY <1>2, <1>4, FreshIs
<1>6. \A i, j \in 1 .. N : Fresh(i) = Fresh(j) => i = j
  BY <1>2, <1>4, FreshApart
<1>7. \A n \in 1 .. N : Fresh(n) = F[n]
  OBVIOUS
<1>8. /\ \A n \in 1 .. N : F[n] \in Bufs /\ F[n] \notin alloc
      /\ \A i, j \in 1 .. N : F[i] = F[j] => i = j
  BY <1>5, <1>6, <1>7
<1>9. /\ rx'.wr = 0 /\ rx'.rd = 0 /\ rx'.ds = [s \in 0 .. Cnt - 1 |-> NoDesc]
      /\ rx' = [wr |-> 0, rd |-> 0, bufs |-> rx'.bufs, ds |-> rx'.ds]
      /\ rx'.bufs = [s \in 0 .. Cnt - 1 |-> IF s < Cnt - 1 THEN Fresh(s + 1) ELSE NoBuf]
  BY <1>2
<1>10. tx'.wr = 0 /\ tx'.rd = 0 /\ tx'.add = 0 /\ tx'.qcp = 0
       /\ tx' = [wr |-> 0, rd |-> 0, add |-> 0, qcp |-> 0, bufs |-> tx'.bufs]
       /\ tx'.bufs = [s \in 0 .. TxCnt - 1 |-> Fresh(Cnt + s)]
  BY <1>2 DEF EmptyTx
<1>11. alloc' = alloc \cup {F[n] : n \in 1 .. N}
  BY <1>2, <1>7
<1>12. /\ \A s \in 0 .. Cnt - 2 : rx'.bufs[s] = F[s + 1]
       /\ \A s \in 0 .. TxCnt - 1 : tx'.bufs[s] = F[Cnt + s]
  BY <1>4, <1>7, <1>9, <1>10
<1> HIDE DEF F
<1>13. rx' \in RxType
  <2>1. rx'.bufs \in [0 .. Cnt - 1 -> Bufs \cup {NoBuf}]
    <3>1. \A s \in 0 .. Cnt - 1 : (IF s < Cnt - 1 THEN Fresh(s + 1) ELSE NoBuf) \in Bufs \cup {NoBuf}
      BY <1>4, <1>5
    <3> QED BY <1>9, <3>1
  <2> DEFINE D == [dd : BOOLEAN, buf : Bufs \cup {NoBuf}]
  <2>2. NoDesc \in D
    BY DEF NoDesc
  <2> HIDE DEF D
  <2>3. rx'.ds \in [0 .. Cnt - 1 -> D]
    BY <1>9, <2>2
  <2>4. 0 \in 0 .. PtrMod - 1
    BY Sizes
  <2> QED BY <1>9, <2>1, <2>3, <2>4 DEF D, RxType
<1>14. tx' \in TxType
  <2>1. \A s \in 0 .. TxCnt - 1 : Fresh(Cnt + s) \in Nat
    BY <1>4, <1>5, Sizes
  <2>2. tx'.bufs \in [0 .. TxCnt - 1 -> Nat]
    BY <1>10, <2>1
  <2>3. 0 \in 0 .. PtrMod - 1 /\ 0 \in 0 .. TxCnt - 1 /\ 0 \in Nat
    BY Sizes
  <2> QED BY <1>10, <2>2, <2>3 DEF TxType
<1>15. Sending'
  <2>1. /\ kind' = "net" /\ sent' <= handed' /\ Len(out') = 0
        /\ dev'.tx_rd = 0 /\ dev'.tx_wr = 0
    BY <1>1, <1>2, <1>3 DEF Sending
  <2> QED BY <1>10, <2>1, NothingToSend
<1>16. Receiving'
  <2>1. RxEmpty /\ last = rcvd
    BY <1>1, <1>3 DEF Receiving
  <2> QED BY <1>2, <1>3, <1>9, <2>1 DEF Receiving, RxEmpty
<1>17. OnceNow'
  <2>1. RxSlots' = 0 .. Cnt - 2 /\ TxSlots' = 0 .. TxCnt - 1
    BY <1>2, <1>3, <1>9 DEF RxSlots, TxSlots, NeverFed
  <2>2. stack \subseteq alloc /\ alloc \subseteq stack
    <3>1. RxSlots = {} /\ TxSlots = {}
      BY <1>2 DEF RxSlots, TxSlots
    <3> QED BY <1>1, <3>1 DEF OnceNow, Once
  <2> DEFINE al == alloc \cup {F[n] : n \in 1 .. N}
             rs == 0 .. Cnt - 2
             ts == 0 .. TxCnt - 1
  <2>3. \A s, t \in rs : rx'.bufs[s] = rx'.bufs[t] => s = t
    <3>1. \A s, t \in rs : s + 1 = t + 1 => s = t
      BY <1>4
    <3> QED BY <1>4, <1>8, <1>12, <3>1
  <2>4. \A s, t \in ts : tx'.bufs[s] = tx'.bufs[t] => s = t
    <3>1. \A s, t \in ts : Cnt + s = Cnt + t => s = t
      BY <1>4
    <3> QED BY <1>4, <1>8, <1>12, <3>1
  <2>5. \A s \in rs, t \in ts : rx'.bufs[s] # tx'.bufs[t]
    <3>1. \A s \in rs, t \in ts : s + 1 # Cnt + t
      BY <1>4
    <3> QED BY <1>4, <1>8, <1>12, <3>1
  <2>6. /\ \A s \in rs : rx'.bufs[s] \in al /\ rx'.bufs[s] \notin stack
        /\ \A t \in ts : tx'.bufs[t] \in al /\ tx'.bufs[t] \notin stack
    BY <1>4, <1>8, <1>12, <2>2
  <2>7. ASSUME NEW b \in al
        PROVE (\E s \in rs : rx'.bufs[s] = b) \/ (\E t \in ts : tx'.bufs[t] = b) \/ b \in stack
    <3>1. CASE b \in alloc
      BY <2>2, <3>1
    <3>2. ASSUME NEW n \in 1 .. N, b = F[n]
          PROVE  (\E s \in rs : rx'.bufs[s] = b) \/ (\E t \in ts : tx'.bufs[t] = b)
      <4>1. CASE n - 1 \in 0 .. Cnt - 2 /\ n = (n - 1) + 1
        <5>1. rx'.bufs[n - 1] = F[n]
          BY <1>12, <4>1
        <5> QED BY <3>2, <4>1, <5>1
      <4>2. CASE n - Cnt \in 0 .. TxCnt - 1 /\ n = Cnt + (n - Cnt)
        <5>1. tx'.bufs[n - Cnt] = F[n]
          BY <1>12, <4>2
        <5> QED BY <3>2, <4>2, <5>1
      <4> QED BY <1>4, <4>1, <4>2
    <3> QED BY <3>1, <3>2
  <2>8. stack \subseteq al
    BY <2>2
  <2> HIDE DEF al, rs, ts
  <2>9. Once(rs, rx'.bufs, ts, tx'.bufs, stack, al)
    BY <2>3, <2>4, <2>5, <2>6, <2>7, <2>8 DEF Once
  <2> QED BY <1>2, <1>11, <2>1, <2>9 DEF OnceNow, al, rs, ts
<1>18. TypeOK'
  <2>1. alloc' \subseteq Bufs
    <3>1. alloc \subseteq Bufs
      BY <1>1 DEF TypeOK
    <3> QED BY <1>8, <1>11, <3>1
  <2> QED BY <1>1, <1>2, <1>13, <1>14, <2>1 DEF TypeOK, TxType, RxType
<1> QED BY <1>3, <1>15, <1>16, <1>17, <1>18 DEF VInv

LEMMA StepOpen ==
  ASSUME VInv, Open
  PROVE  VInv'
<1>1. /\ TypeOK /\ OnceNow /\ Receiving /\ Sending /\ Modes
  BY DEF VInv
<1>2. /\ on = "reset" /\ on' = "up" /\ rx' = Filled(rx.bufs) /\ dev' = DevFilled
      /\ tx' = tx /\ content' = content /\ written' = written /\ rcvd' = rcvd /\ last' = last
      /\ out' = out /\ kind' = kind /\ pc' = pc /\ stack' = stack /\ alloc' = alloc
      /\ queue' = queue /\ sent' = sent /\ handed' = handed
  BY DEF Open, pollVars, ctrlVars, rxHist
<1>3. /\ kind = "net" /\ Modes' /\ Enabled' /\ ~Enabled
      /\ Len(out) = 0 /\ tx.wr = 0 /\ tx.rd = 0 /\ tx.add = 0 /\ tx.qcp = 0
  BY <1>2, DownMeans DEF Modes, Enabled
<1>4. rx.bufs \in [0 .. Cnt - 1 -> Bufs \cup {NoBuf}] /\ written \in Nat
  BY <1>1, RxTypes
<1>5. RxEmpty /\ last = rcvd
  BY <1>1, <1>3 DEF Receiving
<1>6. rx'.bufs = rx.bufs
  BY <1>2 DEF Filled
<1>7. JustFed'
  BY <1>2, <1>4, <1>5, <1>6 DEF JustFed, RxEmpty
<1>8. RxRing' /\ rx' \in RxType /\ RxSlots' = 0 .. Cnt - 2
  BY <1>7, FedRingNext
<1>9. Receiving'
  BY <1>2, <1>3, <1>5, <1>8 DEF Receiving
<1>10. dev'.tx_rd = 0 /\ dev'.tx_wr = 0 /\ dev' \in DevType
  BY <1>2, DevFilledIs
<1>11. Sending'
  <2>1. /\ kind' = "net" /\ sent' <= handed' /\ Len(out') = 0
        /\ tx'.wr = 0 /\ tx'.rd = 0 /\ tx'.add = 0 /\ tx'.qcp = 0
    BY <1>1, <1>2, <1>3 DEF Sending
  <2> QED BY <1>10, <2>1, NothingToSend
<1>12. OnceNow'
  <2>1. RxSlots = 0 .. Cnt - 2
    BY <1>2, <1>5 DEF RxSlots, NeverFed, RxEmpty
  <2>2. TxSlots' = TxSlots
    BY <1>2 DEF TxSlots
  <2> QED BY <1>1, <1>2, <1>6, <1>8, <2>1, <2>2 DEF OnceNow
<1>13. TypeOK'
  BY <1>1, <1>2, <1>8, <1>10 DEF TypeOK, RxType, DevType
<1> QED BY <1>3, <1>9, <1>11, <1>12, <1>13 DEF VInv

(* The ring when the driver starts.                                        *)
LEMMA InitVInv == Init => VInv
<1> SUFFICES ASSUME Init PROVE VInv
  OBVIOUS
<1>1. /\ kind \in {"net", "ctrl"} /\ on = "up" /\ pc = "idle" /\ content = [b \in Bufs |-> 0]
      /\ alloc = 1 .. (IF kind = "net" THEN Cnt - 1 + TxCnt ELSE Cnt - 1) /\ stack = {}
      /\ written = 0 /\ rcvd = 0 /\ last = 0 /\ out = <<>> /\ queue = <<>> /\ handed = 0 /\ sent = 0
      /\ dev = DevFilled
      /\ rx = Filled([s \in 0 .. Cnt - 1 |-> IF s < Cnt - 1 THEN s + 1 ELSE NoBuf])
      /\ tx = EmptyTx([s \in 0 .. TxCnt - 1 |-> IF kind = "net" THEN Cnt + s ELSE NoBuf])
  BY VectorAssumption DEF Init
<1>2. /\ Cnt \in Nat /\ TxCnt \in Nat /\ Cnt > 1 /\ TxCnt > 0
      /\ 1 .. Cnt - 1 + TxCnt \subseteq Bufs /\ Bufs \subseteq Nat
      /\ 0 \in 0 .. TxCnt - 1 /\ 0 \in 0 .. PtrMod - 1
      /\ \A s \in 0 .. Cnt - 2 : s < Cnt - 1 /\ s \in 0 .. Cnt - 1 /\ s + 1 \in 1 .. Cnt - 1 /\ s \in Int
      /\ \A s \in 0 .. Cnt - 1 : s < Cnt - 1 => s + 1 \in 1 .. Cnt - 1 + TxCnt
      /\ \A s \in 0 .. TxCnt - 1 : Cnt + s \in 1 .. Cnt - 1 + TxCnt /\ s \in Int
                                   /\ Cnt + s \in Cnt .. Cnt - 1 + TxCnt
      /\ 1 .. Cnt - 1 \subseteq 1 .. Cnt - 1 + TxCnt
  BY VectorAssumption, Sizes
<1>3. /\ rx.bufs = [s \in 0 .. Cnt - 1 |-> IF s < Cnt - 1 THEN s + 1 ELSE NoBuf]
      /\ rx = Filled(rx.bufs)
  BY <1>1 DEF Filled
<1>4. rx.bufs \in [0 .. Cnt - 1 -> Bufs \cup {NoBuf}]
  <2>1. \A s \in 0 .. Cnt - 1 : (IF s < Cnt - 1 THEN s + 1 ELSE NoBuf) \in Bufs \cup {NoBuf}
    BY <1>2
  <2> QED BY <1>3, <2>1
<1>5. JustFed
  BY <1>1, <1>3, <1>4 DEF JustFed
<1>6. RxRing /\ rx \in RxType /\ RxSlots = 0 .. Cnt - 2
  BY <1>5, FedRing
<1>7. /\ tx.wr = 0 /\ tx.rd = 0 /\ tx.add = 0 /\ tx.qcp = 0
      /\ tx.bufs = [s \in 0 .. TxCnt - 1 |-> IF kind = "net" THEN Cnt + s ELSE NoBuf]
      /\ tx = [wr |-> 0, rd |-> 0, add |-> 0, qcp |-> 0, bufs |-> tx.bufs]
  BY <1>1 DEF EmptyTx
<1>8. tx \in TxType
  <2>1. \A s \in 0 .. TxCnt - 1 : (IF kind = "net" THEN Cnt + s ELSE NoBuf) \in Nat
    BY <1>2 DEF NoBuf
  <2>2. tx.bufs \in [0 .. TxCnt - 1 -> Nat]
    BY <1>7, <2>1
  <2>3. 0 \in Nat
    OBVIOUS
  <2> QED BY <1>2, <1>7, <2>2, <2>3 DEF TxType
<1>9. dev \in DevType /\ dev.tx_rd = 0 /\ dev.tx_wr = 0
  BY <1>1, DevFilledIs
<1>10. TypeOK
  <2>1. content \in [Bufs -> Nat] /\ alloc \subseteq Bufs
    BY <1>1, <1>2
  <2>2. out \in Seq(Nat) /\ queue \in Seq(Nat) /\ on \in {"up", "closing", "reset", "empty"}
        /\ {written, rcvd, last, handed, sent} \subseteq Nat
    BY <1>1
  <2> QED BY <1>1, <1>6, <1>8, <1>9, <2>1, <2>2 DEF TypeOK, RxType, TxType, DevType
<1>11. Modes /\ Receiving
  BY <1>1, <1>6 DEF Modes, Receiving, Enabled
<1>12. Sending
  <2>1. TxRing(tx, dev, 0, 0)
    BY <1>7, <1>9, EmptyRing
  <2>2. Frames(tx, 0, 0, content, out)
    BY <1>1 DEF Frames
  <2>3. Messages(tx, 0, 0, queue, 0, sent, handed)
    BY <1>1 DEF Messages
  <2>4. Transit(0, 0)
    BY <1>1, <1>7, <2>2, <2>3 DEF Transit
  <2>5. sent <= handed /\ Enabled
    BY <1>1 DEF Enabled
  <2> QED BY <1>2, <2>1, <2>4, <2>5 DEF Sending
<1>13. OnceNow
  <2> DEFINE rs == 0 .. Cnt - 2
  <2>1. \A s \in rs : rx.bufs[s] = s + 1 /\ s + 1 \in 1 .. Cnt - 1 /\ s \in Int
    BY <1>2, <1>3
  <2>2. CASE kind = "net"
    <3> DEFINE ts == 0 .. TxCnt - 1
    <3>1. TxSlots = ts
      BY <1>1, <2>2 DEF TxSlots
    <3>2. \A t \in ts : tx.bufs[t] = Cnt + t /\ t \in Int
      BY <1>2, <1>7, <2>2
    <3>3. alloc = 1 .. Cnt - 1 + TxCnt
      BY <1>1, <2>2
    <3>4. \A b \in alloc : \/ b - 1 \in rs /\ b = (b - 1) + 1
                           \/ b - Cnt \in ts /\ b = Cnt + (b - Cnt)
      BY <1>2, <3>3
    <3>5. \A s \in rs, t \in ts : s + 1 # Cnt + t
      BY <1>2
    <3>6. \A s \in rs : s + 1 \in alloc
      BY <1>2, <3>3
    <3>7. \A t \in ts : Cnt + t \in alloc
      BY <1>2, <3>3
    <3>8. \A b \in alloc : (\E s \in rs : rx.bufs[s] = b) \/ (\E t \in ts : tx.bufs[t] = b)
      BY <2>1, <3>2, <3>4
    <3>9. /\ \A s, t \in rs : rx.bufs[s] = rx.bufs[t] => s = t
          /\ \A s, t \in ts : tx.bufs[s] = tx.bufs[t] => s = t
      <4>1. \A s, t \in rs : s + 1 = t + 1 => s = t
        BY <1>2
      <4>2. \A s, t \in ts : Cnt + s = Cnt + t => s = t
        BY <1>2
      <4> QED BY <2>1, <3>2, <4>1, <4>2
    <3> HIDE DEF rs, ts
    <3>10. Once(rs, rx.bufs, ts, tx.bufs, stack, alloc)
      BY <1>1, <2>1, <3>2, <3>5, <3>6, <3>7, <3>8, <3>9 DEF Once
    <3> QED BY <1>6, <3>1, <3>10 DEF OnceNow, rs
  <2>3. CASE kind = "ctrl"
    <3>1. TxSlots = {}
      BY <2>3 DEF TxSlots
    <3>2. alloc = 1 .. Cnt - 1
      BY <1>1, <2>3
    <3>3. \A b \in alloc : b - 1 \in rs /\ b = (b - 1) + 1
      BY <1>2, <3>2
    <3>4. \A s \in rs : s + 1 \in alloc
      BY <1>2, <3>2
    <3>5. \A b \in alloc : \E s \in rs : rx.bufs[s] = b
      BY <2>1, <3>3
    <3>6. \A s, t \in rs : rx.bufs[s] = rx.bufs[t] => s = t
      <4>1. \A s, t \in rs : s + 1 = t + 1 => s = t
        BY <1>2
      <4> QED BY <2>1, <4>1
    <3> HIDE DEF rs
    <3>7. Once(rs, rx.bufs, {}, tx.bufs, stack, alloc)
      BY <1>1, <2>1, <3>4, <3>5, <3>6 DEF Once
    <3> QED BY <1>6, <3>1, <3>7 DEF OnceNow, rs
  <2> QED BY <1>1, <2>2, <2>3
<1> QED BY <1>10, <1>11, <1>12, <1>13 DEF VInv

----------------------------------------------------------------------------
(* The control vector's ring: what FoldLeft makes of a queue.  The         *)
(* community module folds a set from its greatest element on.              *)
LEMMA MaxOf ==
  ASSUME NEW s, NEW k \in Int, k \in s, \A x \in s : x \in Int /\ x <= k
  PROVE  Max(s) = k
<1>1. \A y \in s : k >= y
  OBVIOUS
<1>2. \E x \in s : \A y \in s : x >= y
  BY <1>1
<1>3. Max(s) \in s /\ \A y \in s : Max(s) >= y
  <2> DEFINE M == CHOOSE x \in s : \A y \in s : x >= y
  <2>1. M \in s /\ \A y \in s : M >= y
    BY <1>2, Zenon
  <2> QED BY <2>1, Zenon DEF Max
<1>4. Max(s) \in Int /\ Max(s) <= k /\ Max(s) >= k
  BY <1>3
<1> QED BY <1>4

OneMore(t, m, failed) == IF m \in failed THEN t ELSE WithMsg(t, m)

Steps(p, gone, failed, n) ==
  p[0] = CtrlComplete /\ \A i \in 1 .. n : p[i] = OneMore(p[i - 1], gone[i], failed)

IsFold(g, n, s, failed, base) ==
  g = [t \in SUBSET (1 .. n) |->
         IF t = {} THEN base ELSE OneMore(g[t \ {Max(t)}], s[Max(t)], failed)]

LEMMA PostExists ==
  ASSUME NEW n \in Nat, NEW s, NEW failed, NEW base
  PROVE  \E g : IsFold(g, n, s, failed, base)
<1> DEFINE Value(g, t) == IF t = {} THEN base ELSE OneMore(g[t \ {Max(t)}], s[Max(t)], failed)
           Good(k) == \E g : g = [t \in SUBSET (1 .. k) |-> Value(g, t)]
           T == {k \in 0 .. n : Good(k)}
<1>1. 0 \in T
  <2> DEFINE g == [t \in SUBSET (1 .. 0) |-> base]
  <2>1. ASSUME NEW t \in SUBSET (1 .. 0) PROVE Value(g, t) = base
    OBVIOUS
  <2>2. g = [t \in SUBSET (1 .. 0) |-> Value(g, t)]
    BY <2>1
  <2> QED BY <2>2
<1>2. ASSUME NEW k \in 1 .. n, k - 1 \in T PROVE k \in T
  <2>1. PICK g : g = [t \in SUBSET (1 .. k - 1) |-> Value(g, t)]
    BY <1>2
  <2> DEFINE h == [t \in SUBSET (1 .. k) |->
                     IF k \in t THEN OneMore(g[t \ {k}], s[k], failed) ELSE g[t]]
  <2>2. ASSUME NEW t \in SUBSET (1 .. k) PROVE h[t] = Value(h, t)
    <3>1. CASE k \in t
      <4>1. Max(t) = k
        <5>1. \A x \in t : x \in Int /\ x <= k
          OBVIOUS
        <5> QED BY <3>1, <5>1, MaxOf
      <4>2. t \ {k} \in SUBSET (1 .. k) /\ k \notin t \ {k} /\ t # {}
        BY <3>1
      <4>3. h[t \ {k}] = g[t \ {k}]
        BY <4>2
      <4>4. h[t] = OneMore(g[t \ {k}], s[k], failed)
        BY <3>1
      <4> HIDE DEF h
      <4> QED BY <4>1, <4>2, <4>3, <4>4
    <3>2. CASE k \notin t
      <4>0. ASSUME NEW x \in t PROVE x \in 1 .. k - 1
        <5>1. x \in 1 .. k /\ x # k
          BY <3>2
        <5> QED BY <5>1
      <4>1. t \in SUBSET (1 .. k - 1) /\ t \ {Max(t)} \in SUBSET (1 .. k)
            /\ k \notin t \ {Max(t)}
        BY <3>2, <4>0
      <4>2. h[t] = g[t] /\ h[t \ {Max(t)}] = g[t \ {Max(t)}]
        BY <3>2, <4>1
      <4>3. g[t] = Value(g, t)
        BY <2>1, <4>1
      <4> HIDE DEF h
      <4> QED BY <4>2, <4>3
    <3> QED BY <3>1, <3>2
  <2>3. h = [t \in SUBSET (1 .. k) |-> Value(h, t)]
    <3>1. h = [t \in SUBSET (1 .. k) |-> h[t]]
      OBVIOUS
    <3> HIDE DEF h
    <3> QED BY <2>2, <3>1
  <2>4. k \in 0 .. n
    OBVIOUS
  <2> QED BY <2>3, <2>4
<1>3. n \in T
  <2> HIDE DEF T
  <2>1. T \in SUBSET (0 .. n)
    BY DEF T
  <2> QED BY <1>1, <1>2, <2>1, UpTo
<1> QED BY <1>3 DEF IsFold

LEMMA PostedIs ==
  ASSUME NEW n \in Nat, NEW gone, DOMAIN gone = 1 .. n, NEW failed
  PROVE  \E p : Steps(p, gone, failed, n) /\ Posted(gone, failed) = p[n]
<1> DEFINE base == CtrlComplete
           g == CHOOSE f : f = [t \in SUBSET (1 .. n) |->
                       IF t = {} THEN base ELSE OneMore(f[t \ {Max(t)}], gone[Max(t)], failed)]
<1>1. g = [t \in SUBSET (1 .. n) |->
                       IF t = {} THEN base ELSE OneMore(g[t \ {Max(t)}], gone[Max(t)], failed)]
  <2> HIDE DEF base
  <2>1. \E f : IsFold(f, n, gone, failed, base)
    BY PostExists, Zenon
  <2>2. \E f : f = [t \in SUBSET (1 .. n) |->
                 IF t = {} THEN base ELSE OneMore(f[t \ {Max(t)}], gone[Max(t)], failed)]
    BY <2>1, Zenon DEF IsFold
  <2> QED BY <2>2, Zenon
<1>2. Posted(gone, failed) = g[1 .. n]
  BY DEF Posted, FoldLeft, MapThenFoldSet, OneMore
<1> HIDE DEF g, base
<1> DEFINE p == [i \in 0 .. n |-> g[1 .. i]]
<1>3. p[0] = base
  <2>1. 1 .. 0 = {} /\ {} \in SUBSET (1 .. n)
    OBVIOUS
  <2>2. g[{}] = base
    BY <1>1, <2>1
  <2> QED BY <2>1, <2>2
<1>4. ASSUME NEW i \in 1 .. n PROVE p[i] = OneMore(p[i - 1], gone[i], failed)
  <2>1. Max(1 .. i) = i
    <3>1. i \in 1 .. i /\ \A x \in 1 .. i : x \in Int /\ x <= i
      OBVIOUS
    <3> QED BY <3>1, MaxOf
  <2>2. 1 .. i \in SUBSET (1 .. n) /\ 1 .. i # {} /\ (1 .. i) \ {i} = 1 .. i - 1
    <3>1. \A x : x \in 1 .. i => x \in 1 .. n
      OBVIOUS
    <3>2. i \in 1 .. i
      OBVIOUS
    <3>3. \A x : x \in (1 .. i) \ {i} <=> x \in 1 .. i - 1
      OBVIOUS
    <3>4. (1 .. i) \ {i} = 1 .. i - 1
      BY <3>3, Zenon
    <3> QED BY <3>1, <3>2, <3>4
  <2>3. g[1 .. i] = OneMore(g[1 .. i - 1], gone[i], failed)
    BY <1>1, <2>1, <2>2
  <2>4. p[i] = g[1 .. i] /\ p[i - 1] = g[1 .. i - 1]
    OBVIOUS
  <2> QED BY <2>3, <2>4
<1>5. p[n] = g[1 .. n]
  OBVIOUS
<1> HIDE DEF p
<1>6. Steps(p, gone, failed, n)
  BY <1>3, <1>4 DEF Steps, base
<1> QED BY <1>2, <1>5, <1>6

(* A message is put into the ring t.                                       *)
LEMMA WithMsgIs ==
  ASSUME NEW t \in TxType, NEW m \in Nat
  PROVE  /\ WithMsg(t, m) \in TxType /\ Put(t, WithMsg(t, m))
         /\ WithMsg(t, m).bufs = [t.bufs EXCEPT ![TxIdx(t.wr)] = m]
<1> DEFINE w == WithMsg(t, m)
<1>1. /\ w.wr = PtrPlus(t.wr, 1) /\ w.rd = t.rd /\ w.qcp = t.qcp /\ w.add = t.add + 1
      /\ w.bufs = [t.bufs EXCEPT ![TxIdx(t.wr)] = m]
      /\ w = [wr |-> w.wr, rd |-> w.rd, add |-> w.add, qcp |-> w.qcp, bufs |-> w.bufs]
  <2> DEFINE r == PtrPlus(t.wr, 1)
             bs == [t.bufs EXCEPT ![TxIdx(t.wr)] = m]
  <2>1. w = [t EXCEPT !.bufs = bs, !.wr = r, !.add = t.add + 1]
    BY DEF WithMsg
  <2> HIDE DEF w, r, bs
  <2>2. /\ w.wr = r /\ w.rd = t.rd /\ w.qcp = t.qcp /\ w.add = t.add + 1 /\ w.bufs = bs
        /\ w = [wr |-> w.wr, rd |-> w.rd, add |-> w.add, qcp |-> w.qcp, bufs |-> w.bufs]
    BY <2>1 DEF TxType
  <2> QED BY <2>2 DEF r, bs
<1> HIDE DEF w
<1>2. PtrPlus(t.wr, 1) \in 0 .. PtrMod - 1
  <2>1. t.wr + 1 \in Int /\ PtrMod \in Nat \ {0}
    BY TxTypes, Sizes
  <2> QED BY <2>1, Euclid DEF PtrPlus
<1>3. w.bufs \in [0 .. TxCnt - 1 -> Nat]
  BY ZenonT(60), <1>1, TxTypes
<1>4. w.add \in Nat /\ w.rd \in 0 .. PtrMod - 1 /\ w.qcp \in 0 .. TxCnt - 1
  BY <1>1, TxTypes
<1>5. w \in TxType
  BY <1>1, <1>2, <1>3, <1>4 DEF TxType
<1>6. Put(t, w)
  BY <1>1 DEF Put
<1> QED BY <1>1, <1>5, <1>6 DEF w

LEMMA PutMsg ==
  ASSUME NEW t \in TxType, NEW d, NEW u \in 0 .. TxCnt - 1, NEW v \in 0 .. TxCnt - 1,
         TxRing(t, d, u, v), u # TxCnt - 1,
         NEW q \in Seq(Nat), NEW i \in 1 .. Len(q), NEW s \in Nat, NEW h \in Nat,
         Messages(t, u, v, q, i - 1, s, h)
  PROVE  /\ TxRing(WithMsg(t, q[i]), d, u + 1, v)
         /\ Messages(WithMsg(t, q[i]), u + 1, v, q, i, s, h)
<1> DEFINE w == WithMsg(t, q[i])
           slot == At(t, u)
<1>1. q[i] \in Nat /\ u \in Int /\ v \in Int /\ i \in Int /\ Len(q) \in Nat
  BY Sizes
<1>2. /\ w \in TxType /\ Put(t, w) /\ w.bufs = [t.bufs EXCEPT ![TxIdx(t.wr)] = q[i]]
  BY <1>1, WithMsgIs
<1> HIDE DEF w
<1>3. TxRing(w, d, u + 1, v)
  BY <1>1, <1>2, RingPut, Zenon
<1>4. \A k : At(w, k) = At(t, k)
  BY <1>2 DEF Put, At
<1>5. TxIdx(t.wr) = slot
  BY <1>1, FullIs
<1>6. slot \in 0 .. TxCnt - 1
  BY <1>1, AtIs
<1> DEFINE b(k) == t.bufs[At(t, k)]
           c(k) == w.bufs[At(w, k)]
<1>7. c(u) = q[i]
  BY <1>2, <1>4, <1>5, <1>6, TxTypes
<1>8. \A k \in v .. u - 1 : c(k) = b(k)
  <2>1. ASSUME NEW k \in v .. u - 1 PROVE c(k) = b(k)
    <3>1. k \in Int /\ k # u /\ u - k < TxCnt /\ k - u < TxCnt
      <4>1. u <= TxCnt - 1 /\ v >= 0 /\ TxCnt \in Nat
        BY Sizes
      <4> QED BY <1>1, <4>1
    <3>2. At(t, k) # slot /\ At(t, k) \in 0 .. TxCnt - 1
      BY <1>1, <3>1, AtOnce, AtIs
    <3> QED BY <1>2, <1>4, <1>5, <3>2, TxTypes
  <2> QED BY <2>1
<1>9. /\ \A k \in v .. u - 1 : s < b(k) /\ b(k) <= h
      /\ \A k \in v .. u - 1 : \A j \in i - 1 + 1 .. Len(q) : b(k) < q[j]
      /\ \A j, k \in v .. u - 1 : j < k => b(j) < b(k)
      /\ \A k \in i - 1 + 1 .. Len(q) : s < q[k] /\ q[k] <= h
      /\ \A j, k \in i - 1 + 1 .. Len(q) : j < k => q[j] < q[k]
  BY DEF Messages
<1> HIDE DEF b, c
<1>10. /\ i \in i - 1 + 1 .. Len(q)
       /\ \A j \in i + 1 .. Len(q) : j \in i - 1 + 1 .. Len(q) /\ i < j
       /\ \A k \in v .. (u + 1) - 1 : k \in v .. u - 1 \/ k = u
       /\ \A j \in v .. u : ~(u < j)
  BY <1>1
<1>11. \A k \in v .. (u + 1) - 1 : s < c(k) /\ c(k) <= h
  BY <1>7, <1>8, <1>9, <1>10
<1>12. \A k \in v .. (u + 1) - 1 : \A j \in i + 1 .. Len(q) : c(k) < q[j]
  BY <1>7, <1>8, <1>9, <1>10
<1>13. \A j, k \in v .. (u + 1) - 1 : j < k => c(j) < c(k)
  <2>1. ASSUME NEW j \in v .. (u + 1) - 1, NEW k \in v .. (u + 1) - 1, j < k PROVE c(j) < c(k)
    <3>1. j \in v .. u - 1
      BY <1>1, <2>1
    <3>2. CASE k \in v .. u - 1
      BY <1>8, <1>9, <2>1, <3>1, <3>2
    <3>3. CASE k = u
      BY <1>7, <1>8, <1>9, <1>10, <3>1, <3>3
    <3> QED BY <1>10, <3>2, <3>3
  <2> QED BY <2>1
<1>14. /\ \A k \in i + 1 .. Len(q) : s < q[k] /\ q[k] <= h
       /\ \A j, k \in i + 1 .. Len(q) : j < k => q[j] < q[k]
  BY <1>9, <1>10
<1>15. Messages(w, u + 1, v, q, i, s, h)
  BY <1>11, <1>12, <1>13, <1>14 DEF Messages, c
<1> QED BY <1>3, <1>15 DEF w

----------------------------------------------------------------------------
(* The control vector's steps.                                             *)
LEMMA CtrlFlushed ==
  ASSUME VInv, kind = "ctrl", NEW t \in TxType, NEW u \in 0 .. TxCnt - 1, NEW v \in 0 .. TxCnt - 1,
         TxRing(t, dev, u, v), Flush(t, dev),
         UNCHANGED <<kind, on, rx, content, alloc, stack, written, rcvd, last, out, sent>>,
         Modes', queue' \in Seq(Nat), handed' \in Nat, sent <= handed',
         Messages(t, u, v, queue', 0, sent, handed'), queue' # <<>> => u = TxCnt - 1
  PROVE  VInv'
<1>1. TypeOK /\ OnceNow /\ Receiving /\ Sending /\ dev \in DevType /\ u \in Int /\ v \in Int
  BY Types, Sizes DEF VInv
<1>2. /\ tx' \in TxType /\ dev' \in DevType /\ Flushed(t, dev, tx', dev') /\ tx'.bufs = t.bufs
      /\ dev'.fl_wr = dev.fl_wr /\ dev'.fl_rd = dev.fl_rd /\ tx'.add = 0
  BY <1>1, FlushIs
<1>3. TypeOK'
  BY ZenonT(60), <1>1, <1>2 DEF TypeOK, TxType, DevType
<1>4. OnceNow' /\ Receiving'
  <2>1. OnceNow'
    <3>1. kind # "net"
      OBVIOUS
    <3> QED BY <1>1, <3>1, OnceSame
  <2>2. Receiving'
    <3>1. Enabled' <=> Enabled
      BY DEF Enabled
    <3> QED BY <1>1, <1>2, <3>1, ReceivingSame
  <2> QED BY <2>1, <2>2
<1>5. TxRing(tx', dev', u, v) /\ \A k : At(tx', k) = At(t, k)
  <2>1. TxRing(tx', dev', u, v)
    BY <1>1, <1>2, RingFlushed, Zenon
  <2>2. \A k : At(tx', k) = At(t, k)
    BY <1>2 DEF Flushed, At
  <2> QED BY <2>1, <2>2
<1>6. Messages(tx', u, v, queue', 0, sent', handed')
  BY <1>2, <1>5 DEF Messages
<1>7. Enabled
  BY DEF VInv, Modes, Enabled
<1>8. Sending'
  <2>1. sent' <= handed' /\ Enabled'
    BY <1>7 DEF Enabled
  <2>2. Transit(u, v)'
    BY <1>2, <1>6 DEF Transit
  <2> QED BY <1>5, <2>1, <2>2 DEF Sending
<1> QED BY <1>3, <1>4, <1>8 DEF VInv

(* Fewer messages are left, or more were handed over.                      *)
LEMMA MessagesStill ==
  ASSUME NEW t \in TxType, NEW u \in Int, NEW v \in Int, NEW q \in Seq(Nat), NEW i \in 1 .. Len(q), NEW s, NEW h,
         Messages(t, u, v, q, i - 1, s, h)
  PROVE  Messages(t, u, v, q, i, s, h)
<1>1. \A k \in i + 1 .. Len(q) : k \in (i - 1) + 1 .. Len(q)
  OBVIOUS
<1> QED BY <1>1 DEF Messages

LEMMA MessagesMore ==
  ASSUME NEW t \in TxType, NEW u \in Int, NEW v \in Int, u <= TxCnt - 1, v >= 0, NEW q \in Seq(Nat),
         NEW s \in Nat, NEW h \in Nat, Messages(t, u, v, q, 0, s, h)
  PROVE  /\ Messages(t, u, v, q, 0, s, h + 1)
         /\ Messages(t, u, v, Append(q, h + 1), 0, s, h + 1) \/ ~(s <= h)
<1> DEFINE b(k) == t.bufs[At(t, k)]
           a == Append(q, h + 1)
<1>1. /\ \A k \in v .. u - 1 : s < b(k) /\ b(k) <= h /\ b(k) \in Nat
      /\ \A k \in v .. u - 1 : \A j \in 1 .. Len(q) : b(k) < q[j]
      /\ \A j, k \in v .. u - 1 : j < k => b(j) < b(k)
      /\ \A k \in 1 .. Len(q) : s < q[k] /\ q[k] <= h /\ q[k] \in Nat
      /\ \A j, k \in 1 .. Len(q) : j < k => q[j] < q[k]
  <2>1. \A k \in v .. u - 1 : b(k) \in Nat
    <3>1. \A k \in v .. u - 1 : k \in Int
      OBVIOUS
    <3> QED BY <3>1, AtIs, TxTypes
  <2>2. \A k \in 1 .. Len(q) : q[k] \in Nat
    OBVIOUS
  <2>3. 0 + 1 = 1
    OBVIOUS
  <2> QED BY <2>1, <2>2, <2>3 DEF Messages
<1>2. /\ Len(a) = Len(q) + 1 /\ Len(q) \in Nat /\ a[Len(q) + 1] = h + 1
      /\ \A k \in 1 .. Len(q) : a[k] = q[k]
  OBVIOUS
<1> HIDE DEF b, a
<1>3. \A n : n \in 1 .. Len(q) + 1 <=> n \in 1 .. Len(q) \/ n = Len(q) + 1
  BY <1>2
<1>4. \A n \in 1 .. Len(q) : n < Len(q) + 1 /\ ~(Len(q) + 1 < n)
  BY <1>2
<1>5. \A x \in Nat : x <= h => x <= h + 1 /\ x < h + 1
  OBVIOUS
<1>6. Messages(t, u, v, q, 0, s, h + 1)
  <2>1. 0 + 1 = 1
    OBVIOUS
  <2> QED BY <1>1, <1>5, <2>1 DEF Messages, b
<1>7. ASSUME s <= h PROVE Messages(t, u, v, a, 0, s, h + 1)
  <2>1. \A k \in v .. u - 1 : s < b(k) /\ b(k) <= h + 1
    BY <1>1, <1>5
  <2>2. \A k \in v .. u - 1 : \A j \in 1 .. Len(a) : b(k) < a[j]
    BY <1>1, <1>2, <1>3, <1>5
  <2>3. \A k \in 1 .. Len(a) : s < a[k] /\ a[k] <= h + 1
    <3>1. \A k \in 1 .. Len(q) : s < a[k] /\ a[k] <= h + 1
      BY <1>1, <1>2, <1>5
    <3>2. s < a[Len(q) + 1] /\ a[Len(q) + 1] <= h + 1
      BY <1>2, <1>7
    <3> QED BY <1>2, <1>3, <3>1, <3>2
  <2>4. \A j, k \in 1 .. Len(a) : j < k => a[j] < a[k]
    <3>1. ASSUME NEW j \in 1 .. Len(a), NEW k \in 1 .. Len(a), j < k PROVE a[j] < a[k]
      <4>1. j \in 1 .. Len(q)
        BY <1>2, <1>3, <1>4, <3>1
      <4>2. CASE k \in 1 .. Len(q)
        BY <1>1, <1>2, <3>1, <4>1, <4>2
      <4>3. CASE k = Len(q) + 1
        BY <1>1, <1>2, <1>5, <4>1, <4>3
      <4> QED BY <1>2, <1>3, <4>2, <4>3
    <3> QED BY <3>1
  <2>5. 0 + 1 = 1
    OBVIOUS
  <2> QED BY <1>1, <2>1, <2>2, <2>3, <2>4, <2>5 DEF Messages, b
<1> QED BY <1>6, <1>7 DEF a

(* The end of what was sent: the ring from the device's read pointer on.   *)
LEMMA CtrlCompleteIs ==
  ASSUME TypeOK, kind = "ctrl", NEW u \in 0 .. TxCnt - 1, NEW v \in 0 .. TxCnt - 1,
         TxRing(tx, dev, u, v), Transit(u, v)
  PROVE  /\ CtrlComplete \in TxType /\ CtrlComplete.add = 0 /\ u - v \in 0 .. TxCnt - 1
         /\ TxRing(CtrlComplete, dev, u - v, 0)
         /\ Messages(CtrlComplete, u - v, 0, queue, 0, sent, handed)
<1> DEFINE c == CtrlComplete
<1>1. /\ tx \in TxType /\ dev \in DevType /\ u \in Int /\ v \in Int /\ v - v = 0 /\ 0 \in Int
      /\ v \in 0 .. v
  BY Types, Sizes
<1>2. /\ Messages(tx, u, v, queue, 0, sent, handed) /\ tx.add = 0
  BY DEF Transit
<1>3. Todo(tx) = v
  BY <1>1, TodoIs
<1> DEFINE bs == [s \in 0 .. TxCnt - 1 |->
                    IF TxMinus(s, tx.qcp) < Todo(tx) THEN NoBuf ELSE tx.bufs[s]]
<1>4. /\ c.wr = tx.wr /\ c.rd = PtrPlus(tx.rd, v) /\ c.add = tx.add /\ c.qcp = dev.tx_rd
      /\ c.bufs = bs
      /\ c = [wr |-> c.wr, rd |-> c.rd, add |-> c.add, qcp |-> c.qcp, bufs |-> c.bufs]
  <2> DEFINE r == PtrPlus(tx.rd, Todo(tx))
  <2>1. c = [tx EXCEPT !.rd = r, !.qcp = dev.tx_rd, !.bufs = bs]
    BY DEF CtrlComplete
  <2> HIDE DEF c, r, bs
  <2>2. /\ c.wr = tx.wr /\ c.rd = r /\ c.add = tx.add /\ c.qcp = dev.tx_rd /\ c.bufs = bs
        /\ c = [wr |-> c.wr, rd |-> c.rd, add |-> c.add, qcp |-> c.qcp, bufs |-> c.bufs]
    BY <1>1, <2>1 DEF TxType
  <2> QED BY <1>3, <2>2 DEF r
<1>5. bs \in [0 .. TxCnt - 1 -> Nat]
  <2>1. \A s \in 0 .. TxCnt - 1 : tx.bufs[s] \in Nat
    BY <1>1, TxTypes
  <2> QED BY <2>1 DEF NoBuf
<1> HIDE DEF c
<1>6. c \in TxType
  <2>1. PtrPlus(tx.rd, v) \in 0 .. PtrMod - 1
    <3>1. tx.rd + v \in Int /\ PtrMod \in Nat \ {0}
      BY <1>1, TxTypes, Sizes
    <3> QED BY <3>1, Euclid DEF PtrPlus
  <2>2. dev.tx_rd \in 0 .. TxCnt - 1
    BY <1>1 DEF DevType
  <2> HIDE DEF bs
  <2> QED BY <1>1, <1>4, <1>5, <2>1, <2>2, TxTypes DEF TxType
<1>7. Completed(tx, c, v)
  <2>1. TxIdx(At(tx, 0) + v) = At(tx, 0 + v)
    BY <1>1, AtFurther
  <2>2. 0 + v = v
    BY <1>1
  <2>3. dev.tx_rd = TxIdx(tx.qcp + v)
    BY <2>1, <2>2 DEF TxRing
  <2> QED BY <1>4, <2>3 DEF Completed
<1>8. /\ TxRing(c, dev, u - v, v - v) /\ u - v \in 0 .. TxCnt - 1
      /\ \A k \in Int : At(c, k) = At(tx, v + k)
  <2>1. TxRing(c, dev, u - v, v - v)
    BY <1>1, <1>7, RingCompleted, Zenon
  <2>2. u - v \in 0 .. TxCnt - 1
    BY <1>1, <1>7, RingCompleted, Zenon
  <2>3. \A k \in Int : At(c, k) = At(tx, v + k)
    BY <1>1, <1>4, AtMoved
  <2> QED BY <2>1, <2>2, <2>3
<1>9. ASSUME NEW k \in 0 .. (u - v) - 1
      PROVE  v + k \in v .. u - 1 /\ c.bufs[At(c, k)] = tx.bufs[At(tx, v + k)]
  <2>1. /\ k \in Int /\ v + k \in Int /\ v + k \in v .. u - 1 /\ (v + k) - 0 = v + k
        /\ v + k \in 0 .. TxCnt - 1 /\ ~(v + k < v)
    BY <1>1, Sizes
  <2>2. At(tx, v + k) \in 0 .. TxCnt - 1
    BY <1>1, <2>1, AtIs
  <2>3. TxMinus(At(tx, v + k), At(tx, 0)) = v + k
    <3>1. TxMinus(At(tx, v + k), At(tx, 0)) = (v + k) - 0
      BY <1>1, <2>1, AtDistance
    <3> QED BY <2>1, <3>1
  <2>4. tx.qcp = At(tx, 0)
    BY DEF TxRing
  <2>5. ~(TxMinus(At(tx, v + k), tx.qcp) < Todo(tx))
    BY <1>3, <2>1, <2>3, <2>4
  <2>6. bs[At(tx, v + k)] = tx.bufs[At(tx, v + k)]
    BY <2>2, <2>5
  <2> HIDE DEF bs
  <2> QED BY <1>4, <1>8, <2>1, <2>6
<1>10. Messages(c, u - v, 0, queue, 0, sent, handed)
  <2>1. \A j, k \in 0 .. (u - v) - 1 : j < k => v + j < v + k
    BY <1>1
  <2> QED BY <1>2, <1>9, <2>1 DEF Messages
<1> QED BY <1>1, <1>2, <1>4, <1>6, <1>8, <1>10 DEF c

LEMMA StepCtrlTx ==
  ASSUME VInv, CtrlTx \/ CtrlTxFails
  PROVE  VInv'
<1>1. /\ TypeOK /\ OnceNow /\ Receiving /\ Sending /\ Modes
  BY DEF VInv
<1>2. /\ kind = "ctrl" /\ handed' = handed + 1
      /\ UNCHANGED <<kind, on, rx, content, alloc, stack, pc, written, rcvd, last, out, sent>>
  BY DEF CtrlTx, CtrlTxFails, mode, rxHist, pollVars
<1>3. /\ on = "up" /\ Enabled /\ Enabled' /\ Modes'
  BY <1>1, <1>2 DEF Modes, Enabled
<1>4. /\ tx \in TxType /\ queue \in Seq(Nat) /\ handed \in Nat /\ sent \in Nat /\ handed + 1 \in Nat
      /\ sent <= handed /\ sent <= handed + 1
  <2>1. /\ tx \in TxType /\ queue \in Seq(Nat) /\ handed \in Nat /\ sent \in Nat /\ sent <= handed
    BY <1>1, Types DEF Sending
  <2> QED BY <2>1
<1>5. PICK u \in 0 .. TxCnt - 1, v \in 0 .. TxCnt - 1 : TxRing(tx, dev, u, v) /\ Transit(u, v)
  BY <1>1 DEF Sending
<1>6. /\ u \in Int /\ v \in Int /\ u <= TxCnt - 1 /\ v >= 0
  BY Sizes
<1>7. /\ Messages(tx, u, v, queue, 0, sent, handed) /\ tx.add = 0
      /\ queue # <<>> => u = TxCnt - 1
  BY <1>2, <1>5 DEF Transit
<1>8. /\ Messages(tx, u, v, queue, 0, sent, handed + 1)
      /\ Messages(tx, u, v, Append(queue, handed + 1), 0, sent, handed + 1)
  BY <1>4, <1>6, <1>7, MessagesMore
<1>9. Full(tx) <=> u = TxCnt - 1
  BY <1>4, <1>5, <1>6, FullIs
<1>10. ASSUME tx' = tx, dev' = dev, queue' = queue \/ (queue' = Append(queue, handed + 1) /\ Full(tx))
       PROVE  VInv'
  <2>1. TypeOK'
    <3>1. queue' \in Seq(Nat)
      BY <1>4, <1>10
    <3> QED BY ZenonT(60), <1>1, <1>2, <1>4, <1>10, <3>1 DEF TypeOK
  <2>2. OnceNow'
    BY <1>1, <1>2, <1>10, OnceSame
  <2>3. Receiving'
    BY <1>1, <1>2, <1>3, <1>10, ReceivingSame
  <2>4. Messages(tx, u, v, queue', 0, sent, handed + 1) /\ (queue' # <<>> => u = TxCnt - 1)
    BY <1>7, <1>8, <1>9, <1>10
  <2>5. Transit(u, v)'
    BY <1>2, <1>7, <1>10, <2>4 DEF Transit
  <2>6. TxRing(tx', dev', u, v) /\ sent' <= handed'
    BY <1>2, <1>4, <1>5, <1>10
  <2>7. Sending'
    BY <1>3, <2>5, <2>6 DEF Sending
  <2> QED BY <1>3, <2>1, <2>2, <2>3, <2>7 DEF VInv
<1>11. CASE /\ ~Full(tx) /\ Flush(WithMsg(tx, handed'), dev) /\ queue' = queue
  <2> DEFINE w == WithMsg(tx, handed + 1)
             q == <<handed + 1>>
  <2>1. queue = <<>> /\ u # TxCnt - 1 /\ u + 1 \in 0 .. TxCnt - 1 /\ queue' = <<>>
    <3>1. u # TxCnt - 1
      BY <1>9, <1>11
    <3>2. u + 1 \in 0 .. TxCnt - 1
      BY <3>1, Sizes
    <3> QED BY <1>7, <1>11, <3>1, <3>2
  <2>2. /\ q \in Seq(Nat) /\ Len(q) = 1 /\ q[1] = handed + 1 /\ 1 \in 1 .. Len(q) /\ 1 - 1 = 0
        /\ q = Append(queue, handed + 1)
    BY <1>4, <2>1
  <2> HIDE DEF q
  <2>3. Messages(tx, u, v, q, 1 - 1, sent, handed + 1)
    BY <1>8, <2>2
  <2>4. /\ TxRing(WithMsg(tx, q[1]), dev, u + 1, v)
        /\ Messages(WithMsg(tx, q[1]), u + 1, v, q, 1, sent, handed + 1)
    BY <1>4, <1>5, <2>1, <2>2, <2>3, PutMsg
  <2>5. w \in TxType
    BY <1>4, WithMsgIs
  <2>6. /\ TxRing(w, dev, u + 1, v) /\ Messages(w, u + 1, v, q, 1, sent, handed + 1)
        /\ Flush(w, dev)
    BY <1>2, <1>11, <2>2, <2>4
  <2> HIDE DEF w
  <2>7. Messages(w, u + 1, v, queue', 0, sent, handed')
    <3>1. 0 + 1 .. Len(queue') = {}
      BY <2>1
    <3> QED BY <1>2, <2>6, <3>1 DEF Messages
  <2>8. queue' \in Seq(Nat) /\ handed' \in Nat /\ sent <= handed'
    BY <1>2, <1>4, <1>11
  <2> QED BY <1>1, <1>2, <1>3, <2>1, <2>5, <2>6, <2>7, <2>8, CtrlFlushed DEF VInv
<1>12. CASE CtrlTx
  <2>1. \/ Full(tx) /\ queue' = Append(queue, handed + 1) /\ tx' = tx /\ dev' = dev
        \/ ~Full(tx) /\ Flush(WithMsg(tx, handed'), dev) /\ queue' = queue
    BY <1>2, <1>12 DEF CtrlTx
  <2> QED BY <1>10, <1>11, <2>1
<1>13. CASE CtrlTxFails
  <2>1. tx' = tx /\ dev' = dev /\ queue' = queue
    BY <1>13 DEF CtrlTxFails
  <2>2. queue' = queue \/ (queue' = Append(queue, handed + 1) /\ Full(tx))
    BY <2>1
  <2> QED BY <1>10, <2>1, <2>2, Zenon
<1> QED BY <1>12, <1>13

(* The tasklet sends the queue, as long as there is room.                  *)
RoomFor(t, w, q, i) ==
  w + t.add <= TxCnt - 1 =>
    /\ TxRing(t, dev, w + t.add, 0)
    /\ Messages(t, w + t.add, 0, q, i, sent, handed)

LEMMA PostOne ==
  ASSUME NEW t \in TxType, NEW w \in 0 .. TxCnt - 1, NEW q \in Seq(Nat), NEW i \in 1 .. Len(q),
         NEW failed, sent \in Nat, handed \in Nat, RoomFor(t, w, q, i - 1)
  PROVE  /\ OneMore(t, q[i], failed) \in TxType
         /\ RoomFor(OneMore(t, q[i], failed), w, q, i)
<1>1. w \in Int /\ t.add \in Nat /\ q[i] \in Nat /\ 0 \in Int
  BY Sizes, TxTypes
<1>2. CASE q[i] \in failed
  <2>1. OneMore(t, q[i], failed) = t
    BY <1>2 DEF OneMore
  <2>2. w + t.add \in Int
    BY <1>1
  <2>3. Messages(t, w + t.add, 0, q, i - 1, sent, handed) => Messages(t, w + t.add, 0, q, i, sent, handed)
    BY <1>1, <2>2, MessagesStill
  <2>4. RoomFor(t, w, q, i)
    BY <2>3 DEF RoomFor
  <2> QED BY <2>1, <2>4
<1>3. CASE q[i] \notin failed
  <2> DEFINE x == WithMsg(t, q[i])
             u == w + t.add
  <2>1. OneMore(t, q[i], failed) = x
    BY <1>3 DEF OneMore
  <2>2. x \in TxType /\ Put(t, x)
    BY <1>1, WithMsgIs
  <2> HIDE DEF x
  <2>3. x.add = t.add + 1
    BY <2>2 DEF Put
  <2>4. ASSUME w + x.add <= TxCnt - 1
        PROVE  TxRing(x, dev, w + x.add, 0) /\ Messages(x, w + x.add, 0, q, i, sent, handed)
    <3>1. u \in 0 .. TxCnt - 1 /\ u # TxCnt - 1 /\ w + x.add = u + 1 /\ u <= TxCnt - 1
          /\ 0 \in 0 .. TxCnt - 1
      BY SMTT(30), <1>1, <2>3, <2>4, Sizes
    <3>2. TxRing(t, dev, u, 0) /\ Messages(t, u, 0, q, i - 1, sent, handed)
      BY <3>1 DEF RoomFor
    <3> HIDE DEF u
    <3>3. /\ TxRing(WithMsg(t, q[i]), dev, u + 1, 0)
          /\ Messages(WithMsg(t, q[i]), u + 1, 0, q, i, sent, handed)
      BY <3>1, <3>2, PutMsg
    <3> QED BY <3>1, <3>3 DEF x
  <2>5. RoomFor(x, w, q, i)
    BY <2>4 DEF RoomFor
  <2> QED BY <2>1, <2>2, <2>5
<1> QED BY <1>2, <1>3

LEMMA AllPosted ==
  ASSUME TypeOK, NEW w \in 0 .. TxCnt - 1, NEW n \in 0 .. Len(queue), NEW failed,
         CtrlComplete \in TxType, CtrlComplete.add = 0, TxRing(CtrlComplete, dev, w, 0),
         Messages(CtrlComplete, w, 0, queue, 0, sent, handed)
  PROVE  LET t == Posted(SubSeq(queue, 1, n), failed)
         IN  t \in TxType /\ RoomFor(t, w, queue, n)
<1> DEFINE gone == SubSeq(queue, 1, n)
           t == Posted(gone, failed)
<1>1. queue \in Seq(Nat) /\ sent \in Nat /\ handed \in Nat /\ n \in Nat /\ Len(queue) \in Nat
      /\ w \in Int /\ w + 0 = w
  BY Types, Sizes
<1>2. DOMAIN gone = 1 .. n /\ \A i \in 1 .. n : gone[i] = queue[i]
  <2>1. Len(gone) = n
    BY <1>1
  <2>2. DOMAIN gone = 1 .. n
    BY <1>1
  <2>3. \A i \in 1 .. n : gone[i] = queue[i]
    BY <1>1
  <2> QED BY <2>2, <2>3
<1> HIDE DEF gone
<1>3. PICK p : Steps(p, gone, failed, n) /\ Posted(gone, failed) = p[n]
  BY <1>1, <1>2, PostedIs
<1> DEFINE Good == {i \in 0 .. n : p[i] \in TxType /\ RoomFor(p[i], w, queue, i)}
<1>4. 0 \in Good
  <2>1. p[0] = CtrlComplete
    BY <1>3 DEF Steps
  <2>2. RoomFor(p[0], w, queue, 0)
    BY <1>1, <2>1 DEF RoomFor
  <2> QED BY <1>1, <2>1, <2>2
<1>5. ASSUME NEW i \in 1 .. n, i - 1 \in Good PROVE i \in Good
  <2>1. p[i] = OneMore(p[i - 1], queue[i], failed)
    BY <1>2, <1>3 DEF Steps
  <2>2. p[i - 1] \in TxType /\ RoomFor(p[i - 1], w, queue, i - 1)
    BY <1>5
  <2>3. i \in 1 .. Len(queue) /\ i \in 0 .. n
    BY <1>1
  <2>4. p[i] \in TxType /\ RoomFor(p[i], w, queue, i)
    BY <1>1, <2>1, <2>2, <2>3, PostOne
  <2> QED BY <2>3, <2>4
<1>6. n \in Good
  <2>1. Good \in SUBSET (0 .. n)
    OBVIOUS
  <2> HIDE DEF Good
  <2> QED BY <1>1, <1>4, <1>5, <2>1, UpTo
<1> QED BY <1>3, <1>6 DEF gone

(* What the tasklet makes of the ring: everything sent is completed, the   *)
(* first n messages of the queue are gone, and the device is told.         *)
RingPolled(n, t, x) ==
  /\ TxRing(t, dev, x, 0) /\ Messages(t, x, 0, queue, n, sent, handed)
  /\ (n < Len(queue) => Full(t)) /\ queue' = Rest(queue, n) /\ Flush(t, dev)

LEMMA CtrlPolled ==
  ASSUME VInv, CtrlPoll
  PROVE  \E n \in 0 .. Len(queue), t \in TxType, x \in 0 .. TxCnt - 1 : RingPolled(n, t, x)
<1>1. /\ TypeOK /\ OnceNow /\ Receiving /\ Sending /\ Modes
  BY DEF VInv
<1>2. /\ kind = "ctrl" /\ handed' = handed
      /\ UNCHANGED <<kind, on, rx, content, alloc, stack, written, rcvd, last, out, sent>>
  BY DEF CtrlPoll, mode, rxHist
<1>3. queue \in Seq(Nat) /\ handed \in Nat /\ sent \in Nat /\ sent <= handed
  BY <1>1, Types DEF Sending
<1>4. PICK u \in 0 .. TxCnt - 1, v \in 0 .. TxCnt - 1 : TxRing(tx, dev, u, v) /\ Transit(u, v)
  BY <1>1 DEF Sending
<1> DEFINE c == CtrlComplete
           w == u - v
<1>5. /\ c \in TxType /\ c.add = 0 /\ w \in 0 .. TxCnt - 1 /\ TxRing(c, dev, w, 0)
      /\ Messages(c, w, 0, queue, 0, sent, handed)
  BY <1>1, <1>2, <1>4, CtrlCompleteIs
<1> HIDE DEF w
<1>6. PICK n \in 0 .. Len(queue) : \E f \in SUBSET Range(SubSeq(queue, 1, n)) :
        LET t == Posted(SubSeq(queue, 1, n), f)
        IN  /\ t.add < TxCnt - PtrMinus(c.wr, c.rd) /\ (n < Len(queue) => Full(t))
            /\ queue' = Rest(queue, n) /\ Flush(t, dev)
  BY DEF CtrlPoll
<1>7. PICK failed \in SUBSET Range(SubSeq(queue, 1, n)) :
        LET t == Posted(SubSeq(queue, 1, n), failed)
        IN  /\ t.add < TxCnt - PtrMinus(c.wr, c.rd) /\ (n < Len(queue) => Full(t))
            /\ queue' = Rest(queue, n) /\ Flush(t, dev)
  BY <1>6
<1> HIDE DEF c
<1> DEFINE t == Posted(SubSeq(queue, 1, n), failed)
<1>8. t \in TxType /\ RoomFor(t, w, queue, n)
  BY <1>1, <1>5, AllPosted DEF c
<1>9. /\ t.add < TxCnt - PtrMinus(c.wr, c.rd) /\ (n < Len(queue) => Full(t))
      /\ queue' = Rest(queue, n) /\ Flush(t, dev)
  BY <1>7
<1> HIDE DEF t
<1> DEFINE x == w + t.add
<1>10. x \in 0 .. TxCnt - 1 /\ x \in Int
  <2>1. PtrMinus(c.wr, c.rd) = w
    <3>1. 0 \in Int
      OBVIOUS
    <3> QED BY <1>5, <3>1, FullIs
  <2>2. t.add \in Nat
    BY <1>8, TxTypes
  <2>3. t.add < TxCnt - w
    BY <1>9, <2>1
  <2> QED BY <1>5, <2>2, <2>3, Sizes
<1>11. TxRing(t, dev, x, 0) /\ Messages(t, x, 0, queue, n, sent, handed)
  <2>1. x <= TxCnt - 1
    BY <1>10, Sizes
  <2> QED BY <1>8, <2>1 DEF RoomFor
<1> HIDE DEF x
<1>12. RingPolled(n, t, x)
  BY <1>9, <1>11 DEF RingPolled
<1> QED BY <1>8, <1>10, <1>12

LEMMA StepCtrlPoll ==
  ASSUME VInv, CtrlPoll
  PROVE  VInv'
<1>1. /\ TypeOK /\ OnceNow /\ Receiving /\ Sending /\ Modes
  BY DEF VInv
<1>2. /\ kind = "ctrl" /\ handed' = handed
      /\ UNCHANGED <<kind, on, rx, content, alloc, stack, written, rcvd, last, out, sent>>
  BY DEF CtrlPoll, mode, rxHist
<1>3. on = "up" /\ Modes'
  BY <1>1, <1>2 DEF Modes
<1>4. queue \in Seq(Nat) /\ handed \in Nat /\ sent \in Nat /\ sent <= handed
  BY <1>1, Types DEF Sending
<1>5. PICK n \in 0 .. Len(queue), t \in TxType, x \in 0 .. TxCnt - 1 : RingPolled(n, t, x)
  BY CtrlPolled
<1>6. (n < Len(queue) => Full(t)) /\ queue' = Rest(queue, n) /\ Flush(t, dev)
  BY <1>5 DEF RingPolled
<1>7. x \in 0 .. TxCnt - 1 /\ x \in Int /\ t \in TxType
  BY Sizes
<1>8. TxRing(t, dev, x, 0) /\ Messages(t, x, 0, queue, n, sent, handed)
  BY <1>5 DEF RingPolled
<1>9. /\ queue' \in Seq(Nat) /\ Len(queue') = Len(queue) - n /\ n \in Nat /\ Len(queue) \in Nat
      /\ \A j \in 1 .. Len(queue) - n : queue'[j] = queue[n + j]
  <2> DEFINE r == SubSeq(queue, n + 1, Len(queue))
  <2>1. n \in Nat /\ Len(queue) \in Nat /\ n <= Len(queue)
    BY <1>4
  <2>2. r \in Seq(Nat) /\ Len(r) = Len(queue) - n
    BY <1>4, <2>1
  <2>3. \A j \in 1 .. Len(queue) - n : r[j] = queue[n + j]
    BY <1>4, <2>1
  <2>4. queue' = r
    BY <1>6 DEF Rest
  <2> HIDE DEF r
  <2> QED BY <2>1, <2>2, <2>3, <2>4
<1>10. \A j \in 1 .. Len(queue') : n + j \in n + 1 .. Len(queue) /\ queue'[j] = queue[n + j]
  <2> DEFINE l == Len(queue)
  <2>1. \A j \in 1 .. l - n : queue'[j] = queue[n + j]
    BY <1>9, Zenon
  <2>2. Len(queue') = l - n /\ n \in Nat /\ l \in Nat
    BY <1>9
  <2> HIDE DEF l
  <2>3. \A j \in 1 .. l - n : n + j \in n + 1 .. l
    BY <2>2
  <2> QED BY <2>1, <2>2, <2>3, Zenon DEF l
<1>11. Messages(t, x, 0, queue', 0, sent, handed')
  <2>1. \A j, k \in 1 .. Len(queue') : j < k => n + j < n + k
    BY <1>9
  <2>2. 0 + 1 = 1
    OBVIOUS
  <2> QED BY <1>2, <1>8, <1>10, <2>1, <2>2 DEF Messages
<1>12. queue' # <<>> => x = TxCnt - 1
  <2>1. ASSUME queue' # <<>> PROVE n < Len(queue)
    <3>1. Len(queue') # 0
      BY <1>9, <2>1
    <3> QED BY <1>9, <3>1
  <2>2. Full(t) <=> x = TxCnt - 1
    <3>1. 0 \in Int
      OBVIOUS
    <3> QED BY <1>7, <1>8, <3>1, FullIs
  <2> QED BY <1>6, <2>1, <2>2
<1>13. 0 \in 0 .. TxCnt - 1
  BY Sizes
<1> QED BY <1>2, <1>3, <1>4, <1>6, <1>7, <1>8, <1>9, <1>11, <1>12, <1>13, CtrlFlushed

----------------------------------------------------------------------------
(* What always holds.                                                      *)
LEMMA VInvNext == VInv /\ [Next]_vars => VInv'
<1> SUFFICES ASSUME VInv, [Next]_vars PROVE VInv'
  OBVIOUS
<1>1. CASE DevReceive \/ DevSend
  BY <1>1, StepDevReceive, StepDevSend
<1>2. CASE IrqRxTx \/ StackFrees \/ Poll \/ PollEnd \/ CtrlRxNone \/ CtrlPollEnd \/ CloseStack
  BY <1>2, StepQuiet
<1>3. CASE RxOne \/ CtrlRxOne
  BY <1>3, StepRxOne
<1>4. CASE RxEnd
  BY <1>4, StepRxEnd
<1>5. CASE CtrlPoll
  BY <1>5, StepCtrlPoll
<1>6. CASE CtrlTx \/ CtrlTxFails
  BY <1>6, StepCtrlTx
<1>7. CASE DisableAndReset \/ BufsFree \/ BufsAlloc \/ Open
  BY <1>7, StepReset, StepBufsFree, StepBufsAlloc, StepOpen
<1>8. CASE UNCHANGED vars
  BY <1>8, StepQuiet
<1> QED BY <1>1, <1>2, <1>3, <1>4, <1>5, <1>6, <1>7, <1>8 DEF Next, NetPoll, CtrlTasklet

(* The inductive invariant of the receive side holds in every state, for   *)
(* rings of every size, batches, budgets, and any number of frames.        *)
THEOREM VectorHolds == Spec => []VInv
BY InitVInv, VInvNext, PTL DEF Spec

(* Each buffer is in one place, the ring, the XDP ring or the stack, and   *)
(* every one allocated is somewhere: nfp_net_rx(), nfp_net_tx_xdp_buf()    *)
(* and nfp_net_rx_ring_reset() neither lose nor double one.                *)
THEOREM EachBufferOnce == Spec => []BuffersOnce
<1>1. VInv => BuffersOnce
  BY OnceIsOnce DEF VInv
<1> QED BY <1>1, VectorHolds, PTL

(* nfp_net_rx() and nfp_ctrl_rx() take every frame the device wrote, once, *)
(* and in the order in which it wrote them.                                *)
THEOREM FramesTakenInOrder == Spec => []FramesInOrder
<1>1. VInv => FramesInOrder
  BY DEF VInv, Receiving, FramesInOrder
<1> QED BY <1>1, VectorHolds, PTL

(* What an XDP program sends back is still in its buffer when the device   *)
(* reads it.                                                               *)
THEOREM FramesStayIntact == Spec => []FramesIntact
<1>1. VInv => FramesIntact
  BY SendingMeans DEF VInv
<1> QED BY <1>1, VectorHolds, PTL

(* Control messages reach the device in the order in which they were       *)
(* handed to nfp_ctrl_tx(), through the ring or through the queue.         *)
THEOREM MessagesKeepOrder == Spec => []MessagesInOrder
<1>1. VInv => MessagesInOrder
  BY SendingMeans DEF VInv
<1> QED BY <1>1, VectorHolds, PTL

----------------------------------------------------------------------------
(* Nothing is left behind.  Who leaves something to a poll leaves an       *)
(* interrupt with it, or a poll that is not over.                          *)

Waking ==
  /\ masked <=> pc # "idle"
  /\ kind = "net" =>
       /\ on = "up" /\ rcvd # written =>
            pending \/ pc \in {"scheduled", "rx"} \/ (pc = "end" /\ ~BudgetLeft)
       /\ tx.add # 0 => pc = "rx"
       /\ written <= MaxFrames
  /\ kind = "ctrl" /\ tx.qcp # dev.tx_rd => pending \/ pc = "scheduled"

LEMMA NoneReady ==
  ASSUME TypeOK, RxRing, on # "empty"
  PROVE  Ready <=> rcvd # written
<1>1. 0 \in 0 .. Cnt - 2 /\ Filling \in 0 .. Known /\ Known \in 0 .. Cnt - 1
  BY Sizes, KnownIs DEF RxRing
<1>2. rx.ds[RxSlot(0)].dd <=> 0 < Filling
  BY <1>1 DEF RxRing
<1>3. Ready <=> 0 < Filling
  BY <1>2, RxFed DEF Ready
<1>4. written \in Nat /\ rcvd \in Nat /\ Known \in Int /\ Cnt \in Nat
  BY <1>1, RxTypes, Sizes
<1> QED BY <1>1, <1>3, <1>4 DEF Filling

(* The device raises the interrupt with what it does.                      *)
LEMMA WakingDev ==
  ASSUME VInv, Waking, DevReceive \/ DevSend \/ IrqRxTx
  PROVE  Waking'
<1>1. written \in Nat /\ MaxFrames \in Nat
  BY Types, VectorAssumption DEF VInv
<1>2. CASE DevReceive
  <2>1. /\ pending' /\ kind' = kind /\ on' = on /\ tx' = tx /\ masked' = masked /\ pc' = pc
        /\ written' = written + 1
    BY <1>2 DEF DevReceive, mode, pollVars
  <2>2. kind = "net" => written < MaxFrames
    BY <1>2 DEF DevReceive
  <2>3. kind = "net" => written' <= MaxFrames
    BY <1>1, <2>1, <2>2
  <2> QED BY <2>1, <2>3 DEF Waking
<1>3. CASE DevSend
  <2>1. /\ pending' /\ kind' = kind /\ on' = on /\ tx' = tx /\ masked' = masked /\ pc' = pc
        /\ written' = written
    BY <1>3 DEF DevSend, mode, pollVars, rxHist
  <2> QED BY <2>1 DEF Waking
<1>4. CASE IrqRxTx
  <2>1. /\ ~masked /\ masked' /\ pc' = "scheduled"
        /\ kind' = kind /\ on' = on /\ tx' = tx /\ dev' = dev /\ rcvd' = rcvd /\ written' = written
    BY <1>4 DEF IrqRxTx, mode, rxHist, Waking
  <2>2. kind = "net" => tx.add = 0
    BY <2>1 DEF Waking
  <2> QED BY <2>1, <2>2 DEF Waking
<1> QED BY <1>2, <1>3, <1>4

(* A poll leaves no frame and no doorbell behind.                          *)
LEMMA WakingPoll ==
  ASSUME VInv, Waking, NetPoll
  PROVE  Waking'
<1>1. CASE Poll
  <2>1. /\ pc = "scheduled" /\ pc' = "rx" /\ kind = "net" /\ masked' = masked
        /\ kind' = kind /\ written' = written
    BY <1>1 DEF Poll, mode, rxHist, irqVars
  <2> QED BY <2>1 DEF Waking
<1>2. CASE RxOne
  <2>1. /\ pc = "rx" /\ pc' = pc /\ kind = "net" /\ masked' = masked
        /\ kind' = kind /\ written' = written
    BY <1>2 DEF RxOne, mode, Counts, irqVars
  <2> QED BY <2>1 DEF Waking
<1>3. CASE RxEnd
  <2>1. /\ pc = "rx" /\ pc' = "end" /\ kind = "net" /\ masked' = masked /\ pending' = pending
        /\ kind' = kind /\ on' = on /\ written' = written /\ rcvd' = rcvd
    BY <1>3 DEF RxEnd, mode, rxHist, irqVars
  <2>2. TypeOK /\ Sending /\ on = "up" /\ tx \in TxType /\ dev \in DevType /\ RxRing
    <3>1. on = "up"
      BY <2>1 DEF VInv, Modes
    <3> QED BY <3>1, Types DEF VInv, Receiving, Enabled
  <2>3. rcvd # written => ~BudgetLeft'
    <3>1. Budget \in Nat
      BY VectorAssumption
    <3>2. ~Ready => rcvd = written
      BY <2>2, NoneReady
    <3>3. polled = Budget \/ ~Ready
      BY <1>3 DEF RxEnd
    <3>4. polled' = polled \/ polled' = Budget
      BY <1>3 DEF RxEnd
    <3>5. rcvd # written => polled' = Budget
      BY <3>2, <3>3, <3>4
    <3> QED BY <3>1, <3>5 DEF BudgetLeft
  <2>4. tx'.add = 0
    <3>1. CASE Flush(tx, dev)
      BY <2>2, <3>1, FlushIs
    <3>2. CASE tx.add = 0 /\ (tx' = tx \/ tx' = XdpComplete(tx))
      BY <2>1, <2>2, <3>2, XdpRing
    <3> QED BY <1>3, <3>1, <3>2 DEF RxEnd
  <2> QED BY <2>1, <2>3, <2>4 DEF Waking
<1>4. CASE PollEnd
  <2>1. /\ pc = "end" /\ kind = "net" /\ kind' = kind /\ on' = on /\ pending' = pending
        /\ written' = written /\ rcvd' = rcvd /\ tx' = tx
        /\ \/ BudgetLeft /\ pc' = "idle" /\ masked' = FALSE
           \/ ~BudgetLeft /\ pc' = "scheduled" /\ masked' = masked
    BY <1>4 DEF PollEnd, mode, rxHist
  <2> QED BY <2>1 DEF Waking
<1> QED BY <1>1, <1>2, <1>3, <1>4 DEF NetPoll

(* The tasklet completes all that was sent.                                *)
LEMMA WakingTasklet ==
  ASSUME VInv, Waking, CtrlTasklet \/ CtrlTx \/ CtrlTxFails
  PROVE  Waking'
<1>0. TypeOK /\ tx \in TxType /\ dev \in DevType
  BY Types DEF VInv
<1>1. CASE CtrlPoll
  <2>1. /\ kind = "ctrl" /\ kind' = kind /\ pc = "scheduled" /\ pc' = "rx" /\ masked' = masked
    BY <1>1 DEF CtrlPoll, mode, irqVars
  <2>2. tx'.qcp = dev'.tx_rd
    <3>1. PICK n \in 0 .. Len(queue), t \in TxType, x \in 0 .. TxCnt - 1 : RingPolled(n, t, x)
      BY <1>1, CtrlPolled
    <3>2. Flush(t, dev) /\ TxRing(t, dev, x, 0)
      BY <3>1 DEF RingPolled
    <3>3. tx'.qcp = t.qcp /\ dev'.tx_rd = dev.tx_rd
      BY <1>0, <3>2, FlushIs DEF Flushed
    <3> QED BY <3>2, <3>3 DEF TxRing
  <2> QED BY <2>1, <2>2 DEF Waking
<1>2. CASE CtrlRxOne
  <2>1. /\ kind = "ctrl" /\ kind' = kind /\ pc = "rx" /\ pc' \in {"rx", "end"} /\ masked' = masked
        /\ tx' = tx /\ pending' = pending
    BY <1>2 DEF CtrlRxOne, mode, irqVars
  <2>2. dev'.tx_rd = dev.tx_rd
    <3>1. dev' = TellDevice(dev)
      BY <1>2 DEF CtrlRxOne, Reuse, Pass
    <3> QED BY <1>0, <3>1, TellsOnly
  <2> QED BY <2>1, <2>2 DEF Waking
<1>3. CASE CtrlRxNone
  <2>1. /\ kind = "ctrl" /\ kind' = kind /\ pc = "rx" /\ pc' = "end" /\ masked' = masked
        /\ tx' = tx /\ pending' = pending /\ dev' = dev
    BY <1>3 DEF CtrlRxNone, mode, irqVars
  <2> QED BY <2>1 DEF Waking
<1>4. CASE CtrlPollEnd
  <2>1. /\ kind = "ctrl" /\ kind' = kind /\ pc = "end" /\ tx' = tx /\ pending' = pending /\ dev' = dev
        /\ \/ pc' = "scheduled" /\ masked' = masked
           \/ pc' = "idle" /\ masked' = FALSE
    BY <1>4 DEF CtrlPollEnd, mode
  <2> QED BY <2>1 DEF Waking
<1>5. CASE CtrlTx \/ CtrlTxFails
  <2>1. /\ kind = "ctrl" /\ kind' = kind /\ pc' = pc /\ masked' = masked /\ pending' = pending
    BY <1>5 DEF CtrlTx, CtrlTxFails, mode, irqVars, pollVars
  <2>2. tx'.qcp = tx.qcp /\ dev'.tx_rd = dev.tx_rd
    <3>1. CASE UNCHANGED <<tx, dev>>
      BY <3>1
    <3>2. CASE Flush(WithMsg(tx, handed'), dev) /\ CtrlTx
      <4>1. handed' \in Nat
        <5>1. handed \in Nat /\ handed' = handed + 1
          BY <1>0, <3>2, Types DEF CtrlTx
        <5> QED BY <5>1
      <4>2. WithMsg(tx, handed') \in TxType /\ WithMsg(tx, handed').qcp = tx.qcp
        BY <1>0, <4>1, WithMsgIs DEF Put
      <4> QED BY <1>0, <3>2, <4>2, FlushIs DEF Flushed
    <3> QED BY <1>5, <3>1, <3>2 DEF CtrlTx, CtrlTxFails
  <2> QED BY <2>1, <2>2 DEF Waking
<1> QED BY <1>1, <1>2, <1>3, <1>4, <1>5 DEF CtrlTasklet

(* Closing waits for the poll, and what is in the rings then is lost.      *)
LEMMA WakingDown ==
  ASSUME VInv, Waking,
         StackFrees \/ CloseStack \/ DisableAndReset \/ BufsFree \/ BufsAlloc \/ Open \/ UNCHANGED vars
  PROVE  Waking'
<1>1. CASE StackFrees \/ UNCHANGED vars
  <2>1. UNCHANGED <<kind, on, tx, dev, masked, pending, pc, polled, written, rcvd>>
    BY <1>1 DEF StackFrees, vars, mode, irqVars, pollVars, rxHist
  <2> QED BY <2>1 DEF Waking, BudgetLeft
<1>2. CASE CloseStack \/ DisableAndReset \/ BufsFree \/ BufsAlloc
  <2>1. /\ kind' = kind /\ on' # "up" /\ masked' = masked /\ pc' = pc /\ written' = written
    BY <1>2 DEF CloseStack, DisableAndReset, BufsFree, BufsAlloc, irqVars, pollVars, rxHist
  <2>2. kind = "net"
    <3>1. CloseStack \/ on # "up"
      BY <1>2 DEF DisableAndReset, BufsFree, BufsAlloc
    <3> QED BY <3>1, DownMeans DEF CloseStack
  <2>3. tx' = tx \/ tx'.add = 0
    BY <1>2 DEF CloseStack, DisableAndReset, BufsFree, BufsAlloc, EmptyTx
  <2> QED BY <2>1, <2>2, <2>3 DEF Waking
<1>3. CASE Open
  <2>1. /\ on = "reset" /\ kind' = kind /\ masked' = masked /\ pc' = pc
        /\ written' = written /\ rcvd' = rcvd /\ tx' = tx
    BY <1>3 DEF Open, irqVars, pollVars, rxHist
  <2>2. rcvd = written /\ kind = "net"
    <3>1. ~Enabled /\ on # "up"
      BY <2>1 DEF Enabled
    <3>2. RxEmpty
      BY <3>1 DEF VInv, Receiving
    <3> QED BY <3>1, <3>2, DownMeans DEF RxEmpty
  <2> QED BY <2>1, <2>2 DEF Waking
<1> QED BY <1>1, <1>2, <1>3

LEMMA WakingNext == VInv /\ Waking /\ [Next]_vars => Waking'
<1> SUFFICES ASSUME VInv, Waking, [Next]_vars PROVE Waking'
  OBVIOUS
<1>1. CASE DevReceive \/ DevSend \/ IrqRxTx
  BY <1>1, WakingDev
<1>2. CASE NetPoll
  BY <1>2, WakingPoll
<1>3. CASE CtrlTasklet \/ CtrlTx \/ CtrlTxFails
  BY <1>3, WakingTasklet
<1>4. CASE StackFrees \/ CloseStack \/ DisableAndReset \/ BufsFree \/ BufsAlloc \/ Open \/ UNCHANGED vars
  BY <1>4, WakingDown
<1> QED BY <1>1, <1>2, <1>3, <1>4 DEF Next

LEMMA InitWaking == Init => Waking
<1>1. MaxFrames \in Nat
  BY VectorAssumption
<1> QED BY <1>1 DEF Init, Waking, EmptyTx, DevFilled

(* Neither the device, nor an interrupt, nor a poll has anything to do.    *)
AtRest ==
  /\ on = "up" /\ pc = "idle" /\ ~(pending /\ ~masked)
  /\ dev.tx_rd = dev.tx_wr
  /\ kind = "net" /\ written < MaxFrames => dev.fl_rd = dev.fl_wr

LEMMA RingAtRest ==
  ASSUME VInv, Waking, AtRest
  PROVE  InRing = <<>> /\ (kind = "net" => Len(out) = 0)
         /\ (kind = "ctrl" /\ queue # <<>> => TxCnt = 1)
<1>1. /\ TypeOK /\ Sending /\ tx \in TxType /\ pc = "idle" /\ ~pending /\ dev.tx_rd = dev.tx_wr
  BY Types DEF VInv, Waking, AtRest
<1>2. PICK u \in 0 .. TxCnt - 1, v \in 0 .. TxCnt - 1 : TxRing(tx, dev, u, v) /\ Transit(u, v)
  BY <1>1 DEF Sending
<1>3. u \in Int /\ v \in Int /\ 0 \in Int /\ TxCnt \in Nat /\ u - v < TxCnt /\ v - u < TxCnt
      /\ 0 - v < TxCnt /\ v - 0 < TxCnt
  BY Sizes
<1>4. tx.add = 0
  <2>1. kind = "net" => tx.add = 0
    BY <1>1 DEF Waking
  <2>2. kind # "net" => tx.add = 0
    BY <1>2 DEF Transit
  <2> QED BY <2>1, <2>2
<1>5. u = v
  <2>1. u - tx.add = u
    BY <1>3, <1>4
  <2>2. At(tx, u) = At(tx, v)
    BY <1>1, <1>2, <2>1 DEF TxRing
  <2> QED BY <1>1, <1>3, <2>2, AtOnce
<1>6. InRing = <<>>
  <2>1. InRing = [k \in 1 .. u - v |-> tx.bufs[At(tx, v + k - 1)]]
    BY <1>1, <1>2, InRingIs
  <2>2. 1 .. u - v = {}
    BY <1>3, <1>5
  <2> QED BY <2>1, <2>2
<1>7. ASSUME kind = "net" PROVE Len(out) = 0
  <2>1. Len(out) = u - v
    BY <1>2, <1>7 DEF Transit, Frames
  <2> QED BY <1>3, <1>5, <2>1
<1>8. ASSUME kind = "ctrl", queue # <<>> PROVE TxCnt = 1
  <2>1. tx.qcp = dev.tx_rd
    BY <1>1, <1>8 DEF Waking
  <2>2. At(tx, 0) = At(tx, v)
    BY <1>2, <2>1 DEF TxRing
  <2>3. 0 = v
    BY <1>1, <1>3, <2>2, AtOnce
  <2>4. u = TxCnt - 1
    BY <1>2, <1>8 DEF Transit
  <2> QED BY <1>3, <1>5, <2>3, <2>4
<1> QED BY <1>6, <1>7, <1>8

LEMMA FramesAtRest ==
  ASSUME VInv, Waking, AtRest, kind = "net"
  PROVE  rcvd = MaxFrames
<1>1. TypeOK /\ RxRing /\ on = "up" /\ pc = "idle" /\ ~pending
  <2>1. on = "up" /\ pc = "idle" /\ ~pending
    BY DEF AtRest, Waking
  <2> QED BY <2>1 DEF VInv, Receiving, Enabled
<1>2. rcvd = written /\ written \in Nat /\ written <= MaxFrames /\ MaxFrames \in Nat
  BY <1>1, Types, VectorAssumption DEF Waking
<1>3. dev.fl_rd # dev.fl_wr
  <2>1. Filling = 0
    BY <1>2 DEF Filling
  <2>2. dev.fl_rd = RxSlot(0) /\ dev.fl_wr = RxSlot(Known)
    BY <1>1, <2>1 DEF RxRing
  <2>3. Known \in 0 .. Cnt - 1 /\ 0 \in 0 .. Cnt - 1 /\ Known # 0
    BY <1>1, KnownIs, Sizes
  <2>4. RxSlot(0) # RxSlot(Known)
    BY <1>1, <2>3, RxSlotOnce
  <2> QED BY <2>2, <2>4
<1>4. ~(written < MaxFrames)
  BY <1>3 DEF AtRest
<1> QED BY <1>2, <1>4

(* When nothing is under way any more, all frames were taken from the      *)
(* ring, and what XDP programs sent back and the messages in the queue are *)
(* gone: nfp_net_poll() and nfp_ctrl_poll() leave nothing that only        *)
(* another frame or message would bring to light.                          *)
THEOREM NothingIsLeft ==
  ASSUME TxCnt > 1
  PROVE  Spec => [](AtRest => /\ InRing = <<>>
                              /\ IF kind = "net" THEN rcvd = MaxFrames /\ out = <<>>
                                 ELSE queue = <<>>)
<1> DEFINE Done == /\ InRing = <<>>
                   /\ IF kind = "net" THEN rcvd = MaxFrames /\ out = <<>> ELSE queue = <<>>
<1>1. VInv /\ Waking /\ AtRest => Done
  <2> SUFFICES ASSUME VInv, Waking, AtRest PROVE Done
    OBVIOUS
  <2>1. TxCnt # 1 /\ kind \in {"net", "ctrl"} /\ out \in Seq(Nat)
    BY Types DEF VInv
  <2>2. Len(out) = 0 => out = <<>>
    BY <2>1
  <2> QED BY <2>1, <2>2, RingAtRest, FramesAtRest
<1> HIDE DEF Done
<1>2. Spec => [](AtRest => Done)
  BY <1>1, InitWaking, WakingNext, VectorHolds, PTL DEF Spec
<1> QED BY <1>2 DEF Done

============================================================================
