--------------------------- MODULE Logging_proofs ---------------------------
(***************************************************************************)
(* Proofs about what of a conversation is written down (Logging), for any  *)
(* limit, page, number of messages and of mishaps.                         *)
(*                                                                         *)
(* LoggedOnlyWanted. What is written down is what stands behind the place  *)
(* the log was left off at. That it is nothing that was seen before is not *)
(* inductive: it takes how the buffer is in order although our own echoes  *)
(* come late (Ordered), and how what has been seen lies around that place  *)
(* (Cursor). Whatever may change the buffer is then gone through for these *)
(* two, and whatever may change the log for what is in it.                 *)
(*                                                                         *)
(* ImplementsJournal. What has been taken down lies in the file, the batch *)
(* that is being written and the queue, and may be there twice; the        *)
(* journal is what is met first of each. So it has to be shown what        *)
(* Distinct makes of sequences put behind one another (DistinctSame,       *)
(* DistinctAgain), and that dropping the oldest leaves the rest in the     *)
(* order in which it was first met (DropsInOrder).                         *)
(*                                                                         *)
(* DueIsWritten. A line that is due and not taken down yet stands behind   *)
(* the place the log was left off at. With no line of our own that place   *)
(* is never ahead of what was read, and no more than `stale` entries are   *)
(* newer, fewer than Limit, so that none of them is trimmed (DueInv).      *)
(***************************************************************************)
EXTENDS Conversation_proofs, Logging

----------------------------------------------------------------------------
(* What a buffer shows of a log, and how it changes.                       *)

\* What is in the buffer, of a log l read up to r: lines of it, and lines that wait.
Shows(b, l, r) ==
    \A i \in 1..Len(b) :
       IF b[i].pending
       THEN b[i].text \in Texts /\ \E q \in 0..Len(l) : b[i].at = 2 * q + 1
       ELSE \E q \in 1..r : b[i].at = 2 * q /\ b[i].text = l[q]

\* The line m is put where entry i waited for it.
Put(b, i, m, s) ==
    /\ i \in 1..Len(b) /\ b[i].pending /\ b[i].text = m.text
    /\ s \in Seq(Entries) /\ Len(s) = Len(b) /\ s[i] = m
    /\ \A k \in 1..Len(b) : k # i => s[k] = b[k]
    /\ \A k \in 1..Len(b) : ~Same(b[k], m)

\* It is taken in behind the first p, after what is not newer than it.
TakenAt(b, p, m, s) ==
    /\ p \in 0..Len(b)
    /\ s \in Seq(Entries) /\ Len(s) = Len(b) + 1 /\ s[p + 1] = m
    /\ \A k \in 1..p : s[k] = b[k]
    /\ \A k \in (p + 1)..Len(b) : s[k + 1] = b[k]
    /\ \A k \in (p + 2)..(Len(b) + 1) : s[k] = b[k - 1]
    /\ p > 0 => b[p].at <= m.at
    /\ p < Len(b) => m.at < b[p + 1].at /\ m.at < b[Len(b)].at
    /\ \A k \in 1..Len(b) : ~Same(b[k], m)
    /\ \A k \in 1..Len(b) : ~(b[k].pending /\ b[k].text = m.text)

\* How many entries are too many.
Excess(s) == IF Len(s) > Limit THEN Len(s) - Limit ELSE 0

\* They are what a trim drops.
LEMMA TrimmedTo ==
    ASSUME NEW s \in Seq(Entries)
    PROVE  /\ Trimmed(s) \in Seq(Entries)
           /\ EndOf(Trimmed(s), s, Excess(s))
<1> DEFINE n == IF Len(s) > Limit THEN Len(s) - Limit + 1 ELSE 1
<1>0. Len(s) \in Nat /\ Limit \in Nat /\ Limit > 0
  BY BufferAssumption
<1>1. n \in 1..(Len(s) + 1) /\ n - 1 \in 0..Len(s) /\ n - 1 = Excess(s)
  BY <1>0 DEF Excess
<1>2. Trimmed(s) = SubSeq(s, n, Len(s))
  BY DEF Trimmed
<1> HIDE DEF n
<1>4. /\ SubSeq(s, n, Len(s)) \in Seq(Entries)
      /\ Len(SubSeq(s, n, Len(s))) = Len(s) - (n - 1)
      /\ \A k \in 1..(Len(s) - (n - 1)) : SubSeq(s, n, Len(s))[k] = s[k + (n - 1)]
  BY <1>0, <1>1
<1> QED BY <1>1, <1>2, <1>4 DEF EndOf

\* An entry taken in at its place.
LEMMA TakenAtPlace ==
    ASSUME NEW b \in Seq(Entries), NEW m \in Entries,
           \A k \in 1..Len(b) : ~Same(b[k], m),
           \A k \in 1..Len(b) : ~(b[k].pending /\ b[k].text = m.text)
    PROVE  TakenAt(b, Place(b, m.at), m, Spliced(b, Place(b, m.at), m))
<1> DEFINE p == Place(b, m.at)
           s == Spliced(b, p, m)
<1>0. m.at \in Nat /\ Len(b) \in Nat /\ \A k \in 1..Len(b) : b[k].at \in Nat
  <2>1. \A k \in 1..Len(b) : b[k] \in Entries
    OBVIOUS
  <2> QED BY <2>1, EntryFields
<1>1. /\ p \in 0..Len(b)
      /\ p > 0 => b[p].at <= m.at
      /\ p < Len(b) => ~(b[p + 1].at <= m.at) /\ ~(b[Len(b)].at <= m.at)
  BY <1>0, PlaceIs
<1> HIDE DEF p
<1>2. /\ s \in Seq(Entries)
      /\ Len(s) = Len(b) + 1
      /\ \A k \in 1..p : s[k] = b[k]
      /\ s[p + 1] = m
      /\ \A k \in (p + 2)..(Len(b) + 1) : s[k] = b[k - 1]
  <2>1. s \in Seq(Entries) /\ Len(s) = Len(b) + 1
    BY <1>1, SplicedIs
  <2>2. \A k \in 1..p : s[k] = b[k]
    BY <1>1, SplicedIs
  <2>3. s[p + 1] = m
    BY <1>1, SplicedIs
  <2>4. \A k \in (p + 2)..(Len(b) + 1) : s[k] = b[k - 1]
    BY <1>1, SplicedIs
  <2> HIDE DEF s
  <2> QED BY <2>1, <2>2, <2>3, <2>4
<1> HIDE DEF s
<1>3. ASSUME NEW k \in (p + 1)..Len(b) PROVE s[k + 1] = b[k]
  <2>1. k + 1 \in (p + 2)..(Len(b) + 1) /\ (k + 1) - 1 = k
    BY <1>0, <1>1
  <2> QED BY <1>2, <2>1
<1>4. p < Len(b) => m.at < b[p + 1].at /\ m.at < b[Len(b)].at
  <2>1. p < Len(b) => p + 1 \in 1..Len(b) /\ Len(b) \in 1..Len(b)
    BY <1>0, <1>1
  <2> QED BY <1>0, <1>1, <2>1
<1>5. TakenAt(b, p, m, s)
  BY <1>1, <1>2, <1>3, <1>4 DEF TakenAt
<1> QED BY <1>5 DEF p, s

\* A line read is there, is put in the place of one of ours, or is taken in.
LEMMA ReadChanges ==
    ASSUME NEW b \in Seq(Entries), NEW l, NEW r \in Nat, Shows(b, l, r),
           NEW m \in Entries, ~m.pending, NEW q \in Nat, m.at = 2 * q,
           NEW c, c = IF m.text \in Texts THEN Reconcile(b, m) ELSE Insert(b, m)
    PROVE  \/ c = b /\ \E i \in 1..Len(b) : b[i] = m
           \/ \E i \in 1..Len(b) : Put(b, i, m, c)
           \/ \E p \in 0..Len(b), s \in Seq(Entries) : TakenAt(b, p, m, s) /\ c = Trimmed(s)
<1>0. ASSUME NEW i \in 1..Len(b), Same(b[i], m) PROVE b[i] = m
  <2>1. b[i] \in Entries
    OBVIOUS
  <2>2. ~b[i].pending
    <3>1. ASSUME b[i].pending PROVE FALSE
      <4>1. PICK k \in 0..Len(l) : b[i].at = 2 * k + 1
        BY <3>1 DEF Shows
      <4>2. k \in Int /\ 2 * k + 1 = 2 * q
        BY <1>0, <4>1 DEF Same
      <4> QED BY <4>2
    <3> QED BY <3>1
  <2> QED BY <1>0, <2>1, <2>2, SameEntry
<1>1. CASE \E i \in 1..Len(b) : b[i].pending /\ b[i].text = m.text /\ (\A j \in 1..Len(b) : b[j] # m)
                                /\ c = [b EXCEPT ![i] = m]
  <2>1. PICK i \in 1..Len(b) : b[i].pending /\ b[i].text = m.text /\ (\A j \in 1..Len(b) : b[j] # m)
                                /\ c = [b EXCEPT ![i] = m]
    BY <1>1
  <2>2. c \in Seq(Entries) /\ Len(c) = Len(b) /\ c[i] = m
        /\ \A k \in 1..Len(b) : k # i => c[k] = b[k]
    BY <2>1
  <2>3. \A k \in 1..Len(b) : ~Same(b[k], m)
    BY <1>0, <2>1
  <2>4. Put(b, i, m, c)
    BY <2>1, <2>2, <2>3 DEF Put
  <2> QED BY <2>4
<1>2. CASE /\ c = Insert(b, m)
           /\ \/ \A i \in 1..Len(b) : ~(b[i].pending /\ b[i].text = m.text)
              \/ \E i \in 1..Len(b) : b[i] = m
  <2>1. CASE \E i \in 1..Len(b) : Same(b[i], m) /\ Insert(b, m) = [b EXCEPT ![i] = Settled(m)]
    <3>1. PICK i \in 1..Len(b) : Same(b[i], m) /\ Insert(b, m) = [b EXCEPT ![i] = Settled(m)]
      BY <2>1
    <3>2. b[i] = m
      BY <1>0, <3>1
    <3>3. Insert(b, m) = b
      BY <3>1, <3>2, SetSettled
    <3> QED BY <1>2, <3>2, <3>3
  <2>2. CASE /\ \A i \in 1..Len(b) : ~Same(b[i], m)
             /\ Insert(b, m) = Trimmed(Spliced(b, Place(b, m.at), m))
    <3>1. \A i \in 1..Len(b) : b[i] # m
      BY <2>2 DEF Same
    <3>2. TakenAt(b, Place(b, m.at), m, Spliced(b, Place(b, m.at), m))
      BY <1>2, <2>2, <3>1, TakenAtPlace
    <3>3. Place(b, m.at) \in 0..Len(b) /\ Spliced(b, Place(b, m.at), m) \in Seq(Entries)
      BY <3>2 DEF TakenAt
    <3> QED BY <1>2, <2>2, <3>2, <3>3
  <2> QED BY <2>1, <2>2, InsertIs
<1>3. CASE m.text \in Texts
  BY <1>1, <1>2, <1>3, ReconcileIs
<1>4. CASE m.text \notin Texts
  <2>1. \A i \in 1..Len(b) : ~(b[i].pending /\ b[i].text = m.text)
    BY <1>4 DEF Shows
  <2> QED BY <1>2, <1>4, <2>1
<1> QED BY <1>3, <1>4

\* A line of ours, newer than all there is, is taken in at the end.
LEMMA SayChanges ==
    ASSUME NEW b \in Seq(Entries), NEW m \in Entries,
           \A k \in 1..Len(b) : b[k].text # m.text /\ b[k].at <= m.at
    PROVE  \E s \in Seq(Entries) : TakenAt(b, Len(b), m, s) /\ Insert(b, m) = Trimmed(s)
<1>0. m.at \in Nat /\ Len(b) \in Nat /\ \A k \in 1..Len(b) : b[k].at \in Nat
  <2>1. \A k \in 1..Len(b) : b[k] \in Entries
    OBVIOUS
  <2> QED BY <2>1, EntryFields
<1>1. \A k \in 1..Len(b) : ~Same(b[k], m) /\ ~(b[k].pending /\ b[k].text = m.text)
  BY DEF Same
<1>2. TakenAt(b, Place(b, m.at), m, Spliced(b, Place(b, m.at), m))
  BY <1>1, TakenAtPlace
<1>3. Place(b, m.at) = Len(b)
  <2>1. Place(b, m.at) \in 0..Len(b) /\ (Place(b, m.at) < Len(b) => m.at < b[Len(b)].at)
    BY <1>2 DEF TakenAt
  <2>2. Len(b) > 0 => b[Len(b)].at <= m.at
    BY <1>0
  <2> QED BY <1>0, <2>1, <2>2
<1>4. Insert(b, m) = Trimmed(Spliced(b, Place(b, m.at), m))
  BY <1>1, InsertIs
<1>5. Spliced(b, Place(b, m.at), m) \in Seq(Entries)
  BY <1>2 DEF TakenAt
<1> QED BY <1>2, <1>3, <1>4, <1>5

----------------------------------------------------------------------------
(* A buffer in order, although our own echoes come late.                   *)

\* No entry is newer than the last but a line of ours that was confirmed.
Rising(b) ==
    \A i \in 1..Len(b) :
       b[i].at <= b[Len(b)].at \/ (~b[i].pending /\ b[i].text \in Texts)

\* Behind such a line all is older than it and newer than any line of ours
\* before it; it is not asked for (pg).
Dips(b, l, pg) ==
    \A j \in 1..Len(b) :
       ~b[j].pending /\ b[j].text \in Texts /\ b[Len(b)].at < b[j].at =>
          /\ \A k \in (j + 1)..Len(b) :
                /\ b[k].at < b[j].at
                /\ \A q \in 1..Len(l) : l[q] \in Texts /\ 2 * q < b[j].at => 2 * q < b[k].at
          /\ \A q \in pg : b[j].at # 2 * q

\* A line that waits has the older before it and the newer behind it.
Splits(b) ==
    \A i \in 1..Len(b) : b[i].pending =>
       \A j \in 1..Len(b) : /\ j < i => b[j].at <= b[i].at
                            /\ i < j => b[i].at <= b[j].at

\* What is logged of ours is logged in the order it was said in (os: what is on
\* its way).
InTurn(b, l, os) ==
    \A i \in 1..Len(b) : b[i].pending =>
       /\ \A p \in 1..Len(l) : l[p] = b[i].text =>
             /\ b[i].at < 2 * p
             /\ \A q \in 1..Len(l) : l[q] \in Texts /\ b[i].at < 2 * q => p <= q
             /\ \A j \in 1..Len(b) : i < j /\ b[j].pending => 2 * p < b[j].at
       /\ b[i].text \in os =>
             /\ \A q \in 1..Len(l) : l[q] \in Texts => 2 * q < b[i].at
             /\ \A j \in 1..Len(b) : i < j => ~b[j].pending

\* All of it.
Ordered(b, l, pg, os) ==
    /\ Keys(b) /\ Alone(b) /\ Rising(b) /\ Dips(b, l, pg) /\ Splits(b) /\ InTurn(b, l, os)

\* The parts of the entries of a buffer.
LEMMA Numbers ==
    ASSUME NEW b \in Seq(Entries)
    PROVE  /\ Len(b) \in Nat
           /\ \A k \in 1..Len(b) : b[k].at \in Nat /\ b[k].text \in {Other} \cup Texts /\ b[k].pending \in BOOLEAN
<1>1. \A k \in 1..Len(b) : b[k] \in Entries
  OBVIOUS
<1> QED BY <1>1, EntryFields

\* What is taken in at its place leaves it so: first the last entry,
LEMMA TakenRises ==
    ASSUME NEW b \in Seq(Entries), NEW m \in Entries, NEW p, NEW s, TakenAt(b, p, m, s),
           Rising(b)
    PROVE  Rising(s)
<1>0. /\ Len(b) \in Nat /\ \A k \in 1..Len(b) : b[k].at \in Nat
      /\ m.at \in Nat
  BY Numbers, EntryFields
<1>1. /\ p \in 0..Len(b) /\ Len(s) = Len(b) + 1 /\ s[p + 1] = m
      /\ \A k \in 1..p : s[k] = b[k]
      /\ \A k \in (p + 2)..(Len(b) + 1) : s[k] = b[k - 1]
      /\ p > 0 => b[p].at <= m.at
      /\ p < Len(b) => m.at < b[p + 1].at /\ m.at < b[Len(b)].at
  BY DEF TakenAt
<1> SUFFICES ASSUME NEW i \in 1..(Len(b) + 1)
             PROVE  s[i].at <= s[Len(b) + 1].at \/ (~s[i].pending /\ s[i].text \in Texts)
  BY <1>1 DEF Rising
<1>2. CASE p = Len(b)
  <2>1. CASE i = p + 1
    BY <1>0, <1>1, <1>2, <2>1
  <2>2. CASE i # p + 1
    <3>1. i \in 1..Len(b) /\ s[i] = b[i] /\ Len(b) > 0
      BY <1>0, <1>1, <1>2, <2>2
    <3>2. b[i].at <= b[Len(b)].at \/ (~b[i].pending /\ b[i].text \in Texts)
      BY <3>1 DEF Rising
    <3>3. b[Len(b)].at <= m.at
      BY <1>1, <1>2, <3>1
    <3> QED BY <1>0, <1>1, <1>2, <3>1, <3>2, <3>3
  <2> QED BY <2>1, <2>2
<1>3. CASE p < Len(b)
  <2>1. s[Len(b) + 1] = b[Len(b)] /\ Len(b) \in 1..Len(b)
    BY <1>0, <1>1, <1>3
  <2>2. CASE i = p + 1
    BY <1>0, <1>1, <1>3, <2>1, <2>2
  <2>3. CASE i # p + 1
    <3>1. PICK k \in 1..Len(b) : s[i] = b[k]
      <4>1. CASE i <= p
        BY <1>0, <1>1, <4>1
      <4>2. CASE i > p + 1
        BY <1>0, <1>1, <4>2
      <4> QED BY <1>0, <1>1, <2>3, <4>1, <4>2
    <3> QED BY <2>1, <3>1 DEF Rising
  <2> QED BY <2>2, <2>3
<1> QED BY <1>0, <1>1, <1>2, <1>3

\* Where the entries of s come from, and in which order.
LEMMA TakenFrom ==
    ASSUME NEW b \in Seq(Entries), NEW m \in Entries, NEW p, NEW s, TakenAt(b, p, m, s)
    PROVE  /\ p + 1 \in 1..Len(s) /\ s[p + 1] = m /\ Len(s) \in Nat
           /\ \A i \in 1..Len(s) :
                 \/ i = p + 1
                 \/ i < p + 1 /\ i \in 1..Len(b) /\ s[i] = b[i]
                 \/ p + 1 < i /\ i - 1 \in 1..Len(b) /\ s[i] = b[i - 1]
           /\ IF p = Len(b) THEN s[Len(s)] = m ELSE Len(b) > 0 /\ s[Len(s)] = b[Len(b)]
<1>0. Len(b) \in Nat
  BY Numbers
<1>1. /\ p \in 0..Len(b) /\ Len(s) = Len(b) + 1 /\ s[p + 1] = m
      /\ \A k \in 1..p : s[k] = b[k]
      /\ \A k \in (p + 2)..(Len(b) + 1) : s[k] = b[k - 1]
  BY DEF TakenAt
<1>2. ASSUME NEW i \in 1..Len(s), i # p + 1
      PROVE  \/ i < p + 1 /\ i \in 1..Len(b) /\ s[i] = b[i]
             \/ p + 1 < i /\ i - 1 \in 1..Len(b) /\ s[i] = b[i - 1]
  <2>1. CASE i < p + 1
    <3>1. i \in 1..p /\ i \in 1..Len(b)
      BY <1>0, <1>1, <2>1
    <3> QED BY <1>1, <2>1, <3>1
  <2>2. CASE p + 1 < i
    <3>1. i \in (p + 2)..(Len(b) + 1) /\ i - 1 \in 1..Len(b)
      BY <1>0, <1>1, <2>2
    <3> QED BY <1>1, <2>2, <3>1
  <2> QED BY <1>0, <1>1, <1>2, <2>1, <2>2
<1>5. p + 1 \in 1..Len(s) /\ Len(s) \in Nat
  BY <1>0, <1>1
<1>3. CASE p = Len(b)
  <2>1. s[Len(s)] = m
    BY <1>1, <1>3
  <2> QED BY <1>1, <1>2, <1>3, <1>5, <2>1
<1>4. CASE p # Len(b)
  <2>1. Len(b) + 1 \in (p + 2)..(Len(b) + 1) /\ (Len(b) + 1) - 1 = Len(b) /\ Len(b) > 0
    BY <1>0, <1>1, <1>4
  <2>2. s[Len(b) + 1] = b[(Len(b) + 1) - 1]
    BY <1>1, <2>1
  <2>3. s[Len(s)] = b[Len(b)]
    BY <1>1, <2>1, <2>2
  <2> QED BY <1>1, <1>2, <1>4, <1>5, <2>1, <2>3
<1> QED BY <1>3, <1>4

\* Two entries of s are two of b, or one of them is m.
LEMMA TakenPair ==
    ASSUME NEW b \in Seq(Entries), NEW m \in Entries, NEW p, NEW s, TakenAt(b, p, m, s),
           NEW i \in 1..Len(s), NEW j \in 1..Len(s), i < j
    PROVE  \/ \E k, n \in 1..Len(b) : k < n /\ s[i] = b[k] /\ s[j] = b[n]
           \/ i = p + 1 /\ s[i] = m /\ \E n \in 1..Len(b) : p < n /\ s[j] = b[n]
           \/ j = p + 1 /\ s[j] = m /\ \E k \in 1..Len(b) : k <= p /\ s[i] = b[k]
<1>0. Len(b) \in Nat /\ p \in 0..Len(b)
  BY Numbers DEF TakenAt
<1>1. /\ s[p + 1] = m /\ Len(s) \in Nat
      /\ \A x \in {i, j} : \/ x = p + 1
                           \/ x < p + 1 /\ x \in 1..Len(b) /\ s[x] = b[x]
                           \/ p + 1 < x /\ x - 1 \in 1..Len(b) /\ s[x] = b[x - 1]
  BY TakenFrom
<1>2. CASE i = p + 1
  <2>1. j - 1 \in 1..Len(b) /\ s[j] = b[j - 1] /\ p < j - 1
    BY <1>0, <1>1, <1>2
  <2> QED BY <1>1, <1>2, <2>1
<1>3. CASE j = p + 1
  <2>1. i \in 1..Len(b) /\ s[i] = b[i] /\ i <= p
    BY <1>0, <1>1, <1>3
  <2> QED BY <1>1, <1>3, <2>1
<1>4. CASE i # p + 1 /\ j # p + 1
  <2>1. PICK k \in 1..Len(b) : s[i] = b[k] /\ k = (IF i < p + 1 THEN i ELSE i - 1)
    BY <1>0, <1>1, <1>4
  <2>2. PICK n \in 1..Len(b) : s[j] = b[n] /\ n = (IF j < p + 1 THEN j ELSE j - 1)
    BY <1>0, <1>1, <1>4
  <2>3. k < n
    BY <1>0, <1>1, <1>4, <2>1, <2>2
  <2> QED BY <2>1, <2>2, <2>3
<1> QED BY <1>2, <1>3, <1>4

\* ... identities,
LEMMA TakenKeys ==
    ASSUME NEW b \in Seq(Entries), NEW m \in Entries, NEW p, NEW s, TakenAt(b, p, m, s),
           Keys(b), Alone(b), m.pending => \A k \in 1..Len(b) : b[k].text # m.text
    PROVE  Keys(s) /\ Alone(s)
<1>0. p + 1 \in 1..Len(s) /\ s[p + 1] = m /\ Len(s) \in Nat /\ p \in Int
  BY TakenFrom DEF TakenAt
<1>1. /\ \A k \in 1..Len(b) : ~Same(b[k], m)
      /\ \A k \in 1..Len(b) : ~(b[k].pending /\ b[k].text = m.text)
  BY DEF TakenAt
<1>2. ASSUME NEW i \in 1..Len(s), NEW j \in 1..Len(s), i < j
      PROVE  /\ ~Same(s[i], s[j]) /\ ~Same(s[j], s[i])
             /\ ~((s[i].pending \/ s[j].pending) /\ s[i].text = s[j].text)
  <2>1. CASE \E k, n \in 1..Len(b) : k < n /\ s[i] = b[k] /\ s[j] = b[n]
    <3>1. PICK k, n \in 1..Len(b) : k < n /\ s[i] = b[k] /\ s[j] = b[n]
      BY <2>1
    <3>2. k # n
      BY <3>1
    <3> QED BY <3>1, <3>2 DEF Keys, Alone
  <2>2. CASE s[i] = m /\ \E n \in 1..Len(b) : p < n /\ s[j] = b[n]
    BY <1>1, <2>2 DEF Same
  <2>3. CASE s[j] = m /\ \E k \in 1..Len(b) : k <= p /\ s[i] = b[k]
    BY <1>1, <2>3 DEF Same
  <2> QED BY <1>2, <2>1, <2>2, <2>3, TakenPair
<1>3. ASSUME NEW i \in 1..Len(s), NEW j \in 1..Len(s), i # j
      PROVE  ~Same(s[i], s[j]) /\ ~(s[i].pending /\ s[i].text = s[j].text)
  BY <1>0, <1>2, <1>3
<1> QED BY <1>3 DEF Keys, Alone

\* what is before and behind a line that waits,
LEMMA TakenSplits ==
    ASSUME NEW b \in Seq(Entries), NEW m \in Entries, NEW p, NEW s, TakenAt(b, p, m, s),
           Splits(b), m.pending => \A k \in 1..Len(b) : k <= p /\ b[k].at <= m.at
    PROVE  Splits(s)
<1>0. Len(b) \in Nat /\ p \in 0..Len(b) /\ Len(s) \in Nat /\ m.at \in Nat
      /\ \A k \in 1..Len(b) : b[k].at \in Nat
  BY Numbers, TakenFrom, EntryFields DEF TakenAt
<1>1. ASSUME NEW k \in 1..Len(b), k <= p, b[k].pending PROVE b[k].at <= m.at
  <2>1. p \in 1..Len(b) /\ b[p].at <= m.at
    BY <1>0, <1>1 DEF TakenAt
  <2>2. b[k].at <= b[p].at
    <3>1. CASE k < p
      BY <1>1, <2>1, <3>1 DEF Splits
    <3> QED BY <1>0, <1>1, <3>1
  <2> QED BY <1>0, <2>1, <2>2
<1>2. ASSUME NEW n \in 1..Len(b), p < n, b[n].pending PROVE m.at <= b[n].at
  <2>1. p + 1 \in 1..Len(b) /\ m.at < b[p + 1].at
    BY <1>0, <1>2 DEF TakenAt
  <2>2. b[p + 1].at <= b[n].at
    <3>1. CASE p + 1 < n
      BY <1>2, <2>1, <3>1 DEF Splits
    <3>2. CASE p + 1 = n
      BY <1>0, <3>2
    <3> QED BY <1>0, <1>2, <3>1, <3>2
  <2> QED BY <1>0, <2>1, <2>2
<1>3. ASSUME NEW i \in 1..Len(s), NEW j \in 1..Len(s), i < j, s[i].pending \/ s[j].pending
      PROVE  s[i].at <= s[j].at
  <2>1. CASE \E k, n \in 1..Len(b) : k < n /\ s[i] = b[k] /\ s[j] = b[n]
    BY <1>3, <2>1 DEF Splits
  <2>2. CASE s[i] = m /\ \E n \in 1..Len(b) : p < n /\ s[j] = b[n]
    <3>1. PICK n \in 1..Len(b) : p < n /\ s[j] = b[n]
      BY <2>2
    <3>2. ~(n <= p)
      BY <1>0, <3>1
    <3> QED BY <1>2, <1>3, <2>2, <3>1, <3>2
  <2>3. CASE s[j] = m /\ \E k \in 1..Len(b) : k <= p /\ s[i] = b[k]
    BY <1>1, <1>3, <2>3
  <2> QED BY <1>3, <2>1, <2>2, <2>3, TakenPair
<1> QED BY <1>3 DEF Splits

\* what is behind an echo,
LEMMA TakenDips ==
    ASSUME NEW b \in Seq(Entries), NEW m \in Entries, NEW p, NEW s, TakenAt(b, p, m, s),
           NEW l, Len(l) \in Nat, NEW pg, NEW pg2 \in SUBSET pg, Dips(b, l, pg)
    PROVE  Dips(s, l, pg2)
<1>0. Len(b) \in Nat /\ p \in 0..Len(b) /\ Len(s) \in Nat /\ m.at \in Nat
      /\ \A k \in 1..Len(b) : b[k].at \in Nat
  BY Numbers, TakenFrom, EntryFields DEF TakenAt
<1>8. \A k \in 1..Len(s) : s[k].at \in Nat
  BY Numbers DEF TakenAt
<1>1. /\ p > 0 => b[p].at <= m.at
      /\ p < Len(b) => m.at < b[Len(b)].at
  BY DEF TakenAt
<1>2. IF p = Len(b) THEN s[Len(s)] = m ELSE Len(b) > 0 /\ s[Len(s)] = b[Len(b)]
  BY TakenFrom
<1> SUFFICES ASSUME NEW j \in 1..Len(s), ~s[j].pending, s[j].text \in Texts, s[Len(s)].at < s[j].at
             PROVE  /\ \A k \in (j + 1)..Len(s) :
                          /\ s[k].at < s[j].at
                          /\ \A q \in 1..Len(l) : l[q] \in Texts /\ 2 * q < s[j].at => 2 * q < s[k].at
                    /\ \A q \in pg2 : s[j].at # 2 * q
  BY DEF Dips
<1>3. m.at < s[j].at
  BY <1>0, <1>1, <1>2, <1>8
<1>4. PICK n \in 1..Len(b) : s[j] = b[n]
  BY <1>0, <1>3, TakenFrom
<1>5. b[Len(b)].at < b[n].at /\ Len(b) \in 1..Len(b)
  BY <1>0, <1>1, <1>2, <1>4
<1>6. \A q \in pg2 : s[j].at # 2 * q
  BY <1>4, <1>5 DEF Dips
<1>7. ASSUME NEW k \in (j + 1)..Len(s)
      PROVE  /\ s[k].at < s[j].at
             /\ \A q \in 1..Len(l) : l[q] \in Texts /\ 2 * q < s[j].at => 2 * q < s[k].at
  <2>0. k \in 1..Len(s) /\ j < k
    BY <1>0
  <2>1. CASE \E x, y \in 1..Len(b) : x < y /\ s[j] = b[x] /\ s[k] = b[y]
    <3>1. PICK x, y \in 1..Len(b) : x < y /\ s[j] = b[x] /\ s[k] = b[y]
      BY <2>1
    <3>2. y \in (x + 1)..Len(b)
      BY <1>0, <3>1
    <3>3. ~b[x].pending /\ b[x].text \in Texts /\ b[Len(b)].at < b[x].at
      BY <1>4, <1>5, <3>1
    <3> QED BY <3>1, <3>2, <3>3 DEF Dips
  <2>2. CASE s[k] = m /\ \E x \in 1..Len(b) : x <= p /\ s[j] = b[x]
    <3>1. PICK x \in 1..Len(b) : x <= p /\ s[j] = b[x]
      BY <2>2
    <3>2. x < p
      BY <1>0, <1>1, <1>3, <3>1
    <3>3. p \in (x + 1)..Len(b) /\ p \in 1..Len(b)
      BY <1>0, <3>2
    <3>4. ~b[x].pending /\ b[x].text \in Texts /\ b[Len(b)].at < b[x].at
      BY <1>4, <1>5, <3>1
    <3>5. \A q \in 1..Len(l) : l[q] \in Texts /\ 2 * q < s[j].at => 2 * q < b[p].at
      BY <3>1, <3>3, <3>4 DEF Dips
    <3>6. b[p].at <= m.at
      BY <1>0, <1>1, <3>3
    <3>7. \A q \in 1..Len(l) : l[q] \in Texts /\ 2 * q < s[j].at => 2 * q < m.at
      <4> SUFFICES ASSUME NEW q \in 1..Len(l), l[q] \in Texts /\ 2 * q < s[j].at PROVE 2 * q < m.at
        OBVIOUS
      <4>1. 2 * q < b[p].at /\ q \in Nat
        BY <3>5, Len(l) \in Nat
      <4> QED BY <1>0, <3>3, <3>6, <4>1
    <3> QED BY <1>3, <2>2, <3>7
  <2> QED BY <1>0, <1>3, <2>0, <2>1, <2>2, TakenPair
<1> QED BY <1>6, <1>7

\* and the turn of lines that wait.
LEMMA TakenInTurn ==
    ASSUME NEW b \in Seq(Entries), NEW m \in Entries, NEW p, NEW s, TakenAt(b, p, m, s),
           NEW l, NEW os, InTurn(b, l, os), ~m.pending
    PROVE  InTurn(s, l, os)
<1>0. Len(s) \in Nat
  BY TakenFrom
<1>1. ASSUME NEW i \in 1..Len(s), s[i].pending PROVE \E k \in 1..Len(b) : s[i] = b[k]
  BY <1>1, TakenFrom
<1>2. ASSUME NEW i \in 1..Len(s), NEW j \in 1..Len(s), i < j, s[i].pending, s[j].pending
      PROVE  \E k, n \in 1..Len(b) : k < n /\ s[i] = b[k] /\ s[j] = b[n]
  BY <1>2, TakenPair
<1> SUFFICES ASSUME NEW i \in 1..Len(s), s[i].pending
             PROVE  /\ \A q \in 1..Len(l) : l[q] = s[i].text =>
                          /\ s[i].at < 2 * q
                          /\ \A r \in 1..Len(l) : l[r] \in Texts /\ s[i].at < 2 * r => q <= r
                          /\ \A j \in 1..Len(s) : i < j /\ s[j].pending => 2 * q < s[j].at
                    /\ s[i].text \in os =>
                          /\ \A q \in 1..Len(l) : l[q] \in Texts => 2 * q < s[i].at
                          /\ \A j \in 1..Len(s) : i < j => ~s[j].pending
  BY DEF InTurn
<1>3. ASSUME NEW q \in 1..Len(l), l[q] = s[i].text
      PROVE  /\ s[i].at < 2 * q
             /\ \A r \in 1..Len(l) : l[r] \in Texts /\ s[i].at < 2 * r => q <= r
             /\ \A j \in 1..Len(s) : i < j /\ s[j].pending => 2 * q < s[j].at
  <2>1. PICK k \in 1..Len(b) : s[i] = b[k]
    BY <1>1
  <2>2. s[i].at < 2 * q /\ \A r \in 1..Len(l) : l[r] \in Texts /\ s[i].at < 2 * r => q <= r
    BY <1>3, <2>1 DEF InTurn
  <2>3. ASSUME NEW j \in 1..Len(s), i < j, s[j].pending PROVE 2 * q < s[j].at
    <3>1. PICK x, n \in 1..Len(b) : x < n /\ s[i] = b[x] /\ s[j] = b[n]
      BY <1>2, <2>3
    <3> QED BY <1>3, <2>3, <3>1 DEF InTurn
  <2> QED BY <2>2, <2>3
<1>4. ASSUME s[i].text \in os
      PROVE  /\ \A q \in 1..Len(l) : l[q] \in Texts => 2 * q < s[i].at
             /\ \A j \in 1..Len(s) : i < j => ~s[j].pending
  <2>1. PICK k \in 1..Len(b) : s[i] = b[k]
    BY <1>1
  <2>2. \A q \in 1..Len(l) : l[q] \in Texts => 2 * q < s[i].at
    BY <1>4, <2>1 DEF InTurn
  <2>3. ASSUME NEW j \in 1..Len(s), i < j, s[j].pending PROVE FALSE
    <3>1. PICK x, n \in 1..Len(b) : x < n /\ s[i] = b[x] /\ s[j] = b[n]
      BY <1>2, <2>3
    <3> QED BY <1>4, <2>3, <3>1 DEF InTurn
  <2> QED BY <2>2, <2>3
<1> QED BY <1>3, <1>4

\* The line m is the one at q of the log.
Logs(m, l, q) ==
    /\ q \in 1..Len(l) /\ ~m.pending /\ m.at = 2 * q /\ m.text = l[q]

\* So does an echo that is put where it was waited for.
LEMMA PutPlain ==
    ASSUME NEW b \in Seq(Entries), NEW m \in Entries, NEW i, NEW s, Put(b, i, m, s), ~m.pending,
           NEW l, NEW q, m.at = 2 * q, q \in 1..Len(l), m.text = l[q], InTurn(b, l, {}) 
    PROVE  /\ Len(s) = Len(b) /\ i \in 1..Len(b) /\ s[i] = m /\ b[i].pending /\ b[i].text = m.text
           /\ \A k \in 1..Len(b) : k # i => s[k] = b[k]
           /\ \A k \in 1..Len(b) : ~Same(b[k], m)
           /\ b[i].at < m.at
           /\ \A r \in 1..Len(l) : l[r] \in Texts /\ b[i].at < 2 * r => q <= r
           /\ \A j \in 1..Len(b) : i < j /\ b[j].pending => m.at < b[j].at
           /\ Len(b) \in Nat /\ m.at \in Nat
           /\ \A k \in 1..Len(b) : b[k].at \in Nat
<1>1. Len(b) \in Nat /\ m.at \in Nat /\ \A k \in 1..Len(b) : b[k].at \in Nat
  BY Numbers, EntryFields
<1>2. /\ Len(s) = Len(b) /\ i \in 1..Len(b) /\ s[i] = m /\ b[i].pending /\ b[i].text = m.text
      /\ \A k \in 1..Len(b) : k # i => s[k] = b[k]
      /\ \A k \in 1..Len(b) : ~Same(b[k], m)
  BY DEF Put
<1>3. /\ b[i].at < 2 * q
      /\ \A r \in 1..Len(l) : l[r] \in Texts /\ b[i].at < 2 * r => q <= r
      /\ \A j \in 1..Len(b) : i < j /\ b[j].pending => 2 * q < b[j].at
  BY <1>2, m.text = l[q], q \in 1..Len(l), InTurn(b, l, {}) DEF InTurn
<1> QED BY <1>1, <1>2, <1>3, m.at = 2 * q

\* Fewer lines on their way.
LEMMA InTurnOf ==
    ASSUME NEW b, NEW l, NEW os, NEW os2 \in SUBSET os, InTurn(b, l, os)
    PROVE  InTurn(b, l, os2)
BY DEF InTurn

\* Identities,
LEMMA PutKeys ==
    ASSUME NEW b \in Seq(Entries), NEW m \in Entries, NEW i, NEW s, Put(b, i, m, s), ~m.pending,
           Keys(b), Alone(b)
    PROVE  Keys(s) /\ Alone(s)
<1>2. /\ Len(s) = Len(b) /\ i \in 1..Len(b) /\ s[i] = m /\ b[i].pending /\ b[i].text = m.text
      /\ \A k \in 1..Len(b) : k # i => s[k] = b[k]
      /\ \A k \in 1..Len(b) : ~Same(b[k], m)
  BY DEF Put
<1>3. ASSUME NEW j \in 1..Len(b), NEW k \in 1..Len(b), j # k
      PROVE  ~Same(s[j], s[k]) /\ ~(s[j].pending /\ s[j].text = s[k].text)
  <2>1. CASE j # i /\ k # i
    BY <1>2, <1>3, <2>1 DEF Keys, Alone
  <2>2. CASE j = i
    BY <1>2, <1>3, <2>2 DEF Same
  <2>3. CASE k = i
    <3>1. s[j] = b[j] /\ s[k] = m /\ ~Same(b[j], m)
      BY <1>2, <1>3, <2>3
    <3>2. ~(b[j].pending /\ b[j].text = b[i].text)
      BY <1>2, <1>3, <2>3 DEF Alone
    <3> QED BY <1>2, <3>1, <3>2
  <2> QED BY <2>1, <2>2, <2>3
<1> QED BY <1>2, <1>3 DEF Keys, Alone

\* what is before and behind a line that waits,
LEMMA PutSplits ==
    ASSUME NEW b \in Seq(Entries), NEW m \in Entries, NEW i, NEW s, Put(b, i, m, s), ~m.pending,
           NEW l, NEW q, m.at = 2 * q, q \in 1..Len(l), m.text = l[q], InTurn(b, l, {}), Splits(b)
    PROVE  Splits(s)
<1>1. /\ Len(s) = Len(b) /\ i \in 1..Len(b) /\ s[i] = m
      /\ \A k \in 1..Len(b) : k # i => s[k] = b[k]
      /\ b[i].at < m.at
      /\ \A j \in 1..Len(b) : i < j /\ b[j].pending => m.at < b[j].at
      /\ Len(b) \in Nat /\ m.at \in Nat
      /\ \A k \in 1..Len(b) : b[k].at \in Nat
  BY PutPlain, m.at = 2 * q, q \in 1..Len(l), m.text = l[q], InTurn(b, l, {}), ~m.pending
<1> SUFFICES ASSUME NEW x \in 1..Len(b), s[x].pending, NEW j \in 1..Len(b)
             PROVE  (j < x => s[j].at <= s[x].at) /\ (x < j => s[x].at <= s[j].at)
  BY <1>1 DEF Splits
<1>2. x # i /\ s[x] = b[x] /\ b[x].pending
  BY <1>1, ~m.pending
<1>3. (j < x => b[j].at <= b[x].at) /\ (x < j => b[x].at <= b[j].at)
  BY <1>2 DEF Splits
<1>4. CASE j # i
  BY <1>1, <1>2, <1>3, <1>4
<1>5. CASE j = i
  <2>1. j < x => m.at < b[x].at
    BY <1>1, <1>2, <1>5
  <2>2. x < j => b[x].at <= b[i].at
    BY <1>3, <1>5
  <2> QED BY <1>1, <1>2, <1>5, <2>1, <2>2
<1> QED BY <1>4, <1>5

\* and what is behind an echo.
LEMMA PutDips ==
    ASSUME NEW b \in Seq(Entries), NEW m \in Entries, NEW i, NEW s, Put(b, i, m, s), ~m.pending,
           NEW l, Len(l) \in Nat, NEW q, m.at = 2 * q, q \in 1..Len(l), m.text = l[q], m.text \in Texts,
           InTurn(b, l, {}), Splits(b), Rising(b), NEW r, Shows(b, l, r), r \in 0..Len(l),
           NEW pg \in SUBSET Nat, NEW pg2 \in SUBSET pg, q \notin pg2, Dips(b, l, pg)
    PROVE  Dips(s, l, pg2) /\ Rising(s)
<1>1. /\ Len(s) = Len(b) /\ i \in 1..Len(b) /\ s[i] = m /\ b[i].pending
      /\ \A k \in 1..Len(b) : k # i => s[k] = b[k]
      /\ \A k \in 1..Len(b) : ~Same(b[k], m)
      /\ b[i].at < m.at
      /\ \A x \in 1..Len(l) : l[x] \in Texts /\ b[i].at < 2 * x => q <= x
      /\ Len(b) \in Nat /\ m.at \in Nat
      /\ \A k \in 1..Len(b) : b[k].at \in Nat
  <2>1. /\ Len(s) = Len(b) /\ i \in 1..Len(b) /\ s[i] = m /\ b[i].pending
        /\ \A k \in 1..Len(b) : k # i => s[k] = b[k]
        /\ \A k \in 1..Len(b) : ~Same(b[k], m)
    BY DEF Put
  <2>4. b[i].at < m.at
    BY PutPlain, m.at = 2 * q, q \in 1..Len(l), m.text = l[q], InTurn(b, l, {}), ~m.pending
  <2>2. /\ b[i].at < m.at
        /\ \A x \in 1..Len(l) : l[x] \in Texts /\ b[i].at < 2 * x => q <= x
    BY <2>1, <2>4, q \in 1..Len(l), m.text = l[q], InTurn(b, l, {}) DEF InTurn, Put
  <2>3. Len(b) \in Nat /\ m.at \in Nat /\ \A k \in 1..Len(b) : b[k].at \in Nat
    BY Numbers, EntryFields
  <2> QED BY <2>1, <2>2, <2>3
<1>2. q \in Nat /\ \A x \in 1..Len(l) : x \in Nat
  BY Len(l) \in Nat, q \in 1..Len(l)
<1>3. \E y \in 0..Len(l) : b[i].at = 2 * y + 1
  BY <1>1 DEF Shows
<1>4. \A k \in 1..Len(b) : ~b[k].pending => \E x \in 1..Len(l) : b[k].at = 2 * x /\ b[k].text = l[x]
  <2> SUFFICES ASSUME NEW k \in 1..Len(b), ~b[k].pending
               PROVE  \E x \in 1..Len(l) : b[k].at = 2 * x /\ b[k].text = l[x]
    OBVIOUS
  <2>1. PICK x \in 1..r : b[k].at = 2 * x /\ b[k].text = l[x]
    BY DEF Shows
  <2>2. x \in 1..Len(l)
    BY r \in 0..Len(l), Len(l) \in Nat
  <2> QED BY <2>1, <2>2
<1>5. Len(b) \in 1..Len(b) /\ b[Len(b)].at <= s[Len(b)].at
  BY <1>1
\* An entry newer than the last is not the line itself, nor older than it.
<1>6. ASSUME NEW k \in 1..Len(b), b[Len(b)].at < b[k].at
      PROVE  /\ ~b[k].pending /\ b[k].text \in Texts /\ k # i
             /\ \E x \in 1..Len(l) : b[k].at = 2 * x /\ b[k].text = l[x] /\ x # q
  <2>1. ~b[k].pending /\ b[k].text \in Texts
    BY <1>1, <1>5, <1>6 DEF Rising
  <2>2. PICK x \in 1..Len(l) : b[k].at = 2 * x /\ b[k].text = l[x]
    BY <1>4, <2>1
  <2>3. x # q
    BY <1>1, <2>2, m.at = 2 * q, m.text = l[q] DEF Same
  <2> QED BY <1>1, <2>1, <2>2, <2>3
<1>7. Rising(s)
  <2> SUFFICES ASSUME NEW k \in 1..Len(b)
               PROVE  s[k].at <= s[Len(b)].at \/ (~s[k].pending /\ s[k].text \in Texts)
    BY <1>1 DEF Rising
  <2>1. CASE k = i
    BY <1>1, <2>1, ~m.pending, m.text \in Texts
  <2>2. CASE k # i
    <3>1. s[k] = b[k] /\ (b[k].at <= b[Len(b)].at \/ (~b[k].pending /\ b[k].text \in Texts))
      BY <1>1, <2>2 DEF Rising
    <3>2. s[Len(b)].at \in Nat
      BY <1>1, <1>5
    <3> QED BY <1>1, <1>5, <3>1, <3>2
  <2> QED BY <2>1, <2>2
<1>8. ASSUME NEW j \in 1..Len(b), j # i, s[Len(b)].at < s[j].at
      PROVE  /\ \A k \in (j + 1)..Len(b) :
                   /\ s[k].at < s[j].at
                   /\ \A x \in 1..Len(l) : l[x] \in Texts /\ 2 * x < s[j].at => 2 * x < s[k].at
             /\ \A x \in pg2 : s[j].at # 2 * x
  <2>1. s[j] = b[j] /\ b[Len(b)].at < b[j].at
    <3>1. s[Len(b)].at \in Nat
      BY <1>1, <1>5
    <3> QED BY <1>1, <1>5, <1>8, <3>1
  <2>2. PICK y \in 1..Len(l) : b[j].at = 2 * y /\ b[j].text = l[y] /\ y # q
    BY <1>6, <2>1
  <2>3. /\ \A k \in (j + 1)..Len(b) :
              /\ b[k].at < b[j].at
              /\ \A x \in 1..Len(l) : l[x] \in Texts /\ 2 * x < b[j].at => 2 * x < b[k].at
        /\ \A x \in pg : b[j].at # 2 * x
    BY <1>6, <2>1 DEF Dips
  <2>4. ASSUME NEW k \in (j + 1)..Len(b)
        PROVE  /\ s[k].at < s[j].at
               /\ \A x \in 1..Len(l) : l[x] \in Texts /\ 2 * x < s[j].at => 2 * x < s[k].at
    <3>0. k \in 1..Len(b)
      BY <1>1
    <3>1. CASE k # i
      BY <1>1, <2>1, <2>3, <3>0, <3>1
    <3>2. CASE k = i
      <4>1. b[i].at < 2 * y /\ l[y] \in Texts
        BY <1>6, <2>1, <2>2, <2>3, <3>2
      <4>2. q <= y
        BY <1>1, <4>1
      <4>3. m.at < b[j].at
        BY <1>2, <2>2, <4>2, m.at = 2 * q
      <4>4. ASSUME NEW x \in 1..Len(l), l[x] \in Texts, 2 * x < b[j].at PROVE 2 * x < m.at
        <5>1. 2 * x < b[i].at
          BY <2>3, <3>2, <4>4
        <5> QED BY <1>1, <1>2, <5>1
      <4> QED BY <1>1, <2>1, <3>2, <4>3, <4>4
    <3> QED BY <3>1, <3>2
  <2> QED BY <2>1, <2>3, <2>4
<1>9. ASSUME s[Len(b)].at < m.at
      PROVE  /\ \A k \in (i + 1)..Len(b) :
                   /\ s[k].at < m.at
                   /\ \A x \in 1..Len(l) : l[x] \in Texts /\ 2 * x < m.at => 2 * x < s[k].at
             /\ \A x \in pg2 : m.at # 2 * x
  <2>1. b[Len(b)].at < m.at
    <3>1. i # Len(b)
      BY <1>1, <1>9
    <3> QED BY <1>1, <1>5, <1>9, <3>1
  <2>2. ASSUME NEW k \in (i + 1)..Len(b)
        PROVE  /\ s[k].at < m.at
               /\ \A x \in 1..Len(l) : l[x] \in Texts /\ 2 * x < m.at => 2 * x < s[k].at
    <3>0. k \in 1..Len(b) /\ i < k /\ s[k] = b[k]
      BY <1>1
    <3>1. b[i].at <= b[k].at
      BY <1>1, <3>0 DEF Splits
    <3>2. b[k].at < m.at
      <4> SUFFICES ASSUME m.at <= b[k].at PROVE FALSE
        BY <1>1, <3>0
      <4>1. b[Len(b)].at < b[k].at
        BY <1>1, <1>5, <2>1, <3>0
      <4>2. ~b[k].pending /\ b[k].text \in Texts
        BY <1>6, <3>0, <4>1
      <4>3. PICK x \in 1..Len(l) : b[k].at = 2 * x /\ x # q
        BY <1>6, <3>0, <4>1
      <4>4. m.at < b[k].at
        BY <1>2, <4>3, m.at = 2 * q
      <4>5. k # Len(b)
        BY <1>1, <4>1
      <4>6. Len(b) \in (k + 1)..Len(b)
        BY <1>1, <3>0, <4>5
      <4>7. \A z \in 1..Len(l) : l[z] \in Texts /\ 2 * z < b[k].at => 2 * z < b[Len(b)].at
        BY <3>0, <4>1, <4>2, <4>6 DEF Dips
      <4>8. 2 * q < b[Len(b)].at
        BY <4>4, <4>7, m.at = 2 * q, m.text = l[q], m.text \in Texts, q \in 1..Len(l)
      <4> QED BY <1>1, <1>5, <2>1, <4>8, m.at = 2 * q
    <3>3. ASSUME NEW x \in 1..Len(l), l[x] \in Texts, 2 * x < m.at PROVE 2 * x < b[k].at
      <4>1. PICK y \in 0..Len(l) : b[i].at = 2 * y + 1
        BY <1>3
      <4>2. ~(b[i].at < 2 * x)
        BY <1>1, <1>2, <3>3, m.at = 2 * q
      <4>3. x \in Nat /\ y \in Int
        BY <1>2, Len(l) \in Nat
      <4> QED BY <1>1, <3>0, <3>1, <4>1, <4>2, <4>3
    <3> QED BY <3>0, <3>2, <3>3
  <2>3. \A x \in pg2 : m.at # 2 * x
    BY <1>2, m.at = 2 * q, q \notin pg2
  <2> QED BY <2>2, <2>3
<1>10. Dips(s, l, pg2)
  <2> SUFFICES ASSUME NEW j \in 1..Len(b), s[Len(b)].at < s[j].at
               PROVE  /\ \A k \in (j + 1)..Len(b) :
                            /\ s[k].at < s[j].at
                            /\ \A x \in 1..Len(l) : l[x] \in Texts /\ 2 * x < s[j].at => 2 * x < s[k].at
                      /\ \A x \in pg2 : s[j].at # 2 * x
    BY <1>1 DEF Dips
  <2>1. CASE j # i
    BY <1>8, <2>1
  <2>2. CASE j = i
    BY <1>1, <1>9, <2>2
  <2> QED BY <2>1, <2>2
<1> QED BY <1>7, <1>10

\* And so does a trim.
LEMMA EndOrdered ==
    ASSUME NEW s \in Seq(Entries), NEW c \in Seq(Entries), NEW d, EndOf(c, s, d),
           NEW l, NEW pg, NEW os, Ordered(s, l, pg, os)
    PROVE  Ordered(c, l, pg, os)
<1>0. Len(s) \in Nat /\ Len(c) \in Nat /\ d \in Nat /\ Len(c) + d = Len(s)
  BY DEF EndOf
<1>1. \A i \in 1..Len(c) : i + d \in 1..Len(s) /\ c[i] = s[i + d]
  BY <1>0 DEF EndOf
<1>2. \A i, j \in 1..Len(c) : i < j => i + d < j + d
  BY <1>0
<1>3. \A i \in 1..Len(c) : c[Len(c)] = s[Len(s)]
  <2> SUFFICES ASSUME NEW i \in 1..Len(c) PROVE c[Len(c)] = s[Len(s)]
    OBVIOUS
  <2>1. Len(c) \in 1..Len(c)
    BY <1>0
  <2> QED BY <1>0, <1>1, <2>1
<1>4. Keys(s) /\ Alone(s) /\ Rising(s) /\ Dips(s, l, pg) /\ Splits(s) /\ InTurn(s, l, os)
  BY DEF Ordered
<1>5. Keys(c) /\ Alone(c)
  BY <1>4, EndKeeps
<1>6. Rising(c)
  BY <1>1, <1>3, <1>4 DEF Rising
<1>7. Splits(c)
  BY <1>1, <1>2, <1>4 DEF Splits
<1>8. InTurn(c, l, os)
  BY <1>1, <1>2, <1>4 DEF InTurn
<1>9. Dips(c, l, pg)
  <2> SUFFICES ASSUME NEW j \in 1..Len(c), ~c[j].pending, c[j].text \in Texts, c[Len(c)].at < c[j].at
               PROVE  /\ \A k \in (j + 1)..Len(c) :
                            /\ c[k].at < c[j].at
                            /\ \A q \in 1..Len(l) : l[q] \in Texts /\ 2 * q < c[j].at => 2 * q < c[k].at
                      /\ \A q \in pg : c[j].at # 2 * q
    BY DEF Dips
  <2>1. j + d \in 1..Len(s) /\ ~s[j + d].pending /\ s[j + d].text \in Texts /\ s[Len(s)].at < s[j + d].at
        /\ c[j] = s[j + d]
    BY <1>1, <1>3
  <2>2. \A k \in (j + 1)..Len(c) : k + d \in ((j + d) + 1)..Len(s) /\ c[k] = s[k + d]
    BY <1>0, <1>1
  <2> QED BY <1>4, <2>1, <2>2 DEF Dips
<1> QED BY <1>5, <1>6, <1>7, <1>8, <1>9 DEF Ordered

\* A line read leaves a buffer in its order.
LEMMA ReadOrdered ==
    ASSUME NEW b \in Seq(Entries), NEW l, Len(l) \in Nat, NEW r \in 0..Len(l), Shows(b, l, r),
           NEW pg \in SUBSET Nat, NEW os, Ordered(b, l, pg, os),
           NEW m \in Entries, NEW q, Logs(m, l, q), NEW pg2 \in SUBSET pg, q \notin pg2,
           NEW c, c = IF m.text \in Texts THEN Reconcile(b, m) ELSE Insert(b, m)
    PROVE  c \in Seq(Entries) /\ Ordered(c, l, pg2, os)
<1>0. /\ q \in 1..Len(l) /\ ~m.pending /\ m.at = 2 * q /\ m.text = l[q]
      /\ q \in Nat /\ r \in Nat
  BY Len(l) \in Nat DEF Logs
<1>1. Keys(b) /\ Alone(b) /\ Rising(b) /\ Dips(b, l, pg) /\ Splits(b) /\ InTurn(b, l, os)
  BY DEF Ordered
<1>2. Dips(b, l, pg2)
  BY <1>1 DEF Dips
<1>3. CASE c = b
  BY <1>1, <1>2, <1>3 DEF Ordered
<1>4. CASE \E i \in 1..Len(b) : Put(b, i, m, c)
  <2>1. PICK i \in 1..Len(b) : Put(b, i, m, c)
    BY <1>4
  <2>2. InTurn(b, l, {})
    BY <1>1 DEF InTurn
  <2>3. Keys(c) /\ Alone(c)
    BY <1>0, <1>1, <2>1, PutKeys
  <2>4. Splits(c)
    BY <1>0, <1>1, <2>1, <2>2, PutSplits
  <2>5. m.text \in Texts
    <3>1. b[i].pending /\ b[i].text = m.text
      BY <2>1 DEF Put
    <3> QED BY <3>1 DEF Shows
  <2>6. Dips(c, l, pg2) /\ Rising(c)
    BY <1>0, <1>1, <2>1, <2>2, <2>5, PutDips
  <2>7. InTurn(c, l, os)
    <3>1. /\ Len(c) = Len(b) /\ c[i] = m
          /\ \A k \in 1..Len(b) : k # i => c[k] = b[k]
      BY <2>1 DEF Put
    <3>2. \A k \in 1..Len(b) : c[k].pending => k # i /\ c[k] = b[k] /\ b[k].pending
      BY <1>0, <3>1
    <3> SUFFICES ASSUME NEW x \in 1..Len(b), c[x].pending
                 PROVE  /\ \A p \in 1..Len(l) : l[p] = c[x].text =>
                              /\ c[x].at < 2 * p
                              /\ \A y \in 1..Len(l) : l[y] \in Texts /\ c[x].at < 2 * y => p <= y
                              /\ \A j \in 1..Len(b) : x < j /\ c[j].pending => 2 * p < c[j].at
                        /\ c[x].text \in os =>
                              /\ \A y \in 1..Len(l) : l[y] \in Texts => 2 * y < c[x].at
                              /\ \A j \in 1..Len(b) : x < j => ~c[j].pending
      BY <3>1 DEF InTurn
    <3>3. c[x] = b[x] /\ b[x].pending
      BY <3>2
    <3>4. \A j \in 1..Len(b) : c[j].pending => c[j] = b[j] /\ b[j].pending
      BY <3>2
    <3>5. ASSUME NEW p \in 1..Len(l), l[p] = c[x].text
          PROVE  /\ c[x].at < 2 * p
                 /\ \A y \in 1..Len(l) : l[y] \in Texts /\ c[x].at < 2 * y => p <= y
                 /\ \A j \in 1..Len(b) : x < j /\ c[j].pending => 2 * p < c[j].at
      BY <1>1, <3>3, <3>4, <3>5 DEF InTurn
    <3>6. ASSUME c[x].text \in os
          PROVE  /\ \A y \in 1..Len(l) : l[y] \in Texts => 2 * y < c[x].at
                 /\ \A j \in 1..Len(b) : x < j => ~c[j].pending
      BY <1>1, <3>3, <3>4, <3>6 DEF InTurn
    <3> QED BY <3>5, <3>6
  <2>8. c \in Seq(Entries)
    BY <2>1 DEF Put
  <2> QED BY <2>3, <2>4, <2>6, <2>7, <2>8 DEF Ordered
<1>5. CASE \E p \in 0..Len(b), s \in Seq(Entries) : TakenAt(b, p, m, s) /\ c = Trimmed(s)
  <2>1. PICK p \in 0..Len(b), s \in Seq(Entries) : TakenAt(b, p, m, s) /\ c = Trimmed(s)
    BY <1>5
  <2>2. Keys(s) /\ Alone(s)
    BY <1>0, <1>1, <2>1, TakenKeys
  <2>3. Splits(s)
    BY <1>0, <1>1, <2>1, TakenSplits
  <2>4. Rising(s)
    BY <1>1, <2>1, TakenRises
  <2>5. Dips(s, l, pg2)
    BY <1>1, <2>1, TakenDips, Len(l) \in Nat
  <2>6. InTurn(s, l, os)
    BY <1>0, <1>1, <2>1, TakenInTurn
  <2>7. Ordered(s, l, pg2, os)
    BY <2>2, <2>3, <2>4, <2>5, <2>6 DEF Ordered
  <2>8. Trimmed(s) \in Seq(Entries) /\ EndOf(Trimmed(s), s, Excess(s))
    BY TrimmedTo
  <2> QED BY <2>1, <2>7, <2>8, EndOrdered
<1>6. \/ c = b /\ \E i \in 1..Len(b) : b[i] = m
      \/ \E i \in 1..Len(b) : Put(b, i, m, c)
      \/ \E p \in 0..Len(b), s \in Seq(Entries) : TakenAt(b, p, m, s) /\ c = Trimmed(s)
  BY <1>0, ReadChanges, Shows(b, l, r),
     c = IF m.text \in Texts THEN Reconcile(b, m) ELSE Insert(b, m)
<1> QED BY <1>3, <1>4, <1>5, <1>6

\* A line of ours, shown ahead of what the server will have of it.
LEMMA SayOrdered ==
    ASSUME NEW b \in Seq(Entries), NEW l, Len(l) \in Nat, NEW pg,
           Ordered(b, l, pg, {}),
           NEW m \in Entries, m.pending, m.at = 2 * Len(l) + 1,
           \A k \in 1..Len(b) : b[k].text # m.text /\ b[k].at <= m.at,
           \A q \in 1..Len(l) : l[q] # m.text
    PROVE  /\ Insert(b, m) \in Seq(Entries) /\ Ordered(Insert(b, m), l, pg, {m.text})
           /\ \E s \in Seq(Entries) : TakenAt(b, Len(b), m, s) /\ Insert(b, m) = Trimmed(s)
<1>1. Keys(b) /\ Alone(b) /\ Rising(b) /\ Dips(b, l, pg) /\ Splits(b) /\ InTurn(b, l, {})
  BY DEF Ordered
<1>2. PICK s \in Seq(Entries) : TakenAt(b, Len(b), m, s) /\ Insert(b, m) = Trimmed(s)
  BY SayChanges
<1>3. Keys(s) /\ Alone(s)
  BY <1>1, <1>2, TakenKeys
<1>4. Splits(s)
  <2>1. \A k \in 1..Len(b) : k <= Len(b) /\ b[k].at <= m.at
    OBVIOUS
  <2> QED BY <1>1, <1>2, <2>1, TakenSplits
<1>5. Rising(s)
  BY <1>1, <1>2, TakenRises
<1>6. Dips(s, l, pg)
  BY <1>1, <1>2, TakenDips
<1>7. InTurn(s, l, {m.text})
  <2>0. Len(b) \in Nat /\ Len(s) = Len(b) + 1 /\ s[Len(b) + 1] = m /\ Len(b) + 1 \in 1..Len(s)
    <3>1. Len(b) \in Nat
      BY Numbers
    <3>2. Len(s) = Len(b) + 1 /\ s[Len(b) + 1] = m
      BY <1>2 DEF TakenAt
    <3> QED BY <3>1, <3>2
  <2>1. ASSUME NEW i \in 1..Len(s), i # Len(b) + 1 PROVE i \in 1..Len(b) /\ s[i] = b[i]
    <3>1. i \in 1..Len(b)
      BY <2>0, <2>1
    <3> QED BY <1>2, <3>1 DEF TakenAt
  <2>2. \A q \in 1..Len(l) : q \in Nat /\ 2 * q < m.at /\ l[q] # m.text
    OBVIOUS
  <2>3. ASSUME NEW i \in 1..Len(s), s[i].pending, i # Len(b) + 1, NEW p \in 1..Len(l), l[p] = s[i].text
        PROVE  /\ s[i].at < 2 * p
               /\ \A q \in 1..Len(l) : l[q] \in Texts /\ s[i].at < 2 * q => p <= q
               /\ \A j \in 1..Len(s) : i < j /\ s[j].pending => 2 * p < s[j].at
    <3>1. /\ s[i].at < 2 * p
          /\ \A q \in 1..Len(l) : l[q] \in Texts /\ s[i].at < 2 * q => p <= q
      BY <1>1, <2>1, <2>3 DEF InTurn
    <3>2. ASSUME NEW j \in 1..Len(s), i < j, s[j].pending PROVE 2 * p < s[j].at
      <4>1. CASE j = Len(b) + 1
        BY <2>0, <2>2, <4>1
      <4>2. CASE j # Len(b) + 1
        BY <1>1, <2>1, <2>3, <3>2, <4>2 DEF InTurn
      <4> QED BY <4>1, <4>2
    <3> QED BY <3>1, <3>2
  <2>4. \A j \in 1..Len(s) : ~(Len(b) + 1 < j)
    BY <2>0
  <2>5. \A i \in 1..Len(s) : i # Len(b) + 1 => s[i].text # m.text
    BY <2>1
  <2> QED BY <2>0, <2>2, <2>3, <2>4, <2>5 DEF InTurn
<1>8. Trimmed(s) \in Seq(Entries) /\ EndOf(Trimmed(s), s, Excess(s))
  BY TrimmedTo
<1>9. Ordered(s, l, pg, {m.text})
  BY <1>3, <1>4, <1>5, <1>6, <1>7 DEF Ordered
<1> QED BY <1>2, <1>8, <1>9, EndOrdered

----------------------------------------------------------------------------
(* ... and whatever else happens.                                          *)

\* It stays so when less is asked for or on its way,
LEMMA OrderedLess ==
    ASSUME NEW b, NEW l, NEW pg, NEW pg2 \in SUBSET pg, NEW os, NEW os2 \in SUBSET os,
           Ordered(b, l, pg, os)
    PROVE  Ordered(b, l, pg2, os2)
<1>1. Keys(b) /\ Alone(b) /\ Rising(b) /\ Dips(b, l, pg) /\ Splits(b) /\ InTurn(b, l, os)
  BY DEF Ordered
<1>2. Dips(b, l, pg2)
  BY <1>1 DEF Dips
<1>3. InTurn(b, l, os2)
  BY <1>1 DEF InTurn
<1> QED BY <1>1, <1>2, <1>3 DEF Ordered

\* Something is logged: by somebody else, or what we had sent.
LEMMA LogOrdered ==
    ASSUME NEW b \in Seq(Entries), NEW T, NEW l \in Seq(T), NEW v, NEW r \in 0..Len(l), Shows(b, l, r),
           NEW pg, NEW os, NEW os2 \in SUBSET os, Ordered(b, l, pg, os),
           v \notin Texts \/ (v \in os /\ os2 = {} /\ \A q \in 1..Len(l) : l[q] # v)
    PROVE  Ordered(b, Append(l, v), pg, os2)
<1> DEFINE L == Append(l, v)
<1>0. /\ Len(l) \in Nat /\ Len(L) = Len(l) + 1 /\ L[Len(l) + 1] = v
      /\ \A q \in 1..Len(l) : L[q] = l[q]
      /\ \A q \in 1..Len(L) : q \in Nat /\ (q \in 1..Len(l) \/ q = Len(l) + 1)
  OBVIOUS
<1> HIDE DEF L
<1>1. Keys(b) /\ Alone(b) /\ Rising(b) /\ Dips(b, l, pg) /\ Splits(b) /\ InTurn(b, l, os)
  BY DEF Ordered
<1>2. ASSUME NEW k \in 1..Len(b) PROVE b[k].at < 2 * (Len(l) + 1) /\ b[k].at \in Nat
  <2>1. CASE b[k].pending
    <3>1. PICK q \in 0..Len(l) : b[k].at = 2 * q + 1
      BY <2>1 DEF Shows
    <3> QED BY <1>0, <3>1
  <2>2. CASE ~b[k].pending
    <3>1. PICK q \in 1..r : b[k].at = 2 * q
      BY <2>2 DEF Shows
    <3> QED BY <1>0, <3>1
  <2> QED BY <2>1, <2>2
<1>3. Dips(b, L, pg)
  <2> SUFFICES ASSUME NEW j \in 1..Len(b), ~b[j].pending, b[j].text \in Texts, b[Len(b)].at < b[j].at
               PROVE  /\ \A k \in (j + 1)..Len(b) :
                            /\ b[k].at < b[j].at
                            /\ \A q \in 1..Len(L) : L[q] \in Texts /\ 2 * q < b[j].at => 2 * q < b[k].at
                      /\ \A q \in pg : b[j].at # 2 * q
    BY DEF Dips
  <2>1. /\ \A k \in (j + 1)..Len(b) :
              /\ b[k].at < b[j].at
              /\ \A q \in 1..Len(l) : l[q] \in Texts /\ 2 * q < b[j].at => 2 * q < b[k].at
        /\ \A q \in pg : b[j].at # 2 * q
    BY <1>1 DEF Dips
  <2>2. \A q \in 1..Len(L) : 2 * q < b[j].at => q \in 1..Len(l) /\ L[q] = l[q]
    BY <1>0, <1>2
  <2> QED BY <2>1, <2>2
<1>4. InTurn(b, L, os2)
  <2> SUFFICES ASSUME NEW i \in 1..Len(b), b[i].pending
               PROVE  /\ \A p \in 1..Len(L) : L[p] = b[i].text =>
                            /\ b[i].at < 2 * p
                            /\ \A q \in 1..Len(L) : L[q] \in Texts /\ b[i].at < 2 * q => p <= q
                            /\ \A j \in 1..Len(b) : i < j /\ b[j].pending => 2 * p < b[j].at
                      /\ b[i].text \in os2 =>
                            /\ \A q \in 1..Len(L) : L[q] \in Texts => 2 * q < b[i].at
                            /\ \A j \in 1..Len(b) : i < j => ~b[j].pending
    BY DEF InTurn
  <2>0. b[i].text \in Texts
    BY DEF Shows
  <2>1. ASSUME NEW p \in 1..Len(l), l[p] = b[i].text
        PROVE  /\ b[i].at < 2 * p
               /\ \A q \in 1..Len(L) : L[q] \in Texts /\ b[i].at < 2 * q => p <= q
               /\ \A j \in 1..Len(b) : i < j /\ b[j].pending => 2 * p < b[j].at
    <3>1. /\ b[i].at < 2 * p
          /\ \A q \in 1..Len(l) : l[q] \in Texts /\ b[i].at < 2 * q => p <= q
          /\ \A j \in 1..Len(b) : i < j /\ b[j].pending => 2 * p < b[j].at
      BY <1>1, <2>1 DEF InTurn
    <3>2. p <= Len(l) + 1
      BY <1>0
    <3> QED BY <1>0, <3>1, <3>2
  <2>2. ASSUME NEW p \in 1..Len(L), L[p] = b[i].text, p \notin 1..Len(l)
        PROVE  /\ b[i].at < 2 * p
               /\ \A q \in 1..Len(L) : L[q] \in Texts /\ b[i].at < 2 * q => p <= q
               /\ \A j \in 1..Len(b) : i < j /\ b[j].pending => 2 * p < b[j].at
    <3>1. p = Len(l) + 1 /\ v = b[i].text
      BY <1>0, <2>2
    <3>2. b[i].text \in os
      BY <2>0, <3>1
    <3>3. /\ \A q \in 1..Len(l) : l[q] \in Texts => 2 * q < b[i].at
          /\ \A j \in 1..Len(b) : i < j => ~b[j].pending
      BY <1>1, <3>2 DEF InTurn
    <3>4. ASSUME NEW q \in 1..Len(L), L[q] \in Texts, b[i].at < 2 * q PROVE p <= q
      <4>1. CASE q \in 1..Len(l)
        BY <1>0, <1>2, <3>3, <3>4, <4>1
      <4>2. CASE q = Len(l) + 1
        BY <1>0, <3>1, <4>2
      <4> QED BY <1>0, <4>1, <4>2
    <3> QED BY <1>2, <3>1, <3>3, <3>4
  <2>3. ASSUME b[i].text \in os2
        PROVE  /\ \A q \in 1..Len(L) : L[q] \in Texts => 2 * q < b[i].at
               /\ \A j \in 1..Len(b) : i < j => ~b[j].pending
    <3>1. v \notin Texts /\ b[i].text \in os
      BY <2>3
    <3>2. /\ \A q \in 1..Len(l) : l[q] \in Texts => 2 * q < b[i].at
          /\ \A j \in 1..Len(b) : i < j => ~b[j].pending
      BY <1>1, <3>1 DEF InTurn
    <3> QED BY <1>0, <3>1, <3>2
  <2>4. \A p \in 1..Len(L) : L[p] = b[i].text /\ p \in 1..Len(l) => l[p] = b[i].text
    BY <1>0
  <2> QED BY <2>1, <2>2, <2>3, <2>4
<1>5. Ordered(b, L, pg, os2)
  BY <1>1, <1>3, <1>4 DEF Ordered
<1> QED BY <1>5 DEF L

\* What is asked for is older than all a line of ours may come behind.
LEMMA AskOrdered ==
    ASSUME NEW b \in Seq(Entries), NEW l, Len(l) \in Nat, NEW r \in 0..Len(l), Shows(b, l, r),
           NEW os, Ordered(b, l, {}, os), NEW before \in Nat,
           \/ \A k \in 1..Len(b) : b[k].at % 2 # 0
           \/ \E f \in 1..Len(b) : /\ b[f].at = 2 * before
                                   /\ \A k \in 1..Len(b) : b[k].at % 2 = 0 => f <= k,
           NEW pg \in SUBSET (1..(before - 1))
    PROVE  Ordered(b, l, pg, os)
<1>0. Len(b) \in Nat /\ \A k \in 1..Len(b) : b[k].at \in Nat
  BY Numbers
<1>1. Keys(b) /\ Alone(b) /\ Rising(b) /\ Dips(b, l, {}) /\ Splits(b) /\ InTurn(b, l, os)
  BY DEF Ordered
<1>2. Dips(b, l, pg)
  <2> SUFFICES ASSUME NEW j \in 1..Len(b), ~b[j].pending, b[j].text \in Texts, b[Len(b)].at < b[j].at,
                      NEW q \in pg, b[j].at = 2 * q
               PROVE  FALSE
    BY <1>1 DEF Dips
  <2>1. PICK f \in 1..Len(b) : b[f].at = 2 * before /\ f <= j
    <3>0. q \in Nat
      OBVIOUS
    <3>1. b[j].at % 2 = 0
      BY <3>0
    <3> QED BY <3>1
  <2>2. b[j].at < b[f].at
    BY <2>1
  <2>3. f < j
    BY <1>0, <2>1, <2>2
  <2>4. b[Len(b)].at < b[f].at /\ Len(b) \in 1..Len(b)
    BY <1>0, <2>2
  <2>5. ~b[f].pending /\ b[f].text \in Texts
    <3>1. ~(b[f].at <= b[Len(b)].at)
      BY <1>0, <2>4
    <3> QED BY <1>1, <3>1 DEF Rising
  <2>6. j \in (f + 1)..Len(b)
    BY <1>0, <2>3
  <2>7. \A x \in 1..Len(l) : l[x] \in Texts /\ 2 * x < b[f].at => 2 * x < b[j].at
    BY <1>1, <2>4, <2>5, <2>6 DEF Dips
  <2>8. PICK x \in 1..r : b[j].at = 2 * x /\ b[j].text = l[x]
    BY DEF Shows
  <2>9. x \in 1..Len(l) /\ l[x] \in Texts /\ 2 * x < b[f].at
    BY <2>2, <2>8, Len(l) \in Nat
  <2> QED BY <1>0, <2>7, <2>8, <2>9
<1> QED BY <1>1, <1>2 DEF Ordered

----------------------------------------------------------------------------
(* The place the log was left off at.                                      *)

\* A line of the log, as a record of it.
Line(l, p) == [at |-> 2 * p, text |-> l[p]]

\* Entry i is where the log was left off.
LeftAt(b, i, w) == i \in 1..Len(b) /\ b[i].at = w.at /\ b[i].text = w.text

\* It is among the last n entries and one, or its echo has come or will.
Near(b, l, w, n) ==
    \/ \E i \in 1..Len(b) : LeftAt(b, i, w) /\ Len(b) <= i + n
    \/ w.at % 2 = 1 /\ \E p \in 1..Len(l) : w.text = l[p]

\* What is behind it is not older, and has not been seen (Z).
Behind(b, w, Z) ==
    \A i \in 1..Len(b) : LeftAt(b, i, w) =>
       \A j \in 1..Len(b) : i < j =>
          w.at <= b[j].at /\ (~b[j].pending => Record(b[j]) \notin Z)

\* What has been seen is older, or one of ours among newer ones.
SeenUpTo(b, l, r, w, Z, pg) ==
    \A i \in 1..Len(b) : LeftAt(b, i, w) =>
       \A p \in 1..r : Line(l, p) \in Z =>
          \/ 2 * p < w.at
          \/ Line(l, p) = w
          \/ /\ l[p] \in Texts /\ w.at % 2 = 0 /\ w.at < 2 * p /\ p \notin pg
             /\ \A k \in 1..Len(b) : /\ k <= i => b[k].at <= 2 * p
                                     /\ i < k /\ b[k].pending => 2 * p < b[k].at

\* Of what waits for its echo none has been seen.
Unheard(b, l, r, Z) ==
    \A i \in 1..Len(b) : b[i].pending =>
       \A p \in 1..r : l[p] = b[i].text => Line(l, p) \notin Z

\* All of it, with at most n entries since.
Cursor(b, l, r, w, Z, pg, n) ==
    /\ Len(b) > 0 /\ Near(b, l, w, n) /\ Behind(b, w, Z)
    /\ SeenUpTo(b, l, r, w, Z, pg) /\ Unheard(b, l, r, Z)

\* What is read next: a line asked for, or one that nobody has seen.
Next_(l, r, pg, Z, q, r2) ==
    /\ q \in 1..Len(l) /\ r \in Nat /\ r2 \in Nat
    /\ \A p \in 1..r2 : p \in 1..r \/ (p = q /\ Line(l, q) \notin Z)
    /\ Line(l, q) \in Z => q \in pg /\ q \in 1..r

\* A trim never reaches the place: fewer than Limit entries are behind it.
LEMMA EndCursor ==
    ASSUME NEW s \in Seq(Entries), NEW c \in Seq(Entries), EndOf(c, s, Excess(s)),
           NEW l, NEW r, NEW w, NEW Z, NEW pg, NEW n \in Nat, n < Limit,
           Cursor(s, l, r, w, Z, pg, n)
    PROVE  Cursor(c, l, r, w, Z, pg, n)
<1> DEFINE d == Excess(s)
<1>0. /\ Len(s) \in Nat /\ Len(c) \in Nat /\ d \in Nat /\ Len(c) + d = Len(s)
      /\ Limit \in Nat /\ Limit > 0
      /\ \A i \in 1..Len(c) : c[i] = s[i + d]
  BY BufferAssumption DEF EndOf
<1>1. (Len(s) <= Limit /\ d = 0) \/ d = Len(s) - Limit
  BY <1>0 DEF Excess
<1> HIDE DEF d
<1>2. \A i \in 1..Len(c) : i + d \in 1..Len(s) /\ c[i] = s[i + d]
  BY <1>0
<1>3. \A i, j \in 1..Len(c) : (i < j => i + d < j + d) /\ (i <= j => i + d <= j + d)
  BY <1>0
<1>4. \A i \in 1..Len(c) : LeftAt(c, i, w) => LeftAt(s, i + d, w)
  BY <1>2 DEF LeftAt
<1>5. Len(c) > 0
  BY <1>0, <1>1 DEF Cursor
<1>6. Near(c, l, w, n)
  <2>1. CASE \E i \in 1..Len(s) : LeftAt(s, i, w) /\ Len(s) <= i + n
    <3>1. PICK i \in 1..Len(s) : LeftAt(s, i, w) /\ Len(s) <= i + n
      BY <2>1
    <3>2. i - d \in 1..Len(c) /\ (i - d) + d = i /\ Len(c) <= (i - d) + n
      BY <1>0, <1>1, <3>1
    <3>3. LeftAt(c, i - d, w)
      BY <1>0, <3>1, <3>2 DEF LeftAt
    <3> QED BY <3>2, <3>3 DEF Near
  <2>2. CASE w.at % 2 = 1 /\ \E p \in 1..Len(l) : w.text = l[p]
    BY <2>2 DEF Near
  <2> QED BY <2>1, <2>2 DEF Cursor, Near
<1>7. Behind(c, w, Z)
  BY <1>2, <1>3, <1>4 DEF Cursor, Behind
<1>8. SeenUpTo(c, l, r, w, Z, pg)
  <2> SUFFICES ASSUME NEW i \in 1..Len(c), LeftAt(c, i, w), NEW p \in 1..r, Line(l, p) \in Z,
                      ~(2 * p < w.at), Line(l, p) # w
               PROVE  /\ l[p] \in Texts /\ w.at % 2 = 0 /\ w.at < 2 * p /\ p \notin pg
                      /\ \A k \in 1..Len(c) : /\ k <= i => c[k].at <= 2 * p
                                              /\ i < k /\ c[k].pending => 2 * p < c[k].at
    BY DEF SeenUpTo
  <2>1. LeftAt(s, i + d, w) /\ i + d \in 1..Len(s)
    BY <1>2, <1>4
  <2>2. /\ l[p] \in Texts /\ w.at % 2 = 0 /\ w.at < 2 * p /\ p \notin pg
        /\ \A k \in 1..Len(s) : /\ k <= i + d => s[k].at <= 2 * p
                                /\ i + d < k /\ s[k].pending => 2 * p < s[k].at
    BY <2>1 DEF Cursor, SeenUpTo
  <2> QED BY <1>2, <1>3, <2>2
<1>9. Unheard(c, l, r, Z)
  BY <1>2 DEF Cursor, Unheard
<1> QED BY <1>5, <1>6, <1>7, <1>8, <1>9 DEF Cursor

\* A line read is not the one the log was left off at.
LEMMA NotLeftAt ==
    ASSUME NEW b \in Seq(Entries), NEW l, NEW w, NEW n, Near(b, l, w, n), NEW m \in Entries,
           NEW q \in Nat, m.at = 2 * q, \A k \in 1..Len(b) : ~Same(b[k], m)
    PROVE  ~(m.at = w.at /\ m.text = w.text)
<1>1. CASE \E i \in 1..Len(b) : LeftAt(b, i, w)
  BY <1>1 DEF LeftAt, Same
<1>2. CASE w.at % 2 = 1
  BY <1>2
<1> QED BY <1>1, <1>2 DEF Near

\* An entry that is taken in.
LEMMA TakenCursor ==
    ASSUME NEW b \in Seq(Entries), NEW m \in Entries, NEW q, NEW p, NEW s, TakenAt(b, p, m, s),
           NEW l, Len(l) \in Nat, Logs(m, l, q), NEW w, w.at \in Nat,
           NEW r, NEW r2, NEW Z, NEW pg, NEW pg2 \in SUBSET pg, Next_(l, r, pg, Z, q, r2),
           NEW n \in Nat, Cursor(b, l, r, w, Z, pg, n)
    PROVE  Cursor(s, l, r2, w, Z, pg2, n + 1)
<1>0. /\ Len(b) \in Nat /\ p \in 0..Len(b) /\ Len(s) = Len(b) + 1 /\ m.at \in Nat
      /\ \A k \in 1..Len(b) : b[k].at \in Nat
  BY Numbers, EntryFields DEF TakenAt
<1>1. q \in 1..Len(l) /\ q \in Nat /\ ~m.pending /\ m.at = 2 * q /\ m.text = l[q]
  BY Len(l) \in Nat DEF Logs
<1>2. /\ p > 0 => b[p].at <= m.at
      /\ p < Len(b) => m.at < b[p + 1].at
      /\ \A k \in 1..Len(b) : ~Same(b[k], m)
  BY DEF TakenAt
<1>3. /\ r \in Nat /\ r2 \in Nat
      /\ \A x \in 1..r2 : x \in 1..r \/ (x = q /\ Line(l, q) \notin Z)
      /\ Line(l, q) \in Z => q \in pg /\ q \in 1..r
  BY DEF Next_
<1>4. ~(m.at = w.at /\ m.text = w.text)
  <2>1. Near(b, l, w, n)
    BY DEF Cursor
  <2> QED BY <1>1, <1>2, <2>1, NotLeftAt
<1>5. ASSUME NEW i \in 1..Len(s), LeftAt(s, i, w) PROVE s[i] # m /\ i # p + 1
  <2>1. s[i] # m
    BY <1>4, <1>5 DEF LeftAt
  <2> QED BY <2>1 DEF TakenAt
<1>6. ASSUME NEW i \in 1..Len(s), LeftAt(s, i, w) PROVE \E k \in 1..Len(b) : s[i] = b[k] /\ LeftAt(b, k, w)
  <2>1. \E k \in 1..Len(b) : s[i] = b[k]
    BY <1>5, <1>6, TakenFrom
  <2> QED BY <1>6, <2>1 DEF LeftAt
<1>7. \A i \in 1..Len(s) : s[i].pending => \E k \in 1..Len(b) : s[i] = b[k]
  <2> SUFFICES ASSUME NEW i \in 1..Len(s), s[i].pending PROVE \E k \in 1..Len(b) : s[i] = b[k]
    OBVIOUS
  <2>1. s[p + 1] = m /\ i # p + 1
    BY <1>1, TakenFrom
  <2> QED BY <2>1, TakenFrom
<1>8. Near(s, l, w, n + 1)
  <2>1. CASE \E i \in 1..Len(b) : LeftAt(b, i, w) /\ Len(b) <= i + n
    <3>1. PICK i \in 1..Len(b) : LeftAt(b, i, w) /\ Len(b) <= i + n
      BY <2>1
    <3>2. CASE i <= p
      <4>1. i \in 1..p /\ i \in 1..Len(s) /\ Len(s) <= i + (n + 1)
        BY <1>0, <3>1, <3>2
      <4>2. s[i] = b[i]
        BY <4>1 DEF TakenAt
      <4> QED BY <3>1, <4>1, <4>2 DEF Near, LeftAt
    <3>3. CASE ~(i <= p)
      <4>1. i \in (p + 1)..Len(b) /\ i + 1 \in 1..Len(s) /\ Len(s) <= (i + 1) + (n + 1)
        BY <1>0, <3>1, <3>3
      <4>2. s[i + 1] = b[i]
        BY <4>1 DEF TakenAt
      <4> QED BY <3>1, <4>1, <4>2 DEF Near, LeftAt
    <3> QED BY <3>2, <3>3
  <2>2. CASE w.at % 2 = 1 /\ \E x \in 1..Len(l) : w.text = l[x]
    BY <2>2 DEF Near
  <2> QED BY <2>1, <2>2 DEF Cursor, Near
<1>9. Behind(s, w, Z)
  <2> SUFFICES ASSUME NEW i \in 1..Len(s), LeftAt(s, i, w), NEW j \in 1..Len(s), i < j
               PROVE  w.at <= s[j].at /\ (~s[j].pending => Record(s[j]) \notin Z)
    BY DEF Behind
  <2>1. CASE \E k, x \in 1..Len(b) : k < x /\ s[i] = b[k] /\ s[j] = b[x]
    <3>1. PICK k, x \in 1..Len(b) : k < x /\ s[i] = b[k] /\ s[j] = b[x]
      BY <2>1
    <3>2. LeftAt(b, k, w)
      BY <3>1 DEF LeftAt
    <3> QED BY <3>1, <3>2 DEF Cursor, Behind
  <2>2. CASE j = p + 1 /\ s[j] = m /\ \E k \in 1..Len(b) : k <= p /\ s[i] = b[k]
    <3>1. PICK k \in 1..Len(b) : k <= p /\ s[i] = b[k]
      BY <2>2
    <3>2. LeftAt(b, k, w)
      BY <3>1 DEF LeftAt
    <3>3. p \in 1..Len(b) /\ b[p].at <= m.at
      BY <1>0, <1>2, <3>1
    <3>4. w.at <= b[p].at
      <4>1. CASE k = p
        BY <1>0, <3>2, <3>3, <4>1 DEF LeftAt
      <4>2. CASE k < p
        BY <3>2, <3>3, <4>2 DEF Cursor, Behind
      <4> QED BY <1>0, <3>1, <4>1, <4>2
    <3>5. w.at <= m.at
      BY <1>0, <3>3, <3>4
    <3>6. Record(m) = Line(l, q)
      BY <1>1 DEF Record, Line
    <3>7. ASSUME Line(l, q) \in Z PROVE FALSE
      <4>1. q \in pg /\ q \in 1..r
        BY <1>3, <3>7
      <4>2. Line(l, q) # w
        BY <1>1, <1>4 DEF Line
      <4>3. ~(2 * q < w.at)
        BY <1>0, <1>1, <3>5
      <4> QED BY <3>2, <3>7, <4>1, <4>2, <4>3 DEF Cursor, SeenUpTo
    <3> QED BY <2>2, <3>5, <3>6, <3>7
  <2> QED BY <1>5, <2>1, <2>2, TakenPair
<1>10. SeenUpTo(s, l, r2, w, Z, pg2)
  <2> SUFFICES ASSUME NEW i \in 1..Len(s), LeftAt(s, i, w), NEW x \in 1..r2, Line(l, x) \in Z,
                      ~(2 * x < w.at), Line(l, x) # w
               PROVE  /\ l[x] \in Texts /\ w.at % 2 = 0 /\ w.at < 2 * x /\ x \notin pg2
                      /\ \A k \in 1..Len(s) : /\ k <= i => s[k].at <= 2 * x
                                              /\ i < k /\ s[k].pending => 2 * x < s[k].at
    BY DEF SeenUpTo
  <2>1. x \in 1..r /\ x \in Nat
    BY <1>3
  <2>2. ASSUME NEW y \in 1..Len(b), LeftAt(b, y, w)
        PROVE  /\ l[x] \in Texts /\ w.at % 2 = 0 /\ w.at < 2 * x /\ x \notin pg
               /\ \A k \in 1..Len(b) : /\ k <= y => b[k].at <= 2 * x
                                       /\ y < k /\ b[k].pending => 2 * x < b[k].at
    BY <2>1, <2>2 DEF Cursor, SeenUpTo
  <2>3. PICK y \in 1..Len(b) : s[i] = b[y] /\ LeftAt(b, y, w)
    BY <1>6
  <2>4. ASSUME NEW k \in 1..Len(s), k <= i PROVE s[k].at <= 2 * x
    <3>1. CASE k = i
      <4>2. y <= y
        BY <1>0
      <4>1. b[y].at <= 2 * x
        BY <2>2, <2>3, <4>2
      <4> QED BY <2>3, <3>1, <4>1
    <3>2. CASE k < i
      <4>1. CASE \E u, v \in 1..Len(b) : u < v /\ s[k] = b[u] /\ s[i] = b[v]
        <5>1. PICK u, v \in 1..Len(b) : u < v /\ s[k] = b[u] /\ s[i] = b[v]
          BY <4>1
        <5>2. LeftAt(b, v, w) /\ u <= v
          BY <5>1 DEF LeftAt
        <5> QED BY <2>2, <5>1, <5>2
      <4>2. CASE k = p + 1 /\ s[k] = m /\ \E v \in 1..Len(b) : p < v /\ s[i] = b[v]
        <5>1. PICK v \in 1..Len(b) : p < v /\ s[i] = b[v]
          BY <4>2
        <5>2. LeftAt(b, v, w)
          BY <5>1 DEF LeftAt
        <5>3. p + 1 \in 1..Len(b) /\ p + 1 <= v /\ m.at < b[p + 1].at
          BY <1>0, <1>2, <5>1
        <5>4. b[p + 1].at <= 2 * x
          BY <2>2, <5>2, <5>3
        <5>5. b[p + 1].at \in Nat /\ 2 * x \in Nat
          BY <1>0, <2>1, <5>3
        <5>6. m.at <= 2 * x
          BY <1>0, <5>3, <5>4, <5>5
        <5> QED BY <4>2, <5>6
      <4> QED BY <1>5, <3>2, <4>1, <4>2, TakenPair
    <3> QED BY <2>4, <3>1, <3>2
  <2>5. ASSUME NEW k \in 1..Len(s), i < k, s[k].pending PROVE 2 * x < s[k].at
    <3>1. CASE \E u, v \in 1..Len(b) : u < v /\ s[i] = b[u] /\ s[k] = b[v]
      <4>1. PICK u, v \in 1..Len(b) : u < v /\ s[i] = b[u] /\ s[k] = b[v]
        BY <3>1
      <4>2. LeftAt(b, u, w)
        BY <4>1 DEF LeftAt
      <4> QED BY <2>2, <2>5, <4>1, <4>2
    <3>2. s[i] # m /\ s[k] # m
      BY <1>1, <1>5, <2>5
    <3> QED BY <2>5, <3>1, <3>2, TakenPair
  <2> QED BY <2>2, <2>3, <2>4, <2>5
<1>11. Unheard(s, l, r2, Z)
  BY <1>3, <1>7 DEF Cursor, Unheard
<1> QED BY <1>0, <1>8, <1>9, <1>10, <1>11 DEF Cursor

\* An echo that is put where it was waited for.
LEMMA PutCursor ==
    ASSUME NEW b \in Seq(Entries), NEW m \in Entries, NEW q, NEW i, NEW s, Put(b, i, m, s),
           NEW l, Len(l) \in Nat, Logs(m, l, q), m.text \in Texts, NEW w, w.at \in Nat,
           NEW r, r \in 0..Len(l), Shows(b, l, r), InTurn(b, l, {}),
           NEW r2, NEW Z, NEW pg, NEW pg2 \in SUBSET pg, Next_(l, r, pg, Z, q, r2),
           NEW n \in Nat, Cursor(b, l, r, w, Z, pg, n)
    PROVE  Cursor(s, l, r2, w, Z, pg2, n + 1)
<1>0. /\ Len(b) \in Nat /\ m.at \in Nat
      /\ \A k \in 1..Len(b) : b[k].at \in Nat
  BY Numbers, EntryFields
<1>1. q \in 1..Len(l) /\ q \in Nat /\ ~m.pending /\ m.at = 2 * q /\ m.text = l[q]
  BY Len(l) \in Nat DEF Logs
<1>2. /\ Len(s) = Len(b) /\ i \in 1..Len(b) /\ s[i] = m /\ b[i].pending /\ b[i].text = m.text
      /\ \A k \in 1..Len(b) : k # i => s[k] = b[k]
      /\ \A k \in 1..Len(b) : ~Same(b[k], m)
  BY DEF Put
<1>3. /\ r \in Nat /\ r2 \in Nat
      /\ \A x \in 1..r2 : x \in 1..r \/ (x = q /\ Line(l, q) \notin Z)
      /\ Line(l, q) \in Z => q \in pg /\ q \in 1..r
  BY DEF Next_
<1>4. ~(m.at = w.at /\ m.text = w.text)
  <2>1. Near(b, l, w, n)
    BY DEF Cursor
  <2> QED BY <1>1, <1>2, <2>1, NotLeftAt
<1>5. /\ b[i].at < m.at
      /\ \A x \in 1..Len(l) : l[x] \in Texts /\ b[i].at < 2 * x => q <= x
  BY <1>1, <1>2, InTurn(b, l, {}) DEF InTurn
<1>6. PICK y \in 0..Len(l) : b[i].at = 2 * y + 1
  BY <1>2 DEF Shows
<1>7. \A k \in 1..Len(s) : LeftAt(s, k, w) => k # i /\ s[k] = b[k] /\ LeftAt(b, k, w)
  BY <1>2, <1>4 DEF LeftAt
<1>8. \A k \in 1..Len(s) : s[k].pending => k # i /\ s[k] = b[k]
  BY <1>1, <1>2
<1>9. Near(s, l, w, n + 1)
  <2>1. CASE \E k \in 1..Len(b) : LeftAt(b, k, w) /\ Len(b) <= k + n
    <3>1. PICK k \in 1..Len(b) : LeftAt(b, k, w) /\ Len(b) <= k + n
      BY <2>1
    <3>2. CASE k = i
      <4>1. w.at % 2 = 1
        <5>1. w.at = 2 * y + 1 /\ y \in Nat
          BY <1>6, <3>1, <3>2, Len(l) \in Nat DEF LeftAt
        <5> QED BY <5>1
      <4>2. w.text = l[q]
        BY <1>1, <1>2, <3>1, <3>2 DEF LeftAt
      <4> QED BY <1>1, <4>1, <4>2 DEF Near
    <3>3. CASE k # i
      <4>1. LeftAt(s, k, w) /\ k \in 1..Len(s) /\ Len(s) <= k + (n + 1)
        BY <1>0, <1>2, <3>1, <3>3 DEF LeftAt
      <4> QED BY <4>1 DEF Near
    <3> QED BY <3>2, <3>3
  <2>2. CASE w.at % 2 = 1 /\ \E x \in 1..Len(l) : w.text = l[x]
    BY <2>2 DEF Near
  <2> QED BY <2>1, <2>2 DEF Cursor, Near
<1>10. Behind(s, w, Z)
  <2> SUFFICES ASSUME NEW k \in 1..Len(b), LeftAt(s, k, w), NEW j \in 1..Len(b), k < j
               PROVE  w.at <= s[j].at /\ (~s[j].pending => Record(s[j]) \notin Z)
    BY <1>2 DEF Behind
  <2>1. LeftAt(b, k, w)
    BY <1>2, <1>7
  <2>2. w.at <= b[j].at /\ (~b[j].pending => Record(b[j]) \notin Z)
    BY <2>1 DEF Cursor, Behind
  <2>3. CASE j # i
    BY <1>2, <2>2, <2>3
  <2>4. CASE j = i
    <3>1. w.at <= m.at
      BY <1>0, <1>2, <1>5, <2>2, <2>4
    <3>2. Record(m) = Line(l, q)
      BY <1>1 DEF Record, Line
    <3>3. Line(l, q) \notin Z
      BY <1>1, <1>2, <1>3 DEF Cursor, Unheard
    <3> QED BY <1>2, <2>4, <3>1, <3>2, <3>3
  <2> QED BY <2>3, <2>4
<1>11. SeenUpTo(s, l, r2, w, Z, pg2)
  <2> SUFFICES ASSUME NEW k \in 1..Len(b), LeftAt(s, k, w), NEW x \in 1..r2, Line(l, x) \in Z,
                      ~(2 * x < w.at), Line(l, x) # w
               PROVE  /\ l[x] \in Texts /\ w.at % 2 = 0 /\ w.at < 2 * x /\ x \notin pg2
                      /\ \A j \in 1..Len(b) : /\ j <= k => s[j].at <= 2 * x
                                              /\ k < j /\ s[j].pending => 2 * x < s[j].at
    BY <1>2 DEF SeenUpTo
  <2>1. x \in 1..r /\ x \in Nat /\ x \in 1..Len(l)
    BY <1>3, r \in 0..Len(l), Len(l) \in Nat
  <2>2. LeftAt(b, k, w) /\ k # i
    BY <1>2, <1>7
  <2>3. /\ l[x] \in Texts /\ w.at % 2 = 0 /\ w.at < 2 * x /\ x \notin pg
        /\ \A j \in 1..Len(b) : /\ j <= k => b[j].at <= 2 * x
                                /\ k < j /\ b[j].pending => 2 * x < b[j].at
    BY <2>1, <2>2 DEF Cursor, SeenUpTo
  <2>4. i <= k => m.at <= 2 * x
    <3>1. i <= k => b[i].at <= 2 * x
      BY <1>2, <2>3
    <3>2. i <= k => b[i].at < 2 * x
      BY <1>6, <2>1, <3>1, Len(l) \in Nat
    <3>3. i <= k => q <= x
      BY <1>5, <2>1, <2>3, <3>2
    <3> QED BY <1>1, <2>1, <3>3
  <2>5. ASSUME NEW j \in 1..Len(b)
        PROVE  (j <= k => s[j].at <= 2 * x) /\ (k < j /\ s[j].pending => 2 * x < s[j].at)
    <3>1. CASE j = i
      BY <1>1, <1>2, <2>4, <3>1
    <3>2. CASE j # i
      BY <1>2, <2>3, <3>2
    <3> QED BY <3>1, <3>2
  <2> QED BY <2>3, <2>5
<1>12. Unheard(s, l, r2, Z)
  BY <1>2, <1>3, <1>8 DEF Cursor, Unheard
<1> QED BY <1>0, <1>2, <1>9, <1>10, <1>11, <1>12 DEF Cursor

\* A line that is read,
LEMMA ReadCursor ==
    ASSUME NEW b \in Seq(Entries), NEW m \in Entries, NEW q,
           NEW l, Len(l) \in Nat, Logs(m, l, q), NEW w, w.at \in Nat,
           NEW r, r \in 0..Len(l), Shows(b, l, r), InTurn(b, l, {}),
           NEW r2, NEW Z, NEW pg, NEW pg2 \in SUBSET pg, Next_(l, r, pg, Z, q, r2),
           NEW n \in Nat, n + 1 < Limit, Cursor(b, l, r, w, Z, pg, n),
           NEW c, c = IF m.text \in Texts THEN Reconcile(b, m) ELSE Insert(b, m)
    PROVE  Cursor(c, l, r2, w, Z, pg2, n + 1)
<1>0. q \in Nat /\ ~m.pending /\ m.at = 2 * q /\ r \in Nat /\ Len(b) \in Nat
  BY Len(l) \in Nat DEF Logs
<1>1. CASE c = b
  <2>1. Near(c, l, w, n + 1)
    <3>1. \A i \in 1..Len(b) : Len(b) <= i + n => Len(b) <= i + (n + 1)
      BY <1>0
    <3> QED BY <1>1, <3>1 DEF Cursor, Near
  <2>2. SeenUpTo(c, l, r2, w, Z, pg2)
    BY <1>1 DEF Cursor, SeenUpTo, Next_
  <2>3. Unheard(c, l, r2, Z)
    BY <1>1 DEF Cursor, Unheard, Next_
  <2> QED BY <1>1, <2>1, <2>2, <2>3 DEF Cursor
<1>2. CASE \E i \in 1..Len(b) : Put(b, i, m, c)
  <2>1. PICK i \in 1..Len(b) : Put(b, i, m, c)
    BY <1>2
  <2>2. m.text \in Texts
    <3>1. b[i].pending /\ b[i].text = m.text
      BY <2>1 DEF Put
    <3> QED BY <3>1 DEF Shows
  <2> QED BY <2>1, <2>2, PutCursor
<1>3. CASE \E p \in 0..Len(b), s \in Seq(Entries) : TakenAt(b, p, m, s) /\ c = Trimmed(s)
  <2>1. PICK p \in 0..Len(b), s \in Seq(Entries) : TakenAt(b, p, m, s) /\ c = Trimmed(s)
    BY <1>3
  <2>2. Cursor(s, l, r2, w, Z, pg2, n + 1)
    BY <2>1, TakenCursor
  <2>3. Trimmed(s) \in Seq(Entries) /\ EndOf(Trimmed(s), s, Excess(s))
    BY TrimmedTo
  <2>4. n + 1 \in Nat
    OBVIOUS
  <2> QED BY <2>1, <2>2, <2>3, <2>4, EndCursor
<1>4. \/ c = b /\ \E i \in 1..Len(b) : b[i] = m
      \/ \E i \in 1..Len(b) : Put(b, i, m, c)
      \/ \E p \in 0..Len(b), s \in Seq(Entries) : TakenAt(b, p, m, s) /\ c = Trimmed(s)
  BY <1>0, ReadChanges, Shows(b, l, r),
     c = IF m.text \in Texts THEN Reconcile(b, m) ELSE Insert(b, m)
<1> QED BY <1>1, <1>2, <1>3, <1>4

\* one that is said,
LEMMA SayCursor ==
    ASSUME NEW b \in Seq(Entries), NEW l, Len(l) \in Nat, NEW w, w.at \in Nat, NEW r \in 0..Len(l),
           NEW Z, NEW pg, NEW n \in Nat, n + 1 < Limit, Cursor(b, l, r, w, Z, pg, n),
           NEW m \in Entries, m.pending, m.at = 2 * Len(l) + 1,
           \A k \in 1..Len(b) : b[k].text # m.text /\ b[k].at <= m.at,
           \A p \in 1..Len(l) : l[p] # m.text,
           NEW s \in Seq(Entries), TakenAt(b, Len(b), m, s), NEW c, c = Trimmed(s)
    PROVE  Cursor(c, l, r, w, Z, pg, n + 1)
<1>0. /\ Len(b) \in Nat /\ m.at \in Nat /\ Len(s) = Len(b) + 1 /\ s[Len(b) + 1] = m
      /\ \A k \in 1..Len(b) : b[k].at \in Nat /\ s[k] = b[k]
  <2>1. Len(b) \in Nat /\ m.at \in Nat /\ \A k \in 1..Len(b) : b[k].at \in Nat
    BY Numbers, EntryFields
  <2>2. Len(s) = Len(b) + 1 /\ s[Len(b) + 1] = m /\ \A k \in 1..Len(b) : s[k] = b[k]
    BY DEF TakenAt
  <2> QED BY <2>1, <2>2
<1>1. m.text # w.text
  <2>1. CASE \E i \in 1..Len(b) : LeftAt(b, i, w)
    BY <2>1 DEF LeftAt
  <2>2. CASE \E p \in 1..Len(l) : w.text = l[p]
    BY <2>2
  <2> QED BY <2>1, <2>2 DEF Cursor, Near
<1>2. ASSUME NEW i \in 1..Len(s), i # Len(b) + 1 PROVE i \in 1..Len(b) /\ s[i] = b[i]
  BY <1>0, <1>2
<1>3. ASSUME NEW i \in 1..Len(s), LeftAt(s, i, w) PROVE i \in 1..Len(b) /\ s[i] = b[i] /\ LeftAt(b, i, w)
  <2>1. i # Len(b) + 1
    BY <1>0, <1>1, <1>3 DEF LeftAt
  <2> QED BY <1>2, <1>3, <2>1 DEF LeftAt
<1>4. Near(s, l, w, n + 1)
  <2>1. CASE \E i \in 1..Len(b) : LeftAt(b, i, w) /\ Len(b) <= i + n
    <3>1. PICK i \in 1..Len(b) : LeftAt(b, i, w) /\ Len(b) <= i + n
      BY <2>1
    <3>2. i \in 1..Len(s) /\ Len(s) <= i + (n + 1) /\ LeftAt(s, i, w)
      BY <1>0, <3>1 DEF LeftAt
    <3> QED BY <3>2 DEF Near
  <2>2. CASE w.at % 2 = 1 /\ \E x \in 1..Len(l) : w.text = l[x]
    BY <2>2 DEF Near
  <2> QED BY <2>1, <2>2 DEF Cursor, Near
<1>5. Behind(s, w, Z)
  <2> SUFFICES ASSUME NEW i \in 1..Len(s), LeftAt(s, i, w), NEW j \in 1..Len(s), i < j
               PROVE  w.at <= s[j].at /\ (~s[j].pending => Record(s[j]) \notin Z)
    BY DEF Behind
  <2>1. i \in 1..Len(b) /\ LeftAt(b, i, w)
    BY <1>3
  <2>2. CASE j = Len(b) + 1
    BY <1>0, <2>1, <2>2 DEF LeftAt
  <2>3. CASE j # Len(b) + 1
    BY <1>2, <2>1, <2>3 DEF Cursor, Behind
  <2> QED BY <2>2, <2>3
<1>6. SeenUpTo(s, l, r, w, Z, pg)
  <2> SUFFICES ASSUME NEW i \in 1..Len(s), LeftAt(s, i, w), NEW p \in 1..r, Line(l, p) \in Z,
                      ~(2 * p < w.at), Line(l, p) # w
               PROVE  /\ l[p] \in Texts /\ w.at % 2 = 0 /\ w.at < 2 * p /\ p \notin pg
                      /\ \A k \in 1..Len(s) : /\ k <= i => s[k].at <= 2 * p
                                              /\ i < k /\ s[k].pending => 2 * p < s[k].at
    BY DEF SeenUpTo
  <2>1. i \in 1..Len(b) /\ LeftAt(b, i, w)
    BY <1>3
  <2>2. /\ l[p] \in Texts /\ w.at % 2 = 0 /\ w.at < 2 * p /\ p \notin pg
        /\ \A k \in 1..Len(b) : /\ k <= i => b[k].at <= 2 * p
                                /\ i < k /\ b[k].pending => 2 * p < b[k].at
    BY <2>1 DEF Cursor, SeenUpTo
  <2>3. 2 * p < m.at /\ ~(Len(b) + 1 <= i)
    BY <1>0, <2>1, Len(l) \in Nat
  <2>4. ASSUME NEW k \in 1..Len(s)
        PROVE  (k <= i => s[k].at <= 2 * p) /\ (i < k /\ s[k].pending => 2 * p < s[k].at)
    <3>1. CASE k = Len(b) + 1
      BY <1>0, <2>3, <3>1
    <3>2. CASE k # Len(b) + 1
      BY <1>2, <2>2, <3>2
    <3> QED BY <3>1, <3>2
  <2> QED BY <2>2, <2>4
<1>7. Unheard(s, l, r, Z)
  <2>1. \A p \in 1..r : l[p] # m.text
    BY Len(l) \in Nat
  <2>2. \A i \in 1..Len(s) : s[i] = m \/ \E k \in 1..Len(b) : s[i] = b[k]
    BY <1>0, <1>2
  <2> QED BY <2>1, <2>2 DEF Cursor, Unheard
<1>8. Cursor(s, l, r, w, Z, pg, n + 1)
  BY <1>0, <1>4, <1>5, <1>6, <1>7 DEF Cursor
<1>9. Trimmed(s) \in Seq(Entries) /\ EndOf(Trimmed(s), s, Excess(s))
  BY TrimmedTo
<1>10. n + 1 \in Nat
  OBVIOUS
<1> QED BY <1>8, <1>9, <1>10, EndCursor

\* and one that is logged.
LEMMA LogCursor ==
    ASSUME NEW b, NEW T, NEW l \in Seq(T), NEW v, NEW r \in 0..Len(l), NEW w, NEW Z, NEW pg, NEW n,
           Cursor(b, l, r, w, Z, pg, n)
    PROVE  Cursor(b, Append(l, v), r, w, Z, pg, n)
<1> DEFINE L == Append(l, v)
<1>0. Len(l) \in Nat /\ Len(L) = Len(l) + 1 /\ \A q \in 1..Len(l) : L[q] = l[q]
  OBVIOUS
<1> HIDE DEF L
<1>1. \A p \in 1..r : p \in 1..Len(l) /\ L[p] = l[p]
  BY <1>0
<1>2. \A p \in 1..r : Line(L, p) = Line(l, p)
  BY <1>1 DEF Line
<1>3. Near(b, L, w, n)
  BY <1>0 DEF Cursor, Near
<1>4. SeenUpTo(b, L, r, w, Z, pg)
  BY <1>1, <1>2 DEF Cursor, SeenUpTo
<1>5. Unheard(b, L, r, Z)
  BY <1>1, <1>2 DEF Cursor, Unheard
<1>6. Cursor(b, L, r, w, Z, pg, n)
  BY <1>3, <1>4, <1>5 DEF Cursor
<1> QED BY <1>6 DEF L

\* Another page is asked for, and what has been read may be more.
LEMMA PageCursor ==
    ASSUME NEW b, NEW l, NEW r \in Nat, NEW r2 \in Nat, NEW w, NEW Z, NEW pg, NEW pg2, NEW n,
           Cursor(b, l, r, w, Z, pg, n),
           \A p \in 1..r2 : Line(l, p) \in Z => p \in 1..r,
           \A i \in 1..Len(b) : LeftAt(b, i, w) =>
              \A p \in 1..r : w.at % 2 = 0 /\ Line(l, p) \in Z /\ p \notin pg
                                /\ (\A k \in 1..Len(b) : k <= i => b[k].at <= 2 * p) => p \notin pg2
    PROVE  Cursor(b, l, r2, w, Z, pg2, n)
<1>1. SeenUpTo(b, l, r2, w, Z, pg2)
  <2> SUFFICES ASSUME NEW i \in 1..Len(b), LeftAt(b, i, w), NEW p \in 1..r2, Line(l, p) \in Z,
                      ~(2 * p < w.at), Line(l, p) # w
               PROVE  /\ l[p] \in Texts /\ w.at % 2 = 0 /\ w.at < 2 * p /\ p \notin pg2
                      /\ \A k \in 1..Len(b) : /\ k <= i => b[k].at <= 2 * p
                                              /\ i < k /\ b[k].pending => 2 * p < b[k].at
    BY DEF SeenUpTo
  <2>1. p \in 1..r
    OBVIOUS
  <2>2. /\ l[p] \in Texts /\ w.at % 2 = 0 /\ w.at < 2 * p /\ p \notin pg
        /\ \A k \in 1..Len(b) : /\ k <= i => b[k].at <= 2 * p
                                /\ i < k /\ b[k].pending => 2 * p < b[k].at
    BY <2>1 DEF Cursor, SeenUpTo
  <2>3. \A k \in 1..Len(b) : k <= i => b[k].at <= 2 * p
    BY <2>2
  <2>4. p \notin pg2
    BY <2>1, <2>2, <2>3
  <2> QED BY <2>2, <2>4
<1>2. Unheard(b, l, r2, Z)
  BY DEF Cursor, Unheard
<1> QED BY <1>1, <1>2 DEF Cursor

\* The log is left off at the last entry, with all of the buffer seen.
LEMMA CollectCursor ==
    ASSUME NEW b \in Seq(Entries), Len(b) > 0, NEW l, Len(l) \in Nat, NEW r \in 0..Len(l), Shows(b, l, r),
           NEW pg, NEW os, Ordered(b, l, pg, os), NEW w, w.at \in Nat, NEW w2, w2 = Record(b[Len(b)]),
           NEW Z, NEW Z2, NEW n,
           Z = {} \/ (Cursor(b, l, r, w, Z, pg, n) /\ \E i \in 1..Len(b) : LeftAt(b, i, w)),
           \A z \in Z2 : z \in Z \/ \E k \in 1..Len(b) : z = Record(b[k])
    PROVE  Cursor(b, l, r, w2, Z2, pg, 0)
<1>0. Len(b) \in 1..Len(b) /\ Len(b) \in Nat /\ \A k \in 1..Len(b) : b[k].at \in Nat
  BY Numbers
<1>1. Keys(b) /\ Alone(b) /\ Rising(b) /\ Dips(b, l, pg) /\ Splits(b)
  BY DEF Ordered
<1> DEFINE N == Len(b)
<1>2. w2.at = b[N].at /\ w2.text = b[N].text
  BY DEF Record
<1>3. \A i \in 1..N : LeftAt(b, i, w2) => i = N
  BY <1>0, <1>1, <1>2 DEF Keys, Same, LeftAt
<1>4. Near(b, l, w2, 0)
  <2>1. LeftAt(b, N, w2) /\ N <= N + 0
    BY <1>0, <1>2 DEF LeftAt
  <2> QED BY <1>0, <2>1 DEF Near
<1>5. Behind(b, w2, Z2)
  <2>1. \A j \in 1..N : ~(N < j)
    BY <1>0
  <2> QED BY <1>3, <2>1 DEF Behind
<1>6. \A k \in 1..N : b[k].at % 2 = 0 => ~b[k].pending
  <2> SUFFICES ASSUME NEW k \in 1..N, b[k].pending PROVE b[k].at % 2 # 0
    OBVIOUS
  <2>1. PICK q \in 0..Len(l) : b[k].at = 2 * q + 1
    BY DEF Shows
  <2>2. q \in Nat
    BY Len(l) \in Nat
  <2> QED BY <2>1, <2>2
<1>7. \A k \in 1..N : ~b[k].pending => b[k].at % 2 = 0
  <2> SUFFICES ASSUME NEW k \in 1..N, ~b[k].pending PROVE b[k].at % 2 = 0
    OBVIOUS
  <2>1. PICK q \in 1..r : b[k].at = 2 * q
    BY DEF Shows
  <2>2. q \in Nat
    BY Len(l) \in Nat
  <2> QED BY <2>1, <2>2
<1>8. Unheard(b, l, r, Z2)
  <2> SUFFICES ASSUME NEW i \in 1..N, b[i].pending, NEW p \in 1..r, l[p] = b[i].text, Line(l, p) \in Z2
               PROVE  FALSE
    BY DEF Unheard
  <2>1. CASE Line(l, p) \in Z
    BY <2>1 DEF Cursor, Unheard
  <2>2. CASE \E k \in 1..N : Line(l, p) = Record(b[k])
    <3>1. PICK k \in 1..N : Line(l, p) = Record(b[k])
      BY <2>2
    <3>2. b[k].at = 2 * p /\ b[k].text = l[p]
      BY <3>1 DEF Line, Record
    <3>3. i = k
      BY <1>1, <3>2 DEF Alone
    <3>4. b[k].at % 2 = 0
      BY <3>2
    <3> QED BY <1>6, <3>3, <3>4
  <2> QED BY <2>1, <2>2
\* An entry that is newer than the last.
<1>9. ASSUME NEW p \in 1..r, NEW k \in 1..N, b[N].at < 2 * p, 2 * p < b[k].at, NEW j \in 1..N,
             k < j, l[p] \in Texts
      PROVE  2 * p < b[j].at
  <2>1. b[N].at < b[k].at
    BY <1>0, <1>9
  <2>2. ~b[k].pending /\ b[k].text \in Texts
    BY <1>0, <1>1, <2>1 DEF Rising
  <2>3. p \in 1..Len(l) /\ j \in (k + 1)..N
    BY <1>0, <1>9, Len(l) \in Nat
  <2> QED BY <1>1, <1>9, <2>1, <2>2, <2>3 DEF Dips
<1>10. SeenUpTo(b, l, r, w2, Z2, pg)
  <2> SUFFICES ASSUME NEW p \in 1..r, Line(l, p) \in Z2, ~(2 * p < w2.at), Line(l, p) # w2
               PROVE  /\ l[p] \in Texts /\ w2.at % 2 = 0 /\ w2.at < 2 * p /\ p \notin pg
                      /\ \A k \in 1..N : /\ k <= N => b[k].at <= 2 * p
                                         /\ N < k /\ b[k].pending => 2 * p < b[k].at
    BY <1>3 DEF SeenUpTo
  <2>0. p \in Nat /\ p \in 1..Len(l) /\ b[N].at <= 2 * p
    BY <1>0, <1>2, Len(l) \in Nat
  <2>1. b[N].at # 2 * p
    <3> SUFFICES ASSUME b[N].at = 2 * p PROVE FALSE
      OBVIOUS
    <3>1. b[N].at % 2 = 0
      BY <2>0
    <3>2. PICK q \in 1..r : b[N].at = 2 * q /\ b[N].text = l[q]
      BY <1>0, <1>6, <3>1 DEF Shows
    <3>3. q = p
      BY <2>0, <3>2
    <3> QED BY <3>2, <3>3 DEF Line, Record
  <2>2. b[N].at < 2 * p
    BY <1>0, <2>0, <2>1
  <2>3. ASSUME NEW k \in 1..N, Line(l, p) = Record(b[k])
        PROVE  l[p] \in Texts /\ ~b[N].pending /\ p \notin pg /\ \A j \in 1..N : b[j].at <= 2 * p
    <3>1. b[k].at = 2 * p /\ b[k].text = l[p]
      BY <2>3 DEF Line, Record
    <3>2. ~b[k].pending /\ b[k].text \in Texts
      BY <1>0, <1>1, <2>2, <3>1 DEF Rising
    <3>3. ~b[N].pending
      <4>1. k # N
        BY <1>0, <2>2, <3>1
      <4>2. k < N
        BY <1>0, <4>1
      <4>3. b[N].pending => b[k].at <= b[N].at
        BY <1>0, <1>1, <4>2 DEF Splits
      <4> QED BY <1>0, <2>2, <3>1, <4>3
    <3>4. /\ \A j \in (k + 1)..N : b[j].at < b[k].at
          /\ \A q \in pg : b[k].at # 2 * q
      BY <1>1, <2>2, <3>1, <3>2 DEF Dips
    <3>5. ASSUME NEW j \in 1..N PROVE b[j].at <= 2 * p
      <4>1. CASE k < j
        <5>1. j \in (k + 1)..N
          BY <1>0, <4>1
        <5> QED BY <1>0, <2>0, <3>1, <3>4, <5>1
      <4>2. CASE k = j
        BY <1>0, <3>1, <4>2
      <4>3. CASE j < k
        <5>1. 2 * p < b[j].at => 2 * p < b[k].at
          BY <1>9, <2>2, <3>1, <3>2, <4>3
        <5> QED BY <1>0, <2>0, <3>1, <5>1
      <4> QED BY <1>0, <4>1, <4>2, <4>3
    <3> QED BY <3>1, <3>2, <3>3, <3>4, <3>5
  <2>4. ASSUME Line(l, p) \in Z, ~\E k \in 1..N : Line(l, p) = Record(b[k])
        PROVE  l[p] \in Texts /\ ~b[N].pending /\ p \notin pg /\ \A j \in 1..N : b[j].at <= 2 * p
    <3>1. Cursor(b, l, r, w, Z, pg, n)
      BY <2>4
    <3>2. PICK i \in 1..N : LeftAt(b, i, w)
      BY <2>4
    <3>3. w.at <= b[N].at
      <4>1. CASE i = N
        BY <1>0, <3>2, <4>1 DEF LeftAt
      <4>2. CASE i < N
        BY <1>0, <3>1, <3>2, <4>2 DEF Cursor, Behind
      <4> QED BY <1>0, <4>1, <4>2
    <3>4. ~(2 * p < w.at)
      BY <1>0, <2>0, <2>2, <3>3
    <3>5. Line(l, p) # w
      <4> SUFFICES ASSUME Line(l, p) = w PROVE FALSE
        OBVIOUS
      <4>1. Line(l, p) = Record(b[i])
        BY <3>2 DEF Line, LeftAt, Record
      <4> QED BY <2>4, <4>1
    <3>6. /\ l[p] \in Texts /\ w.at % 2 = 0 /\ p \notin pg
          /\ \A k \in 1..N : /\ k <= i => b[k].at <= 2 * p
                             /\ i < k /\ b[k].pending => 2 * p < b[k].at
      BY <2>4, <3>1, <3>2, <3>4, <3>5 DEF Cursor, SeenUpTo
    <3>7. ~b[N].pending
      <4>1. CASE i = N
        BY <1>0, <1>6, <3>2, <3>6, <4>1 DEF LeftAt
      <4>2. CASE i < N
        <5>1. b[N].pending => 2 * p < b[N].at
          BY <1>0, <3>6, <4>2
        <5> QED BY <1>0, <2>0, <2>2, <5>1
      <4> QED BY <1>0, <4>1, <4>2
    <3>8. ASSUME NEW j \in 1..N, ~(b[j].at <= 2 * p) PROVE FALSE
      <4>1. 2 * p < b[j].at /\ j # N
        BY <1>0, <2>0, <2>2, <3>8
      <4>2. j < N
        BY <1>0, <4>1
      <4>0. l[p] \in Texts /\ N \in 1..N
        BY <1>0, <3>6
      <4>3. 2 * p < b[N].at
        BY <1>9, <2>2, <4>0, <4>1, <4>2
      <4> QED BY <1>0, <2>0, <2>2, <4>3
    <3> QED BY <3>6, <3>7, <3>8
  <2>5. l[p] \in Texts /\ ~b[N].pending /\ p \notin pg /\ \A j \in 1..N : b[j].at <= 2 * p
    BY <2>3, <2>4
  <2>6. w2.at % 2 = 0 /\ w2.at < 2 * p
    BY <1>0, <1>2, <1>7, <2>2, <2>5
  <2>7. \A k \in 1..N : ~(N < k)
    BY <1>0
  <2> QED BY <2>5, <2>6, <2>7
<1> QED BY <1>4, <1>5, <1>8, <1>10 DEF Cursor

----------------------------------------------------------------------------
(* Folds: what is in a set, and the first of each.                         *)

\* What a fold has come to, over the positions of d, the last one last.
Folds_(V, base, n, F, g) ==
    \A d \in SUBSET (1..n) :
       /\ g[d] \in V
       /\ g[d] = IF d = {} THEN base ELSE F[<<g[d \ {Max(d)}], Max(d)>>]

\* A fold goes through the positions of a sequence, the last one last: there is
\* a function that says what it has come to.
LEMMA Folding ==
    ASSUME NEW V, NEW base \in V, NEW n \in Nat, NEW F, \A v \in V, k \in 1..n : F[<<v, k>>] \in V
    PROVE  \E g : Folds_(V, base, n, F, g)
<1> DEFINE Upto(k, g) == /\ g \in [SUBSET (1..k) -> V]
                         /\ \A d \in SUBSET (1..k) :
                               g[d] = IF d = {} THEN base ELSE F[<<g[d \ {Max(d)}], Max(d)>>]
           G == {k \in 0..n : \E g : Upto(k, g)}
<1>1. 0 \in G
  <2> DEFINE g == [d \in SUBSET (1..0) |-> base]
  <2>1. \A d \in SUBSET (1..0) : d = {}
    OBVIOUS
  <2>2. Upto(0, g)
    BY <2>1
  <2> HIDE DEF Upto
  <2> QED BY <2>2
<1>2. ASSUME NEW k \in 1..n, k - 1 \in G PROVE k \in G
  <2>1. PICK g : Upto(k - 1, g)
    BY <1>2
  <2> DEFINE h == [d \in SUBSET (1..k) |-> IF k \in d THEN F[<<g[d \ {k}], k>>] ELSE g[d]]
  <2>0. k \in Nat /\ k \in 1..k /\ \A d \in SUBSET (1..k) : d \ {k} \in SUBSET (1..(k - 1)) /\ d \ {k} \in SUBSET (1..k)
    OBVIOUS
  <2>2. \A d \in SUBSET (1..(k - 1)) : g[d] \in V /\ d \in SUBSET (1..k) /\ k \notin d
    BY <2>1
  <2>3. \A d \in SUBSET (1..k) : h[d] \in V
    <3> SUFFICES ASSUME NEW d \in SUBSET (1..k) PROVE h[d] \in V
      OBVIOUS
    <3>1. CASE k \in d
      BY <2>0, <2>2, <3>1
    <3>2. CASE k \notin d
      <4>1. d \in SUBSET (1..(k - 1))
        BY <2>0, <3>2
      <4> QED BY <2>2, <3>2, <4>1
    <3> QED BY <3>1, <3>2
  <2>4. ASSUME NEW d \in SUBSET (1..k)
        PROVE  h[d] = IF d = {} THEN base ELSE F[<<h[d \ {Max(d)}], Max(d)>>]
    <3>1. CASE k \in d
      <4>1. Max(d) = k
        <5>1. Max(d) \in d /\ k <= Max(d)
          BY <2>0, <3>1, LastOf
        <5>2. Max(d) \in 1..k
          BY <5>1
        <5> QED BY <2>0, <5>1, <5>2
      <4>2. h[d \ {k}] = g[d \ {k}]
        BY <2>0
      <4> QED BY <3>1, <4>1, <4>2
    <3>2. CASE k \notin d
      <4>1. d \in SUBSET (1..(k - 1))
        BY <2>0, <3>2
      <4>2. h[d] = g[d]
        BY <3>2
      <4>3. g[d] = IF d = {} THEN base ELSE F[<<g[d \ {Max(d)}], Max(d)>>]
        BY <2>1, <4>1
      <4>4. CASE d = {}
        BY <4>2, <4>3, <4>4
      <4>5. CASE d # {}
        <5>1. d \ {Max(d)} \in SUBSET (1..k) /\ k \notin d \ {Max(d)}
          BY <3>2
        <5>2. h[d \ {Max(d)}] = g[d \ {Max(d)}]
          BY <5>1
        <5> QED BY <4>2, <4>3, <4>5, <5>2
      <4> QED BY <4>4, <4>5
    <3> QED BY <3>1, <3>2
  <2>5. h \in [SUBSET (1..k) -> V]
    BY <2>3
  <2> HIDE DEF h
  <2>6. Upto(k, h)
    BY <2>4, <2>5
  <2> HIDE DEF Upto
  <2> QED BY <1>2, <2>6
<1>3. n \in G
  <2> HIDE DEF G
  <2>2. 0..n \subseteq G
    BY <1>1, <1>2, UpTo
  <2> QED BY <2>2
<1>4. PICK g : Upto(n, g)
  BY <1>3
<1> QED BY <1>4 DEF Folds_

\* What comes of it, position by position.
LEMMA FoldingSteps ==
    ASSUME NEW V, NEW base \in V, NEW n \in Nat, NEW F, NEW g, Folds_(V, base, n, F, g)
    PROVE  \E f :
              /\ \A k \in 0..n : f[k] \in V
              /\ f[0] = base /\ f[n] = g[1..n]
              /\ \A k \in 1..n : f[k] = F[<<f[k - 1], k>>]
<1> DEFINE f == [k \in 0..n |-> g[1..k]]
<1>1. \A k \in 0..n : 1..k \in SUBSET (1..n)
  OBVIOUS
<1>2. \A k \in 0..n : f[k] \in V
  BY <1>1 DEF Folds_
<1>3. f[0] = base
  <2>1. 1..0 = {} /\ f[0] = g[{}] /\ {} \in SUBSET (1..n)
    OBVIOUS
  <2>2. g[{}] = base
    BY <2>1 DEF Folds_
  <2> QED BY <2>1, <2>2
<1>4. f[n] = g[1..n]
  <2>1. n \in 0..n
    OBVIOUS
  <2> QED BY <2>1
<1>5. ASSUME NEW k \in 1..n PROVE f[k] = F[<<f[k - 1], k>>]
  <2>1. 1..k \in SUBSET (1..n) /\ k \in 1..k /\ 1..k # {} /\ (1..k) \ {k} = 1..(k - 1) /\ k - 1 \in 0..n /\ k \in 0..n /\ k \in Nat
    <3> HIDE DEF f
    <3>1. k \in Nat /\ k >= 1 /\ k <= n
      OBVIOUS
    <3>2. k \in 1..k /\ \A j \in 1..k : j \in 1..n
      BY <3>1
    <3>3. (1..k) \ {k} = 1..(k - 1)
      BY <3>1
    <3> QED BY <3>1, <3>2, <3>3
  <2>2. Max(1..k) = k
    <3> HIDE DEF f
    <3>1. Max(1..k) \in 1..k /\ k <= Max(1..k)
      BY <2>1, LastOf
    <3> QED BY <2>1, <3>1
  <2>3. g[1..k] = F[<<g[(1..k) \ {Max(1..k)}], Max(1..k)>>]
    <3> HIDE DEF f
    <3> QED BY <2>1 DEF Folds_
  <2>4. f[k] = g[1..k] /\ f[k - 1] = g[1..(k - 1)]
    BY <2>1
  <2> QED BY <2>1, <2>2, <2>3, <2>4
<1> HIDE DEF f
<1> QED BY <1>2, <1>3, <1>4, <1>5

\* What Those has come to.
Gathers(s, S, g) ==
    g = [d \in SUBSET DOMAIN s |->
           IF d = {} THEN <<>>
           ELSE IF s[Max(d)] \in S THEN Append(g[d \ {Max(d)}], s[Max(d)]) ELSE g[d \ {Max(d)}]]

\* Those, step by step.
LEMMA ThoseSteps ==
    ASSUME NEW T, NEW s \in Seq(T), NEW S
    PROVE  \E f :
              /\ \A k \in 0..Len(s) : f[k] \in Seq(T)
              /\ f[0] = <<>> /\ f[Len(s)] = Those(s, S)
              /\ \A k \in 1..Len(s) : f[k] = IF s[k] \in S THEN Append(f[k - 1], s[k]) ELSE f[k - 1]
<1> DEFINE n == Len(s)
           V == Seq(T)
           F == [x \in V \X (1..n) |-> IF s[x[2]] \in S THEN Append(x[1], s[x[2]]) ELSE x[1]]
           g == CHOOSE g : Gathers(s, S, g)
<1>0. n \in Nat /\ DOMAIN s = 1..n /\ <<>> \in V /\ \A k \in 1..n : s[k] \in T
  OBVIOUS
<1>1. Those(s, S) = g[DOMAIN s]
  BY DEF Those, FoldLeft, MapThenFoldSet, Gathers
<1> HIDE DEF g
<1>2. \A v \in V, k \in 1..n : F[<<v, k>>] \in V
  <2> SUFFICES ASSUME NEW q \in V, NEW k \in 1..n PROVE (IF s[k] \in S THEN Append(q, s[k]) ELSE q) \in V
    OBVIOUS
  <2> QED BY <1>0
<1>3. \A q \in V, k \in 1..n : F[<<q, k>>] = IF s[k] \in S THEN Append(q, s[k]) ELSE q
  OBVIOUS
<1> HIDE DEF F, V
<1> DEFINE none == <<>>
<1>31. n \in Nat /\ none \in V
  BY <1>0
<1> HIDE DEF n, none
<1>4. \E h : Folds_(V, none, n, F, h)
  BY <1>2, <1>31, Folding
<1>40. PICK h0 : \A d \in SUBSET (1..n) :
         h0[d] \in V /\ h0[d] = IF d = {} THEN none ELSE F[<<h0[d \ {Max(d)}], Max(d)>>]
  BY <1>4 DEF Folds_
<1> DEFINE h == [d \in SUBSET (1..n) |-> h0[d]]
<1>41. \A d \in SUBSET (1..n) :
         h[d] \in V /\ h[d] = IF d = {} THEN none ELSE F[<<h[d \ {Max(d)}], Max(d)>>]
  <2>1. \A d \in SUBSET (1..n) : d \ {Max(d)} \in SUBSET (1..n)
    OBVIOUS
  <2> QED BY <1>40, <2>1
<1>42. h = [d \in SUBSET (1..n) |-> h[d]]
  OBVIOUS
<1> HIDE DEF h
<1>5. Gathers(s, S, h)
  <2>1. ASSUME NEW d \in SUBSET (1..n), d # {}
        PROVE  h[d] = IF s[Max(d)] \in S THEN Append(h[d \ {Max(d)}], s[Max(d)]) ELSE h[d \ {Max(d)}]
    <3>1. Max(d) \in 1..n
      <4>1. Max(d) \in d
        BY <1>31, <2>1, LastOf
      <4> QED BY <4>1
    <3>2. h[d \ {Max(d)}] \in V
      BY <1>41
    <3> QED BY <1>3, <1>41, <2>1, <3>1, <3>2
  <2>2. h = [d \in SUBSET (1..n) |->
               IF d = {} THEN <<>>
               ELSE IF s[Max(d)] \in S THEN Append(h[d \ {Max(d)}], s[Max(d)]) ELSE h[d \ {Max(d)}]]
    BY <1>41, <1>42, <2>1 DEF none
  <2> QED BY <1>0, <2>2 DEF Gathers, n, none
<1>6. Gathers(s, S, g)
  BY <1>5 DEF g
<1>7. \A d \in SUBSET (1..n) :
         g[d] \in V /\ g[d] = IF d = {} THEN none ELSE F[<<g[d \ {Max(d)}], Max(d)>>]
  <2> DEFINE Right == {k \in 0..n : \A d \in SUBSET (1..k) : g[d] = h[d]}
  <2>1. 0 \in Right
    <3>1. \A d \in SUBSET (1..0) : d = {}
      OBVIOUS
    <3>2. g[{}] = <<>> /\ h[{}] = <<>>
      <4>1. {} \in SUBSET DOMAIN s
        OBVIOUS
      <4>2. \A x : Gathers(s, S, x) => x[{}] = <<>>
        <5> SUFFICES ASSUME NEW x, Gathers(s, S, x) PROVE x[{}] = <<>>
          OBVIOUS
        <5>1. x[{}] = IF {} = {} THEN <<>>
                      ELSE IF s[Max({})] \in S THEN Append(x[{} \ {Max({})}], s[Max({})]) ELSE x[{} \ {Max({})}]
          BY <4>1 DEF Gathers
        <5> QED BY <5>1
      <4> QED BY <1>5, <1>6, <4>2
    <3>3. \A d \in SUBSET (1..0) : g[d] = h[d]
      BY <3>1, <3>2
    <3>4. 0 \in 0..n
      BY <1>31
    <3> QED BY <3>3, <3>4
  <2>2. ASSUME NEW k \in 1..n, k - 1 \in Right PROVE k \in Right
    <3> SUFFICES ASSUME NEW d \in SUBSET (1..k) PROVE g[d] = h[d]
      OBVIOUS
    <3>1. CASE k \in d
      <4>1. Max(d) = k /\ k \in Nat
        <5>0. k \in Nat
          BY <1>31
        <5>1. Max(d) \in d /\ k <= Max(d)
          BY <3>1, <5>0, LastOf
        <5>2. Max(d) \in 1..k
          BY <5>1
        <5> QED BY <5>0, <5>1, <5>2
      <4>2. d \in SUBSET DOMAIN s /\ d # {} /\ d \ {k} \in SUBSET (1..(k - 1))
        <5>1. DOMAIN s = 1..n
          BY <1>0 DEF n
        <5> QED BY <1>31, <3>1, <5>1
      <4>3. g[d \ {k}] = h[d \ {k}]
        BY <2>2, <4>2
      <4>4. \A x \in {g, h} : Gathers(s, S, x) =>
              x[d] = IF s[k] \in S THEN Append(x[d \ {k}], s[k]) ELSE x[d \ {k}]
        BY <4>1, <4>2 DEF Gathers
      <4> QED BY <1>5, <1>6, <4>3, <4>4
    <3>2. CASE k \notin d
      <4>1. d \in SUBSET (1..(k - 1))
        BY <3>2
      <4> QED BY <2>2, <4>1
    <3> QED BY <3>1, <3>2
  <2>3. n \in Right
    <3> HIDE DEF Right
    <3>1. 0..n \subseteq Right
      BY <1>31, <2>1, <2>2, UpTo
    <3> QED BY <1>31, <3>1
  <2>4. \A d \in SUBSET (1..n) : g[d] = h[d]
    BY <2>3
  <2>5. \A d \in SUBSET (1..n) : d \ {Max(d)} \in SUBSET (1..n)
    OBVIOUS
  <2> QED BY <1>41, <2>4, <2>5
<1>8. PICK f : /\ \A k \in 0..n : f[k] \in V
               /\ f[0] = none /\ f[n] = g[1..n] /\ \A k \in 1..n : f[k] = F[<<f[k - 1], k>>]
  <2>1. Folds_(V, none, n, F, g)
    BY <1>7 DEF Folds_
  <2> QED BY <1>31, <2>1, FoldingSteps
<1>10. ASSUME NEW k \in 1..n
       PROVE  f[k] = IF s[k] \in S THEN Append(f[k - 1], s[k]) ELSE f[k - 1]
  <2>1. k - 1 \in 0..n
    BY <1>31
  <2> QED BY <1>3, <1>8, <2>1
<1>11. g[1..n] = Those(s, S)
  BY <1>0, <1>1 DEF n
<1> QED BY <1>8, <1>10, <1>11 DEF n, V, none

\* What Distinct has come to.
Weeds(s, g) ==
    g = [d \in SUBSET DOMAIN s |->
           IF d = {} THEN <<>>
           ELSE IF s[Max(d)] \in ToSet(g[d \ {Max(d)}]) THEN g[d \ {Max(d)}] ELSE Append(g[d \ {Max(d)}], s[Max(d)])]

\* Distinct, step by step.
LEMMA DistinctSteps ==
    ASSUME NEW T, NEW s \in Seq(T), ~IsInjective(s)
    PROVE  \E f :
              /\ \A k \in 0..Len(s) : f[k] \in Seq(T)
              /\ f[0] = <<>> /\ f[Len(s)] = Distinct(s)
              /\ \A k \in 1..Len(s) : f[k] = IF s[k] \in ToSet(f[k - 1]) THEN f[k - 1] ELSE Append(f[k - 1], s[k])
<1> DEFINE n == Len(s)
           V == Seq(T)
           F == [x \in V \X (1..n) |-> IF s[x[2]] \in ToSet(x[1]) THEN x[1] ELSE Append(x[1], s[x[2]])]
           g == CHOOSE g : Weeds(s, g)
<1>0. n \in Nat /\ DOMAIN s = 1..n /\ <<>> \in V /\ \A k \in 1..n : s[k] \in T
  OBVIOUS
<1>1. Distinct(s) = g[DOMAIN s]
  BY DEF Distinct, FoldLeft, MapThenFoldSet, Weeds
<1> HIDE DEF g
<1>2. \A v \in V, k \in 1..n : F[<<v, k>>] \in V
  <2> SUFFICES ASSUME NEW q \in V, NEW k \in 1..n PROVE (IF s[k] \in ToSet(q) THEN q ELSE Append(q, s[k])) \in V
    OBVIOUS
  <2> QED BY <1>0
<1>3. \A q \in V, k \in 1..n : F[<<q, k>>] = IF s[k] \in ToSet(q) THEN q ELSE Append(q, s[k])
  OBVIOUS
<1> HIDE DEF F, V
<1> DEFINE none == <<>>
<1>31. n \in Nat /\ none \in V
  BY <1>0
<1> HIDE DEF n, none
<1>4. \E h : Folds_(V, none, n, F, h)
  BY <1>2, <1>31, Folding
<1>40. PICK h0 : \A d \in SUBSET (1..n) :
         h0[d] \in V /\ h0[d] = IF d = {} THEN none ELSE F[<<h0[d \ {Max(d)}], Max(d)>>]
  BY <1>4 DEF Folds_
<1> DEFINE h == [d \in SUBSET (1..n) |-> h0[d]]
<1>41. \A d \in SUBSET (1..n) :
         h[d] \in V /\ h[d] = IF d = {} THEN none ELSE F[<<h[d \ {Max(d)}], Max(d)>>]
  <2>1. \A d \in SUBSET (1..n) : d \ {Max(d)} \in SUBSET (1..n)
    OBVIOUS
  <2> QED BY <1>40, <2>1
<1>42. h = [d \in SUBSET (1..n) |-> h[d]]
  OBVIOUS
<1> HIDE DEF h
<1>5. Weeds(s, h)
  <2>1. ASSUME NEW d \in SUBSET (1..n), d # {}
        PROVE  h[d] = IF s[Max(d)] \in ToSet(h[d \ {Max(d)}]) THEN h[d \ {Max(d)}] ELSE Append(h[d \ {Max(d)}], s[Max(d)])
    <3>1. Max(d) \in 1..n
      <4>1. Max(d) \in d
        BY <1>31, <2>1, LastOf
      <4> QED BY <4>1
    <3>2. h[d \ {Max(d)}] \in V
      BY <1>41
    <3> QED BY <1>3, <1>41, <2>1, <3>1, <3>2
  <2>2. h = [d \in SUBSET (1..n) |->
               IF d = {} THEN <<>>
               ELSE IF s[Max(d)] \in ToSet(h[d \ {Max(d)}]) THEN h[d \ {Max(d)}] ELSE Append(h[d \ {Max(d)}], s[Max(d)])]
    BY <1>41, <1>42, <2>1 DEF none
  <2> QED BY <1>0, <2>2 DEF Weeds, n, none
<1>6. Weeds(s, g)
  BY <1>5 DEF g
<1>7. \A d \in SUBSET (1..n) :
         g[d] \in V /\ g[d] = IF d = {} THEN none ELSE F[<<g[d \ {Max(d)}], Max(d)>>]
  <2> DEFINE Right == {k \in 0..n : \A d \in SUBSET (1..k) : g[d] = h[d]}
  <2>1. 0 \in Right
    <3>1. \A d \in SUBSET (1..0) : d = {}
      OBVIOUS
    <3>2. g[{}] = <<>> /\ h[{}] = <<>>
      <4>1. {} \in SUBSET DOMAIN s
        OBVIOUS
      <4>2. \A x : Weeds(s, x) => x[{}] = <<>>
        BY <4>1 DEF Weeds
      <4> QED BY <1>5, <1>6, <4>2
    <3>3. \A d \in SUBSET (1..0) : g[d] = h[d]
      BY <3>1, <3>2
    <3>4. 0 \in 0..n
      BY <1>31
    <3> HIDE DEF Weeds
    <3> QED BY <3>3, <3>4
  <2>2. ASSUME NEW k \in 1..n, k - 1 \in Right PROVE k \in Right
    <3> SUFFICES ASSUME NEW d \in SUBSET (1..k) PROVE g[d] = h[d]
      OBVIOUS
    <3>1. CASE k \in d
      <4>1. Max(d) = k /\ k \in Nat
        <5>0. k \in Nat
          BY <1>31
        <5>1. Max(d) \in d /\ k <= Max(d)
          BY <3>1, <5>0, LastOf
        <5>2. Max(d) \in 1..k
          BY <5>1
        <5> QED BY <5>0, <5>1, <5>2
      <4>2. d \in SUBSET DOMAIN s /\ d # {} /\ d \ {k} \in SUBSET (1..(k - 1))
        <5>1. DOMAIN s = 1..n
          BY <1>0 DEF n
        <5> QED BY <1>31, <3>1, <5>1
      <4>3. g[d \ {k}] = h[d \ {k}]
        BY <2>2, <4>2
      <4>4. \A x \in {g, h} : Weeds(s, x) =>
              x[d] = IF s[k] \in ToSet(x[d \ {k}]) THEN x[d \ {k}] ELSE Append(x[d \ {k}], s[k])
        BY <4>1, <4>2 DEF Weeds
      <4> QED BY <1>5, <1>6, <4>3, <4>4
    <3>2. CASE k \notin d
      <4>1. d \in SUBSET (1..(k - 1))
        BY <3>2
      <4> QED BY <2>2, <4>1
    <3> QED BY <3>1, <3>2
  <2>3. n \in Right
    <3> HIDE DEF Right
    <3>1. 0..n \subseteq Right
      BY <1>31, <2>1, <2>2, UpTo
    <3> QED BY <1>31, <3>1
  <2>4. \A d \in SUBSET (1..n) : g[d] = h[d]
    BY <2>3
  <2>5. \A d \in SUBSET (1..n) : d \ {Max(d)} \in SUBSET (1..n)
    OBVIOUS
  <2> QED BY <1>41, <2>4, <2>5
<1>8. PICK f : /\ \A k \in 0..n : f[k] \in V
               /\ f[0] = none /\ f[n] = g[1..n] /\ \A k \in 1..n : f[k] = F[<<f[k - 1], k>>]
  <2>1. Folds_(V, none, n, F, g)
    BY <1>7 DEF Folds_
  <2> QED BY <1>31, <2>1, FoldingSteps
<1>10. ASSUME NEW k \in 1..n
       PROVE  f[k] = IF s[k] \in ToSet(f[k - 1]) THEN f[k - 1] ELSE Append(f[k - 1], s[k])
  <2>1. k - 1 \in 0..n
    BY <1>31
  <2> QED BY <1>3, <1>8, <2>1
<1>11. g[1..n] = Distinct(s)
  BY <1>0, <1>1 DEF n
<1> QED BY <1>8, <1>10, <1>11 DEF n, V, none

----------------------------------------------------------------------------
(* The elements of a sequence.                                             *)

\* One more element.
LEMMA SetOfAppend ==
    ASSUME NEW T, NEW s \in Seq(T), NEW x \in T
    PROVE  /\ ToSet(Append(s, x)) = ToSet(s) \cup {x}
           /\ IsInjective(s) /\ x \notin ToSet(s) => IsInjective(Append(s, x))
<1>0. /\ Append(s, x) \in Seq(T) /\ Len(Append(s, x)) = Len(s) + 1 /\ Len(s) \in Nat
      /\ \A i \in 1..Len(s) : Append(s, x)[i] = s[i] /\ i \in 1..(Len(s) + 1)
      /\ Append(s, x)[Len(s) + 1] = x /\ Len(s) + 1 \in 1..(Len(s) + 1)
      /\ \A i \in 1..(Len(s) + 1) : i \in 1..Len(s) \/ i = Len(s) + 1
  BY AppendIs
<1> DEFINE a == Append(s, x)
<1>1. /\ \A e \in ToSet(a) : \E i \in 1..Len(a) : e = a[i]
      /\ \A i \in 1..Len(a) : a[i] \in ToSet(a)
      /\ DOMAIN a = 1..Len(a)
  BY <1>0, ToSetIs
<1>2. /\ \A e \in ToSet(s) : \E i \in 1..Len(s) : e = s[i]
      /\ \A i \in 1..Len(s) : s[i] \in ToSet(s)
      /\ DOMAIN s = 1..Len(s)
  BY ToSetIs
<1> HIDE DEF a
<1>3. /\ Len(a) = Len(s) + 1 /\ a[Len(s) + 1] = x
      /\ \A i \in 1..Len(s) : a[i] = s[i] /\ i \in 1..Len(a)
      /\ \A i \in 1..Len(a) : i \in 1..Len(s) \/ i = Len(s) + 1
      /\ Len(s) + 1 \in 1..Len(a)
  BY <1>0 DEF a
<1>4. \A e \in ToSet(a) : e \in ToSet(s) \cup {x}
  BY <1>1, <1>2, <1>3
<1>5. \A e \in ToSet(s) \cup {x} : e \in ToSet(a)
  <2>1. x \in ToSet(a)
    BY <1>1, <1>3
  <2>2. \A e \in ToSet(s) : e \in ToSet(a)
    <3> SUFFICES ASSUME NEW e \in ToSet(s) PROVE e \in ToSet(a)
      OBVIOUS
    <3>1. PICK i \in 1..Len(s) : e = s[i]
      BY <1>2
    <3>2. i \in 1..Len(a) /\ a[i] = e
      BY <1>3, <3>1
    <3> QED BY <1>1, <3>2
  <2> QED BY <2>1, <2>2
<1>6. ASSUME IsInjective(s), x \notin ToSet(s) PROVE IsInjective(a)
  <2>1. \A i, j \in 1..Len(s) : s[i] = s[j] => i = j
    BY <1>2, <1>6 DEF IsInjective
  <2>2. \A i \in 1..Len(s) : s[i] # x
    BY <1>2, <1>6
  <2> SUFFICES ASSUME NEW i \in 1..Len(a), NEW j \in 1..Len(a), a[i] = a[j] PROVE i = j
    BY <1>1 DEF IsInjective
  <2> QED BY <1>3, <2>1, <2>2
<1>7. ToSet(a) = ToSet(s) \cup {x}
  BY <1>4, <1>5
<1> QED BY <1>6, <1>7 DEF a

\* Those of two sequences.
LEMMA SetOfJoined ==
    ASSUME NEW T, NEW s \in Seq(T), NEW t \in Seq(T)
    PROVE  /\ s \o t \in Seq(T)
           /\ ToSet(s \o t) = ToSet(s) \cup ToSet(t)
           /\ IsInjective(s) /\ IsInjective(t) /\ ToSet(s) \cap ToSet(t) = {} => IsInjective(s \o t)
<1> DEFINE a == s \o t
<1>0. /\ a \in Seq(T) /\ Len(a) = Len(s) + Len(t)
      /\ \A i \in 1..Len(s) : a[i] = s[i]
      /\ \A i \in 1..Len(t) : a[Len(s) + i] = t[i]
      /\ Len(s) \in Nat /\ Len(t) \in Nat
  BY Joined
<1> HIDE DEF a
<1>1. /\ \A e \in ToSet(a) : \E i \in 1..Len(a) : e = a[i]
      /\ \A i \in 1..Len(a) : a[i] \in ToSet(a)
      /\ DOMAIN a = 1..Len(a)
  BY <1>0, ToSetIs
<1>2. /\ \A e \in ToSet(s) : \E i \in 1..Len(s) : e = s[i]
      /\ \A i \in 1..Len(s) : s[i] \in ToSet(s)
      /\ DOMAIN s = 1..Len(s)
  BY ToSetIs
<1>20. /\ \A e \in ToSet(t) : \E i \in 1..Len(t) : e = t[i]
      /\ \A i \in 1..Len(t) : t[i] \in ToSet(t)
      /\ DOMAIN t = 1..Len(t)
  BY ToSetIs
<1>3. \A i \in 1..Len(a) : \/ i \in 1..Len(s) /\ a[i] = s[i]
                           \/ i - Len(s) \in 1..Len(t) /\ a[i] = t[i - Len(s)]
  <2> SUFFICES ASSUME NEW i \in 1..Len(a), i \notin 1..Len(s)
               PROVE  i - Len(s) \in 1..Len(t) /\ a[i] = t[i - Len(s)]
    BY <1>0
  <2>1. i - Len(s) \in 1..Len(t) /\ Len(s) + (i - Len(s)) = i
    BY <1>0
  <2> QED BY <1>0, <2>1
<1>4. \A e \in ToSet(a) : e \in ToSet(s) \cup ToSet(t)
  BY <1>1, <1>2, <1>20, <1>3
<1>5. \A e \in ToSet(s) \cup ToSet(t) : e \in ToSet(a)
  <2>1. ASSUME NEW e \in ToSet(s) PROVE e \in ToSet(a)
    <3>1. PICK i \in 1..Len(s) : e = s[i]
      BY <1>2
    <3>2. i \in 1..Len(a) /\ a[i] = e
      BY <1>0, <3>1
    <3> QED BY <1>1, <3>2
  <2>2. ASSUME NEW e \in ToSet(t) PROVE e \in ToSet(a)
    <3>1. PICK i \in 1..Len(t) : e = t[i]
      BY <1>20
    <3>2. Len(s) + i \in 1..Len(a) /\ a[Len(s) + i] = e
      BY <1>0, <3>1
    <3> QED BY <1>1, <3>2
  <2> QED BY <2>1, <2>2
<1>6. ASSUME IsInjective(s), IsInjective(t), ToSet(s) \cap ToSet(t) = {} PROVE IsInjective(a)
  <2>1. \A i, j \in 1..Len(s) : s[i] = s[j] => i = j
    BY <1>2, <1>6 DEF IsInjective
  <2>2. \A i, j \in 1..Len(t) : t[i] = t[j] => i = j
    BY <1>20, <1>6 DEF IsInjective
  <2>3. \A i \in 1..Len(s), j \in 1..Len(t) : s[i] # t[j]
    BY <1>2, <1>20, <1>6
  <2> SUFFICES ASSUME NEW i \in 1..Len(a), NEW j \in 1..Len(a), a[i] = a[j] PROVE i = j
    BY <1>1 DEF IsInjective
  <2>4. CASE i \in 1..Len(s) /\ a[i] = s[i]
    BY <1>3, <2>1, <2>3, <2>4
  <2>5. CASE i - Len(s) \in 1..Len(t) /\ a[i] = t[i - Len(s)]
    <3>1. CASE j \in 1..Len(s) /\ a[j] = s[j]
      BY <2>3, <2>5, <3>1
    <3>2. CASE j - Len(s) \in 1..Len(t) /\ a[j] = t[j - Len(s)]
      <4>1. i - Len(s) = j - Len(s)
        BY <2>2, <2>5, <3>2
      <4> QED BY <1>0, <4>1
    <3> QED BY <1>3, <3>1, <3>2
  <2> QED BY <1>3, <2>4, <2>5
<1>7. ToSet(a) = ToSet(s) \cup ToSet(t)
  BY <1>4, <1>5
<1> QED BY <1>0, <1>6, <1>7 DEF a

\* No element.
LEMMA SetOfNone ==
    /\ ToSet(<<>>) = {} /\ IsInjective(<<>>)
    /\ \A T : <<>> \in Seq(T)
    /\ \A T : \A s \in Seq(T) : ToSet(s) = {} => s = <<>>
<1>1. DOMAIN <<>> = {}
  OBVIOUS
<1>2. ToSet(<<>>) = {} /\ IsInjective(<<>>)
  BY <1>1 DEF ToSet, IsInjective
<1>3. ASSUME NEW T, NEW s \in Seq(T), s # <<>> PROVE ToSet(s) # {}
  <2>1. 1 \in 1..Len(s)
    BY <1>3
  <2>2. s[1] \in ToSet(s)
    BY <2>1, ToSetIs
  <2> QED BY <2>2
<1> QED BY <1>2, <1>3

\* Those are what of a sequence is in a set.
LEMMA ThoseIs ==
    ASSUME NEW T, NEW s \in Seq(T), NEW S
    PROVE  /\ Those(s, S) \in Seq(T)
           /\ ToSet(Those(s, S)) = ToSet(s) \cap S
           /\ IsInjective(s) => IsInjective(Those(s, S))
<1>0. /\ Len(s) \in Nat /\ \A k \in 1..Len(s) : s[k] \in T
      /\ \A e \in ToSet(s) : \E i \in 1..Len(s) : e = s[i]
      /\ \A i \in 1..Len(s) : s[i] \in ToSet(s)
      /\ DOMAIN s = 1..Len(s)
  BY ToSetIs
<1>1. PICK f : /\ \A k \in 0..Len(s) : f[k] \in Seq(T)
               /\ f[0] = <<>> /\ f[Len(s)] = Those(s, S)
               /\ \A k \in 1..Len(s) : f[k] = IF s[k] \in S THEN Append(f[k - 1], s[k]) ELSE f[k - 1]
  BY ThoseSteps
<1> DEFINE Up(k) == {s[i] : i \in 1..k}
           G == {k \in 0..Len(s) : /\ ToSet(f[k]) = Up(k) \cap S
                                   /\ IsInjective(s) => IsInjective(f[k])}
<1>2. 0 \in G
  <2>1. Up(0) = {} /\ 0 \in 0..Len(s)
    BY <1>0
  <2> QED BY <1>1, <2>1, SetOfNone
<1>3. ASSUME NEW k \in 1..Len(s), k - 1 \in G PROVE k \in G
  <2>1. k - 1 \in 0..Len(s) /\ f[k - 1] \in Seq(T) /\ s[k] \in T /\ k \in 0..Len(s)
    BY <1>0, <1>1
  <2>2. Up(k) = Up(k - 1) \cup {s[k]}
    <3>1. \A i : i \in 1..k <=> i \in 1..(k - 1) \/ i = k
      BY <1>0
    <3> QED BY <3>1
  <2>3. IsInjective(s) => s[k] \notin Up(k - 1)
    <3> SUFFICES ASSUME IsInjective(s), NEW i \in 1..(k - 1), s[k] = s[i] PROVE FALSE
      OBVIOUS
    <3>1. i \in 1..Len(s) /\ i # k
      BY <1>0
    <3> QED BY <1>0, <3>1 DEF IsInjective
  <2> HIDE DEF Up
  <2>4. ToSet(f[k - 1]) = Up(k - 1) \cap S /\ (IsInjective(s) => IsInjective(f[k - 1]))
    BY <1>3
  <2>5. CASE s[k] \in S
    <3>1. f[k] = Append(f[k - 1], s[k])
      BY <1>1, <2>5
    <3>2. /\ ToSet(f[k]) = ToSet(f[k - 1]) \cup {s[k]}
          /\ IsInjective(f[k - 1]) /\ s[k] \notin ToSet(f[k - 1]) => IsInjective(f[k])
      BY <2>1, <3>1, SetOfAppend
    <3> QED BY <2>1, <2>2, <2>3, <2>4, <2>5, <3>2
  <2>6. CASE s[k] \notin S
    <3>1. f[k] = f[k - 1]
      BY <1>1, <2>6
    <3> QED BY <2>1, <2>2, <2>4, <2>6, <3>1
  <2> QED BY <2>5, <2>6
<1>4. Len(s) \in G
  <2> HIDE DEF G
  <2>1. 0..Len(s) \subseteq G
    BY <1>0, <1>2, <1>3, UpTo
  <2> QED BY <1>0, <2>1
<1>5. Up(Len(s)) = ToSet(s)
  BY <1>0
<1> HIDE DEF Up
<1> QED BY <1>0, <1>1, <1>4, <1>5

\* Distinct loses no element, and keeps none twice.
LEMMA DistinctIs ==
    ASSUME NEW T, NEW s \in Seq(T)
    PROVE  /\ Distinct(s) \in Seq(T)
           /\ ToSet(Distinct(s)) = ToSet(s)
           /\ IsInjective(Distinct(s))
<1>0. /\ Len(s) \in Nat /\ \A k \in 1..Len(s) : s[k] \in T
      /\ \A e \in ToSet(s) : \E i \in 1..Len(s) : e = s[i]
      /\ \A i \in 1..Len(s) : s[i] \in ToSet(s)
      /\ DOMAIN s = 1..Len(s)
  BY ToSetIs
<1>a. CASE IsInjective(s)
  <2>1. Distinct(s) = s
    BY <1>a DEF Distinct
  <2> QED BY <1>a, <2>1
<1>b. CASE ~IsInjective(s)
  <2>1. PICK f : /\ \A k \in 0..Len(s) : f[k] \in Seq(T)
                 /\ f[0] = <<>> /\ f[Len(s)] = Distinct(s)
                 /\ \A k \in 1..Len(s) : f[k] = IF s[k] \in ToSet(f[k - 1]) THEN f[k - 1] ELSE Append(f[k - 1], s[k])
    BY <1>b, DistinctSteps
  <2> DEFINE Up(k) == {s[i] : i \in 1..k}
             G == {k \in 0..Len(s) : ToSet(f[k]) = Up(k) /\ IsInjective(f[k])}
  <2>2. 0 \in G
    <3>1. Up(0) = {} /\ 0 \in 0..Len(s)
      BY <1>0
    <3> QED BY <2>1, <3>1, SetOfNone
  <2>3. ASSUME NEW k \in 1..Len(s), k - 1 \in G PROVE k \in G
    <3>1. k - 1 \in 0..Len(s) /\ f[k - 1] \in Seq(T) /\ s[k] \in T /\ k \in 0..Len(s)
      BY <1>0, <2>1
    <3>2. Up(k) = Up(k - 1) \cup {s[k]}
      <4>1. \A i : i \in 1..k <=> i \in 1..(k - 1) \/ i = k
        BY <1>0
      <4> QED BY <4>1
    <3> HIDE DEF Up
    <3>4. ToSet(f[k - 1]) = Up(k - 1) /\ IsInjective(f[k - 1])
      BY <2>3
    <3>5. CASE s[k] \notin ToSet(f[k - 1])
      <4>1. f[k] = Append(f[k - 1], s[k])
        BY <2>1, <3>5
      <4>2. /\ ToSet(f[k]) = ToSet(f[k - 1]) \cup {s[k]}
            /\ IsInjective(f[k - 1]) /\ s[k] \notin ToSet(f[k - 1]) => IsInjective(f[k])
        BY <3>1, <4>1, SetOfAppend
      <4> QED BY <3>1, <3>2, <3>4, <3>5, <4>2
    <3>6. CASE s[k] \in ToSet(f[k - 1])
      <4>1. f[k] = f[k - 1]
        BY <2>1, <3>6
      <4> QED BY <3>1, <3>2, <3>4, <3>6, <4>1
    <3> QED BY <3>5, <3>6
  <2>4. Len(s) \in G
    <3> HIDE DEF G
    <3>1. 0..Len(s) \subseteq G
      BY <1>0, <2>2, <2>3, UpTo
    <3> QED BY <1>0, <3>1
  <2>5. Up(Len(s)) = ToSet(s)
    BY <1>0
  <2> HIDE DEF Up
  <2> QED BY <1>0, <2>1, <2>4, <2>5
<1> QED BY <1>a, <1>b

----------------------------------------------------------------------------
(* What is new.                                                            *)

\* The parts of a record.
LEMMA RecordIs ==
    ASSUME NEW e \in Entries
    PROVE  Record(e) \in Lines /\ Record(e).at = e.at /\ Record(e).text = e.text
BY EntryFields DEF Record, Lines

\* Records of entries, one of each.
LEMMA RecordsIs ==
    ASSUME NEW b \in Seq(Entries)
    PROVE  /\ Records(b) \in Seq(Lines) /\ Len(Records(b)) = Len(b)
           /\ \A i \in 1..Len(b) : Records(b)[i] = Record(b[i])
           /\ ToSet(Records(b)) = {Record(e) : e \in ToSet(b)}
           /\ Keys(b) => IsInjective(Records(b))
<1>0. /\ Len(b) \in Nat /\ \A i \in 1..Len(b) : b[i] \in Entries
      /\ \A e \in ToSet(b) : \E i \in 1..Len(b) : e = b[i]
      /\ \A i \in 1..Len(b) : b[i] \in ToSet(b)
  BY ToSetIs
<1> DEFINE m == [i \in 1..Len(b) |-> Record(b[i])]
<1>1. m \in [1..Len(b) -> Lines] /\ Records(b) = m
  BY <1>0, RecordIs DEF Records
<1>2. m \in Seq(Lines) /\ Len(m) = Len(b)
  <2> HIDE DEF m
  <2> QED BY <1>0, <1>1, SequenceIs
<1>3. \A i \in 1..Len(b) : m[i] = Record(b[i])
  OBVIOUS
<1> HIDE DEF m
<1>4. /\ \A e \in ToSet(m) : \E i \in 1..Len(m) : e = m[i]
      /\ \A i \in 1..Len(m) : m[i] \in ToSet(m)
      /\ DOMAIN m = 1..Len(m)
  BY <1>2, ToSetIs
<1>5. ToSet(m) = {Record(e) : e \in ToSet(b)}
  BY <1>0, <1>2, <1>3, <1>4
<1>6. ASSUME Keys(b) PROVE IsInjective(m)
  <2> SUFFICES ASSUME NEW i \in 1..Len(b), NEW j \in 1..Len(b), m[i] = m[j] PROVE i = j
    BY <1>2, <1>4 DEF IsInjective
  <2>1. Record(b[i]) = Record(b[j])
    BY <1>3
  <2>2. Same(b[i], b[j])
    BY <1>0, <2>1, RecordIs DEF Same
  <2> QED BY <1>6, <2>2 DEF Keys
<1> QED BY <1>1, <1>2, <1>3, <1>5, <1>6

\* Where the log was left off.
LEMMA StartIs ==
    ASSUME NEW b \in Seq(Entries), written \in Lines
    PROVE  /\ Start(b) \in 0..Len(b)
           /\ written = Nothing => Start(b) = Len(b)
           /\ written # Nothing /\ Start(b) # 0 => LeftAt(b, Start(b), written)
<1> DEFINE I == {i \in 1..Len(b) : Record(b[i]) = written}
<1>1. Len(b) \in Nat /\ I \in SUBSET (1..Len(b)) /\ \A i \in 1..Len(b) : b[i] \in Entries
  OBVIOUS
<1>2. Start(b) = IF written = Nothing THEN Len(b) ELSE IF I # {} THEN Min(I) ELSE 0
  BY DEF Start, SelectInSeq
<1>3. I # {} => Min(I) \in I
  <2> HIDE DEF I
  <2> QED BY <1>1, FirstOf
<1>4. \A i \in I : LeftAt(b, i, written)
  BY <1>1, RecordIs DEF LeftAt
<1>5. \A i \in I : i \in 1..Len(b)
  OBVIOUS
<1> HIDE DEF I
<1>6. CASE written = Nothing
  <2>1. Start(b) = Len(b)
    BY <1>2, <1>6
  <2> QED BY <1>1, <1>6, <2>1
<1>7. CASE written # Nothing /\ I # {}
  <2>1. Start(b) \in I
    BY <1>2, <1>3, <1>7
  <2>2. Start(b) \in 1..Len(b) /\ LeftAt(b, Start(b), written)
    BY <1>4, <1>5, <2>1
  <2> QED BY <1>1, <1>7, <2>2
<1>8. CASE written # Nothing /\ I = {}
  <2>1. Start(b) = 0
    BY <1>2, <1>8
  <2> QED BY <1>1, <1>8, <2>1
<1> QED BY <1>6, <1>7, <1>8

\* What is new is behind it.
LEMMA FreshIs ==
    ASSUME NEW b \in Seq(Entries), written \in Lines
    PROVE  /\ Fresh(b) \in Seq(Entries)
           /\ \A e \in ToSet(Fresh(b)) : \E j \in 1..Len(b) : Start(b) < j /\ e = b[j]
           /\ Keys(b) => Keys(Fresh(b))
           /\ Start(b) = Len(b) => Fresh(b) = <<>>
<1>0. Start(b) \in 0..Len(b) /\ Len(b) \in Nat
  BY StartIs
<1> DEFINE f == Start(b)
           s == SubSeq(b, f + 1, Len(b))
<1>1. Fresh(b) = s
  BY DEF Fresh
<1> HIDE DEF f
<1>2. f \in 0..Len(b)
  BY <1>0 DEF f
<1>3. /\ s \in Seq(Entries) /\ Len(s) = Len(b) - f
      /\ \A k \in 1..(Len(b) - f) : s[k] = b[k + f]
  BY <1>0, <1>2
<1> HIDE DEF s
<1>4. ASSUME NEW e \in ToSet(s) PROVE \E j \in 1..Len(b) : f < j /\ e = b[j]
  <2>1. PICK k \in 1..Len(s) : e = s[k]
    BY <1>3, ToSetIs
  <2>2. k + f \in 1..Len(b) /\ f < k + f /\ e = b[k + f]
    BY <1>0, <1>2, <1>3, <2>1
  <2> QED BY <2>2
<1>5. Keys(b) => Keys(s)
  <2> SUFFICES ASSUME Keys(b), NEW i \in 1..Len(s), NEW j \in 1..Len(s), Same(s[i], s[j]) PROVE i = j
    BY DEF Keys
  <2>1. i + f \in 1..Len(b) /\ j + f \in 1..Len(b) /\ s[i] = b[i + f] /\ s[j] = b[j + f]
    BY <1>0, <1>2, <1>3
  <2>2. i + f = j + f
    BY <2>1 DEF Keys
  <2> QED BY <1>2, <2>2
<1>6. f = Len(b) => s = <<>>
  <2>1. f = Len(b) => Len(s) = 0
    BY <1>0, <1>2, <1>3
  <2> QED BY <1>3, <2>1
<1> QED BY <1>1, <1>3, <1>4, <1>5, <1>6 DEF f

\* Of that, what does not wait is logged.
LEMMA LoggedIs ==
    ASSUME NEW b \in Seq(Entries), Keys(b)
    PROVE  /\ Logged(b) \in Seq(Lines) /\ IsInjective(Logged(b))
           /\ ToSet(Logged(b)) = {Record(e) : e \in {e \in ToSet(b) : ~e.pending}}
<1> DEFINE S == {e \in ToSet(b) : ~e.pending}
           t == Those(b, S)
<1>0. /\ \A e \in ToSet(b) : \E i \in 1..Len(b) : e = b[i]
      /\ \A i \in 1..Len(b) : b[i] \in ToSet(b)
      /\ DOMAIN b = 1..Len(b)
  BY ToSetIs
<1>1. IsInjective(b)
  BY <1>0 DEF IsInjective, Keys, Same
<1>2. t \in Seq(Entries) /\ ToSet(t) = ToSet(b) \cap S /\ IsInjective(t)
  <2> HIDE DEF S
  <2> QED BY <1>1, ThoseIs
<1>3. Logged(b) = Records(t)
  BY DEF Logged
<1>4. ToSet(t) = S
  BY <1>2
<1>40. \A e \in S : e \in ToSet(b)
  OBVIOUS
<1> HIDE DEF t, S
<1>5. Keys(t)
  <2> SUFFICES ASSUME NEW i \in 1..Len(t), NEW j \in 1..Len(t), Same(t[i], t[j]) PROVE i = j
    BY DEF Keys
  <2>1. t[i] \in ToSet(t) /\ t[j] \in ToSet(t) /\ DOMAIN t = 1..Len(t)
    BY <1>2, ToSetIs
  <2>2. PICK x \in 1..Len(b) : t[i] = b[x]
    BY <1>0, <1>4, <1>40, <2>1
  <2>3. PICK y \in 1..Len(b) : t[j] = b[y]
    BY <1>0, <1>4, <1>40, <2>1
  <2>4. x = y
    BY <2>2, <2>3 DEF Keys
  <2> QED BY <1>2, <2>1, <2>2, <2>3, <2>4 DEF IsInjective
<1>6. Records(t) \in Seq(Lines) /\ IsInjective(Records(t)) /\ ToSet(Records(t)) = {Record(e) : e \in ToSet(t)}
  BY <1>2, <1>5, RecordsIs
<1> QED BY <1>3, <1>4, <1>6 DEF S

\* A page brings nothing twice.
LEMMA PageOnce ==
    ASSUME NEW p \in Nat \ {0}
    PROVE  /\ PageBefore(p) \in Seq(Nat) /\ IsInjective(PageBefore(p))
           /\ ToSet(PageBefore(p)) \subseteq 1..(p - 1)
<1> DEFINE first == IF p > Page THEN p - Page ELSE 1
           s == PageBefore(p)
<1>0. first \in Nat /\ first > 0 /\ p - first \in Nat
  BY BufferAssumption
<1>1. /\ Len(s) = p - first /\ \A i \in 1..Len(s) : s[i] = first + i - 1 /\ s[i] \in 1..(p - 1)
  BY PageIs
<1>2. s = [i \in 1..(p - first) |-> first + i - 1]
  BY DEF PageBefore
<1> HIDE DEF first
<1>3. s \in Seq(Nat)
  <2>1. [i \in 1..(p - first) |-> first + i - 1] \in [1..(p - first) -> Nat]
    BY <1>0
  <2> QED BY <1>0, <1>2, <2>1, SequenceIs
<1> HIDE DEF s
<1>4. /\ \A e \in ToSet(s) : \E i \in 1..Len(s) : e = s[i]
      /\ DOMAIN s = 1..Len(s)
  BY <1>3, ToSetIs
<1>5. IsInjective(s)
  <2> SUFFICES ASSUME NEW i \in 1..Len(s), NEW j \in 1..Len(s), s[i] = s[j] PROVE i = j
    BY <1>4 DEF IsInjective
  <2> QED BY <1>0, <1>1
<1>6. ToSet(s) \subseteq 1..(p - 1)
  BY <1>1, <1>4
<1> QED BY <1>3, <1>5, <1>6 DEF s

----------------------------------------------------------------------------
(* What is read, and what is left of it.                                   *)

\* A line of the log, read up to r, or one that waits.
ReadEntry(e, l, r) ==
    IF e.pending THEN e.text \in Texts /\ \E q \in 0..Len(l) : e.at = 2 * q + 1
    ELSE \E q \in 1..r : e.at = 2 * q /\ e.text = l[q]

\* A buffer of entries that were there, and m, which may be.
LEMMA ReadsFrom ==
    ASSUME NEW b, NEW c, NEW l, NEW r \in Nat, NEW r2 \in Nat, r <= r2, Shows(b, l, r), NEW m,
           ReadEntry(m, l, r2),
           \A i \in 1..Len(c) : c[i] = m \/ \E k \in 1..Len(b) : c[i] = b[k]
    PROVE  Shows(c, l, r2)
<1>1. \A q \in 1..r : q \in 1..r2
  OBVIOUS
<1>2. \A k \in 1..Len(b) :
         IF b[k].pending THEN b[k].text \in Texts /\ \E q \in 0..Len(l) : b[k].at = 2 * q + 1
         ELSE \E q \in 1..r2 : b[k].at = 2 * q /\ b[k].text = l[q]
  BY <1>1 DEF Shows
<1> SUFFICES ASSUME NEW i \in 1..Len(c)
             PROVE  IF c[i].pending THEN c[i].text \in Texts /\ \E q \in 0..Len(l) : c[i].at = 2 * q + 1
                    ELSE \E q \in 1..r2 : c[i].at = 2 * q /\ c[i].text = l[q]
  BY DEF Shows
<1>3. CASE c[i] = m
  BY <1>3 DEF ReadEntry
<1>4. CASE \E k \in 1..Len(b) : c[i] = b[k]
  <2>1. PICK k \in 1..Len(b) : c[i] = b[k]
    BY <1>4
  <2> QED BY <1>2, <2>1
<1> QED BY <1>3, <1>4

\* A trim leaves entries there were.
LEMMA TrimmedFrom ==
    ASSUME NEW s \in Seq(Entries)
    PROVE  /\ Trimmed(s) \in Seq(Entries) /\ Len(Trimmed(s)) <= Limit
           /\ \A i \in 1..Len(Trimmed(s)) : \E k \in 1..Len(s) : Trimmed(s)[i] = s[k]
<1>1. Trimmed(s) \in Seq(Entries) /\ Len(Trimmed(s)) <= Limit /\ \E d \in 0..Len(s) : EndOf(Trimmed(s), s, d)
  BY TrimmedIs
<1>2. PICK d \in 0..Len(s) : EndOf(Trimmed(s), s, d)
  BY <1>1
<1>3. \A i \in 1..Len(Trimmed(s)) : i + d \in 1..Len(s) /\ Trimmed(s)[i] = s[i + d]
  BY <1>1, <1>2 DEF EndOf
<1> QED BY <1>1, <1>3

\* m is put in the place of one, or taken in.
LEMMA PutReads ==
    ASSUME NEW b \in Seq(Entries), Len(b) <= Limit, NEW l, NEW r \in Nat, NEW r2 \in Nat, r <= r2, Shows(b, l, r),
           NEW m, NEW i, NEW c, Put(b, i, m, c),
           ReadEntry(m, l, r2)
    PROVE  c \in Seq(Entries) /\ Len(c) <= Limit /\ Shows(c, l, r2)
<1>1. c \in Seq(Entries) /\ Len(c) = Len(b) /\ c[i] = m /\ \A k \in 1..Len(b) : k # i => c[k] = b[k]
  BY DEF Put
<1>2. \A k \in 1..Len(c) : c[k] = m \/ \E j \in 1..Len(b) : c[k] = b[j]
  BY <1>1
<1>3. Shows(c, l, r2)
  BY <1>2, ReadsFrom
<1> QED BY <1>1, <1>3

\* One that is taken in.
LEMMA TakenReads ==
    ASSUME NEW b \in Seq(Entries), NEW l, NEW r \in Nat, NEW r2 \in Nat, r <= r2, Shows(b, l, r),
           NEW m \in Entries, NEW p, NEW s \in Seq(Entries), TakenAt(b, p, m, s), NEW c, c = Trimmed(s),
           ReadEntry(m, l, r2)
    PROVE  c \in Seq(Entries) /\ Len(c) <= Limit /\ Shows(c, l, r2)
<1>0. /\ s[p + 1] = m
      /\ \A i \in 1..Len(s) :
            \/ i = p + 1
            \/ i < p + 1 /\ i \in 1..Len(b) /\ s[i] = b[i]
            \/ p + 1 < i /\ i - 1 \in 1..Len(b) /\ s[i] = b[i - 1]
  BY TakenFrom
<1>1. \A k \in 1..Len(s) : s[k] = m \/ \E j \in 1..Len(b) : s[k] = b[j]
  BY <1>0
<1>2. c \in Seq(Entries) /\ Len(c) <= Limit /\ \A k \in 1..Len(c) : \E j \in 1..Len(s) : c[k] = s[j]
  <2>1. /\ Trimmed(s) \in Seq(Entries) /\ Len(Trimmed(s)) <= Limit
        /\ \A i \in 1..Len(Trimmed(s)) : \E k \in 1..Len(s) : Trimmed(s)[i] = s[k]
    BY TrimmedFrom
  <2> QED BY <2>1
<1>3. \A k \in 1..Len(c) : c[k] = m \/ \E j \in 1..Len(b) : c[k] = b[j]
  BY <1>1, <1>2
<1>4. Shows(c, l, r2)
  BY <1>3, ReadsFrom
<1> QED BY <1>2, <1>4

\* A line is read.
LEMMA ReadReads ==
    ASSUME NEW b \in Seq(Entries), Len(b) <= Limit, NEW l, NEW r \in Nat, NEW r2 \in Nat, r <= r2, Shows(b, l, r),
           NEW m \in Entries, ~m.pending, NEW q \in 1..r2, m.at = 2 * q, m.text = l[q],
           NEW c, c = IF m.text \in Texts THEN Reconcile(b, m) ELSE Insert(b, m)
    PROVE  c \in Seq(Entries) /\ Len(c) <= Limit /\ Shows(c, l, r2)
<1>0. \/ c = b /\ \E i \in 1..Len(b) : b[i] = m
      \/ \E i \in 1..Len(b) : Put(b, i, m, c)
      \/ \E p \in 0..Len(b), s \in Seq(Entries) : TakenAt(b, p, m, s) /\ c = Trimmed(s)
  <2>1. q \in Nat
    OBVIOUS
  <2> QED BY <2>1, ReadChanges
<1>1. ReadEntry(m, l, r2)
  BY DEF ReadEntry
<1>2. CASE c = b
  <2>1. \A i \in 1..Len(b) : b[i] = m \/ \E k \in 1..Len(b) : b[i] = b[k]
    OBVIOUS
  <2>2. Shows(b, l, r2)
    BY <1>1, <2>1, ReadsFrom
  <2> QED BY <1>2, <2>2
<1>3. CASE \E i \in 1..Len(b) : Put(b, i, m, c)
  BY <1>1, <1>3, PutReads
<1>4. CASE \E p \in 0..Len(b), s \in Seq(Entries) : TakenAt(b, p, m, s) /\ c = Trimmed(s)
  BY <1>1, <1>4, TakenReads
<1> QED BY <1>0, <1>2, <1>3, <1>4

\* A line of ours is shown ahead.
LEMMA SayReads ==
    ASSUME NEW b \in Seq(Entries), NEW l, Len(l) \in Nat, NEW r \in Nat, Shows(b, l, r),
           NEW m \in Entries, m.pending, m.text \in Texts, m.at = 2 * Len(l) + 1,
           NEW s \in Seq(Entries), TakenAt(b, Len(b), m, s), NEW c, c = Trimmed(s)
    PROVE  c \in Seq(Entries) /\ Len(c) <= Limit /\ Shows(c, l, r)
<1>4. \E q \in 0..Len(l) : m.at = 2 * q + 1
  <2>1. Len(l) \in 0..Len(l)
    OBVIOUS
  <2> QED BY <2>1
<1>5. ReadEntry(m, l, r)
  BY <1>4 DEF ReadEntry
<1>6. r <= r
  OBVIOUS
<1> QED BY <1>5, <1>6, TakenReads

\* The log grows.
LEMMA LogReads ==
    ASSUME NEW b, NEW T, NEW l \in Seq(T), NEW v, NEW r \in 0..Len(l), Shows(b, l, r)
    PROVE  Shows(b, Append(l, v), r)
<1>1. /\ Len(Append(l, v)) = Len(l) + 1 /\ Len(l) \in Nat
      /\ \A i \in 1..Len(l) : Append(l, v)[i] = l[i]
  OBVIOUS
<1>2. \A q \in 1..r : q \in 1..Len(l) /\ Append(l, v)[q] = l[q]
  BY <1>1
<1>3. \A q \in 0..Len(l) : q \in 0..Len(Append(l, v))
  BY <1>1
<1> QED BY <1>2, <1>3 DEF Shows

\* No entry is newer than what the server may have logged.
LEMMA ReadsUpTo ==
    ASSUME NEW b, NEW l, Len(l) \in Nat, NEW r \in 0..Len(l), Shows(b, l, r)
    PROVE  /\ \A k \in 1..Len(b) : b[k].at <= 2 * Len(l) + 1
           /\ \A k \in 1..Len(b) : b[k].at % 2 = 0 =>
                 ~b[k].pending /\ \E q \in 1..r : b[k].at = 2 * q /\ b[k].text = l[q]
           /\ \A k \in 1..Len(b) : b[k].at > 0
<1> SUFFICES ASSUME NEW k \in 1..Len(b)
             PROVE  /\ b[k].at <= 2 * Len(l) + 1 /\ b[k].at > 0
                    /\ b[k].at % 2 = 0 =>
                         ~b[k].pending /\ \E q \in 1..r : b[k].at = 2 * q /\ b[k].text = l[q]
  OBVIOUS
<1>1. CASE b[k].pending
  <2>1. PICK q \in 0..Len(l) : b[k].at = 2 * q + 1
    BY <1>1 DEF Shows
  <2>2. q \in Nat /\ q <= Len(l)
    OBVIOUS
  <2>3. (2 * q + 1) % 2 = 1
    BY <2>2
  <2> QED BY <2>1, <2>2, <2>3
<1>2. CASE ~b[k].pending
  <2>1. PICK q \in 1..r : b[k].at = 2 * q /\ b[k].text = l[q]
    BY <1>2 DEF Shows
  <2>2. q \in Nat /\ q <= Len(l) /\ q > 0
    OBVIOUS
  <2> QED BY <1>2, <2>1, <2>2
<1> QED BY <1>1, <1>2

\* It stays so when less has been seen.
LEMMA CursorLess ==
    ASSUME NEW b, NEW l, NEW r, NEW w, NEW Z, NEW Z2 \in SUBSET Z, NEW pg, NEW n,
           Cursor(b, l, r, w, Z, pg, n)
    PROVE  Cursor(b, l, r, w, Z2, pg, n)
<1>1. \A z : z \in Z2 => z \in Z
  OBVIOUS
<1>2. Near(b, l, w, n) /\ Behind(b, w, Z2)
  BY <1>1 DEF Cursor, Behind
<1>3. SeenUpTo(b, l, r, w, Z2, pg)
  BY <1>1 DEF Cursor, SeenUpTo
<1>4. Unheard(b, l, r, Z2)
  BY <1>1 DEF Cursor, Unheard
<1> QED BY <1>2, <1>3, <1>4 DEF Cursor

\* An empty buffer is in order.
LEMMA NoneOrdered ==
    ASSUME NEW l, NEW pg, NEW os
    PROVE  Ordered(<<>>, l, pg, os)
<1>1. \A i : i \notin 1..Len(<<>>)
  OBVIOUS
<1> QED BY <1>1 DEF Ordered, Keys, Alone, Rising, Dips, Splits, InTurn

\* A page of what has not been read.
LEMMA MissedOrdered ==
    ASSUME NEW b \in Seq(Entries), NEW l, Len(l) \in Nat, NEW r \in 0..Len(l), Shows(b, l, r),
           NEW os, Ordered(b, l, {}, os), NEW pg \in SUBSET ((r + 1)..Len(l))
    PROVE  Ordered(b, l, pg, os)
<1>1. ASSUME NEW j \in 1..Len(b), ~b[j].pending, NEW q \in pg PROVE b[j].at # 2 * q
  <2>1. PICK p \in 1..r : b[j].at = 2 * p
    BY <1>1 DEF Shows
  <2>2. p \in Nat /\ q \in Nat /\ p < q
    OBVIOUS
  <2> QED BY <2>1, <2>2
<1>2. Dips(b, l, pg)
  BY <1>1 DEF Ordered, Dips
<1> QED BY <1>2 DEF Ordered

----------------------------------------------------------------------------
(* The invariant of Logging.                                               *)

\* What the cursor has passed over, kept or not.
Seen == unwanted \cup ToSet(file) \cup ToSet(writing) \cup ToSet(pending)

\* What has been taken down and will stay so.
Standing == ToSet(IF purging = <<>> THEN file ELSE purging) \cup ToSet(writing) \cup ToSet(pending)

\* The log, and what is on its way from it and to it.
TalkInv ==
    /\ log \in Seq({Other} \cup Texts) /\ buffer \in Seq(Entries) /\ Len(buffer) <= Limit
    /\ read \in 0..Len(log)
    /\ page \in Seq(Nat) /\ IsInjective(page) /\ ToSet(page) \subseteq 1..read
    /\ outgoing \in Seq(Texts) /\ Len(outgoing) <= 1
    /\ \A i \in 1..Len(log) : log[i] \notin ToSet(outgoing)
    /\ \A p, q \in 1..Len(log) : log[p] \in Texts /\ log[p] = log[q] => p = q
    /\ Shows(buffer, log, read)
    /\ Ordered(buffer, log, ToSet(page), ToSet(outgoing))

\* What has been seen was read.
SeenInv == \A z \in Seen : z.at % 2 = 0 => z.at <= 2 * read

\* The log was left off behind what has been seen.
CursorInv ==
    ~lost => IF written = Nothing THEN Seen = {}
             ELSE Cursor(buffer, log, read, written, Seen, ToSet(page), stale)

\* A purge leaves what there was, and is done at once in a database.
PurgeInv ==
    /\ failures \in Nat
    /\ ToSet(purging) \subseteq ToSet(file)
    /\ store = "sqlite" => purging = <<>>
    /\ broken => store = "sqlite"

\* Nothing is there twice, on disk or on its way there.
OnceInv ==
    \/ store = "plaintext" /\ (failures > 0 \/ lost)
    \/ /\ IsInjective(file) /\ IsInjective(purging)
       /\ store = "plaintext" => /\ IsInjective(writing) /\ IsInjective(pending)
                                 /\ ToSet(file) \cap ToSet(writing) = {}
                                 /\ ToSet(file) \cap ToSet(pending) = {}
                                 /\ ToSet(writing) \cap ToSet(pending) = {}

\* What is not wanted is not there.
OutInv == ~lost => unwanted \cap Standing = {}

\* All of it, which is inductive.
LoggingInv ==
    TypeOK /\ TalkInv /\ SeenInv /\ CursorInv /\ PurgeInv /\ OnceInv /\ OutInv

\* The types, one by one.
LEMMA TypeIs ==
    ASSUME TypeOK
    PROVE  /\ stale \in 0..Burst /\ stale \in Nat /\ mishaps \in 0..Mishaps
           /\ written \in Lines /\ written.at \in Nat /\ Nothing \in Lines
           /\ pending \in Seq(Lines) /\ writing \in Seq(Lines) /\ file \in Seq(Lines) /\ purging \in Seq(Lines)
           /\ due \subseteq Lines /\ unwanted \subseteq Lines
           /\ lost \in BOOLEAN /\ broken \in BOOLEAN /\ store \in Stores
           /\ store \in {"sqlite", "plaintext"}
           /\ Burst \in Nat /\ Burst < Limit /\ Mishaps \in Nat /\ Limit \in Nat
<1>1. Burst \in Nat /\ Burst < Limit /\ Mishaps \in Nat /\ Limit \in Nat
  BY LoggingAssumption, BufferAssumption
<1>2. /\ stale \in 0..Burst /\ mishaps \in 0..Mishaps
      /\ written \in Lines
      /\ pending \in Seq(Lines) /\ writing \in Seq(Lines) /\ file \in Seq(Lines) /\ purging \in Seq(Lines)
      /\ due \subseteq Lines /\ unwanted \subseteq Lines
      /\ lost \in BOOLEAN /\ broken \in BOOLEAN /\ store \in Stores
  BY DEF TypeOK
<1>3. store \in {"sqlite", "plaintext"}
  BY <1>2, LoggingAssumption
<1>4. written.at \in Nat
  BY <1>2 DEF Lines
<1>5. Nothing \in Lines
  BY DEF Nothing, Lines
<1>6. stale \in Nat
  BY <1>1, <1>2
<1> QED BY <1>1, <1>2, <1>3, <1>4, <1>5, <1>6

\* The conversation goes on, and nothing is written.
LEMMA TypeKeeps ==
    ASSUME TypeOK, TalkInv', UNCHANGED <<interface, store, progress, disk, unwanted>>,
           enabled' \in BOOLEAN, lost' \in BOOLEAN, stale' \in 0..Burst, mishaps' \in 0..Mishaps, due' \subseteq Lines
    PROVE  TypeOK'
<1>1. buffer' \in Seq(Entries) /\ Len(buffer') <= Limit
  BY DEF TalkInv
<1>2. buffer' \in Seq([at : Nat, text : {Other} \cup Texts, pending : BOOLEAN])
  BY <1>1 DEF Entries
<1>3. /\ interface \in {"open", "closed", "closed late"} /\ store \in Stores
      /\ {broken, flushing} \subseteq BOOLEAN
      /\ written \in Lines /\ cutoff \in Nat
      /\ {pending, writing, file, purging} \subseteq Seq(Lines)
      /\ unwanted \in SUBSET Lines
      /\ flushing = (writing # <<>>)
  BY DEF TypeOK
<1>4. UNCHANGED <<interface, store, written, pending, flushing, writing, broken, failures, file, purging, cutoff, unwanted>>
  BY DEF progress, disk
<1> QED BY <1>1, <1>2, <1>3, <1>4 DEF TypeOK

\* What is not written and not collected changes nothing of the log.
LEMMA StoreKeeps ==
    ASSUME PurgeInv, OnceInv, OutInv,
           UNCHANGED <<store, progress, disk, unwanted>>, lost => lost'
    PROVE  PurgeInv' /\ OnceInv' /\ OutInv' /\ Seen' = Seen
<1>1. UNCHANGED <<store, pending, writing, broken, failures, file, purging, unwanted, written>>
  BY DEF progress, disk
<1>2. PurgeInv'
  BY <1>1 DEF PurgeInv
<1>3. OnceInv'
  BY <1>1 DEF OnceInv
<1>4. Standing' = Standing
  BY <1>1 DEF Standing
<1>5. OutInv'
  BY <1>1, <1>4 DEF OutInv
<1> QED BY <1>1, <1>2, <1>3, <1>5 DEF Seen

\* What has been seen are lines.
LEMMA SeenTyped ==
    ASSUME TypeOK
    PROVE  Seen \subseteq Lines /\ \A z \in Seen : z.at \in Nat
<1>1. \A s \in Seq(Lines) : \A z \in ToSet(s) : z \in Lines
  <2> SUFFICES ASSUME NEW s \in Seq(Lines), NEW z \in ToSet(s) PROVE z \in Lines
    OBVIOUS
  <2>1. PICK i \in 1..Len(s) : z = s[i]
    BY ToSetIs
  <2> QED BY <2>1
<1>2. Seen \subseteq Lines
  BY <1>1, TypeIs DEF Seen
<1> QED BY <1>2 DEF Lines

\* The entry for a line of the log.
LEMMA EntryIs ==
    ASSUME log \in Seq({Other} \cup Texts), NEW q \in 1..Len(log)
    PROVE  /\ Entry(q) \in Entries /\ ~Entry(q).pending
           /\ Entry(q).at = 2 * q /\ Entry(q).text = log[q]
           /\ Logs(Entry(q), log, q)
<1>1. log[q] \in {Other} \cup Texts /\ 2 * q \in Nat
  OBVIOUS
<1>2. Entry(q) = [at |-> 2 * q, text |-> log[q], pending |-> FALSE]
  BY DEF Entry
<1>3. Entry(q) \in Entries
  BY <1>1, <1>2 DEF Entries
<1> QED BY <1>2, <1>3 DEF Logs

\* The line at q is read, live or of a page.
LEMMA TakesKeeps ==
    ASSUME LoggingInv, NEW q \in 1..Len(log), Takes(q), Renders,
           UNCHANGED <<log, outgoing, progress, disk, unwanted, lost>>,
           read' \in read..Len(log), q \in 1..read',
           page' \in Seq(Nat), IsInjective(page'), ToSet(page') \subseteq ToSet(page), q \notin ToSet(page'),
           \A p \in 1..read' : p \in 1..read \/ p = q,
           q \in 1..read => q \in ToSet(page)
    PROVE  TalkInv' /\ SeenInv' /\ CursorInv'
<1> DEFINE m == Entry(q)
           pg == ToSet(page)
           pg2 == ToSet(page')
           os == ToSet(outgoing)
<1>0. TypeOK /\ TalkInv /\ SeenInv /\ CursorInv
  BY DEF LoggingInv
<1>1. /\ log \in Seq({Other} \cup Texts) /\ buffer \in Seq(Entries) /\ Len(buffer) <= Limit
      /\ read \in 0..Len(log) /\ Len(log) \in Nat
      /\ pg \subseteq 1..read
      /\ Shows(buffer, log, read)
      /\ Ordered(buffer, log, pg, os)
  BY <1>0 DEF TalkInv
<1>2. m \in Entries /\ ~m.pending /\ m.at = 2 * q /\ m.text = log[q] /\ Logs(m, log, q)
  BY <1>1, EntryIs
<1>3. buffer' = IF m.text \in Texts THEN Reconcile(buffer, m) ELSE Insert(buffer, m)
  BY <1>2 DEF Takes
<1> HIDE DEF m
<1>4. pg \in SUBSET Nat /\ pg2 \in SUBSET pg /\ q \notin pg2 /\ pg2 \subseteq 1..read'
  <2>1. read' \in Nat /\ read \in Nat /\ read <= read'
    BY <1>1
  <2>2. \A x \in 1..read : x \in Nat /\ x \in 1..read'
    BY <2>1
  <2> QED BY <1>1, <2>2
<1> HIDE DEF pg, pg2, os
<1>5. buffer' \in Seq(Entries) /\ Ordered(buffer', log, pg2, os)
  BY <1>1, <1>2, <1>3, <1>4, ReadOrdered
<1>6. Len(buffer') <= Limit /\ Shows(buffer', log, read')
  <2>1. read \in Nat /\ read' \in Nat /\ read <= read'
    BY <1>1
  <2> QED BY <1>1, <1>2, <1>3, <2>1, ReadReads
<1>7. TalkInv'
  <2>1. log' = log /\ outgoing' = outgoing
    OBVIOUS
  <2>2. /\ outgoing \in Seq(Texts) /\ Len(outgoing) <= 1
        /\ \A i \in 1..Len(log) : log[i] \notin ToSet(outgoing)
        /\ \A i, j \in 1..Len(log) : log[i] \in Texts /\ log[i] = log[j] => i = j
    BY <1>0 DEF TalkInv
  <2>3. read' \in 0..Len(log) /\ page' \in Seq(Nat) /\ IsInjective(page') /\ ToSet(page') \subseteq 1..read'
    BY <1>1, <1>4 DEF pg2
  <2>4. Ordered(buffer', log, ToSet(page'), ToSet(outgoing))
    BY <1>5 DEF pg2, os
  <2> QED BY <1>1, <1>5, <1>6, <2>1, <2>2, <2>3, <2>4 DEF TalkInv
<1>8. Seen' = Seen
  BY DEF Seen, progress, disk
<1>9. SeenInv'
  <2> SUFFICES ASSUME NEW z \in Seen, z.at % 2 = 0 PROVE z.at <= 2 * read'
    BY <1>8 DEF SeenInv
  <2>1. z.at <= 2 * read
    BY <1>0 DEF SeenInv
  <2>2. z.at \in Nat
    BY <1>0, SeenTyped
  <2> QED BY <1>1, <2>1, <2>2
<1>10. CursorInv'
  <2> SUFFICES ASSUME ~lost
               PROVE  IF written = Nothing THEN Seen = {}
                      ELSE Cursor(buffer', log, read', written, Seen, pg2, stale')
    BY <1>8 DEF CursorInv, progress, pg2
  <2>1. CASE written = Nothing
    BY <1>0, <2>1 DEF CursorInv
  <2>2. CASE written # Nothing
    <3>1. Cursor(buffer, log, read, written, Seen, pg, stale)
      BY <1>0, <2>2 DEF CursorInv, pg
    <3>2. stale' = stale + 1 /\ stale + 1 < Limit /\ stale \in Nat /\ written.at \in Nat
      <4>1. stale \in Nat /\ written.at \in Nat /\ Burst \in Nat /\ Burst < Limit /\ Limit \in Nat
        BY <1>0, TypeIs
      <4> QED BY <4>1 DEF Renders
    <3>3. Next_(log, read, pg, Seen, q, read')
      <4>1. Line(log, q) \in Seen => q \in 1..read
        <5> SUFFICES ASSUME Line(log, q) \in Seen PROVE q \in 1..read
          OBVIOUS
        <5>1. Line(log, q).at = 2 * q
          BY DEF Line
        <5>2. 2 * q <= 2 * read
          BY <1>0, <5>1 DEF SeenInv
        <5> QED BY <1>1, <5>2
      <4>2. q \in 1..read => q \in pg
        BY DEF pg
      <4>3. read \in Nat /\ read' \in Nat
        BY <1>1
      <4>4. \A p \in 1..read' : p \in 1..read \/ (p = q /\ Line(log, q) \notin Seen)
        BY <4>1
      <4> QED BY <4>1, <4>2, <4>3, <4>4 DEF Next_
    <3>4. InTurn(buffer, log, {})
      <4>1. {} \in SUBSET os /\ InTurn(buffer, log, os)
        BY <1>1 DEF Ordered
      <4> QED BY <4>1, InTurnOf
    <3>5. Cursor(buffer', log, read', written, Seen, pg2, stale + 1)
      BY <1>1, <1>2, <1>3, <1>4, <3>1, <3>2, <3>3, <3>4, ReadCursor
    <3> QED BY <2>2, <3>2, <3>5
  <2> QED BY <2>1, <2>2
<1> QED BY <1>7, <1>9, <1>10

----------------------------------------------------------------------------
(* The conversation goes on.                                               *)

\* What a conversation that goes on leaves alone.
LEMMA AsideKeeps ==
    ASSUME LoggingInv, UNCHANGED <<interface, store, progress, disk, unwanted>>,
           enabled' \in BOOLEAN, lost' \in BOOLEAN, lost => lost',
           stale' \in 0..Burst, mishaps' \in 0..Mishaps, due' \subseteq Lines,
           TalkInv', SeenInv', CursorInv'
    PROVE  LoggingInv'
<1>1. TypeOK /\ PurgeInv /\ OnceInv /\ OutInv
  BY DEF LoggingInv
<1>2. TypeOK'
  BY <1>1, TypeKeeps
<1>3. PurgeInv' /\ OnceInv' /\ OutInv'
  <2>1. UNCHANGED <<store, progress, disk, unwanted>>
    OBVIOUS
  <2> QED BY <1>1, <2>1, StoreKeeps
<1> QED BY <1>2, <1>3 DEF LoggingInv

\* The bounds are kept.
LEMMA BoundsAre ==
    ASSUME TypeOK
    PROVE  /\ Renders => stale' \in 0..Burst
           /\ Mishap => mishaps' \in 0..Mishaps
           /\ enabled \in BOOLEAN
<1>1. stale \in 0..Burst /\ mishaps \in 0..Mishaps /\ Burst \in Nat /\ Mishaps \in Nat
  BY TypeIs
<1>2. enabled \in BOOLEAN
  BY DEF TypeOK
<1> QED BY <1>1, <1>2 DEF Renders, Mishap

\* A line is read,
LEMMA ReadsLiveKeeps ==
    ASSUME LoggingInv, ReadsLive
    PROVE  LoggingInv'
<1>0. TypeOK /\ TalkInv
  BY DEF LoggingInv
<1>1. /\ read < Len(log) /\ read' = read + 1 /\ Takes(read + 1) /\ Renders
      /\ due' = IF enabled /\ written # Nothing THEN due \cup {Record(Entry(read + 1))} ELSE due
      /\ UNCHANGED <<log, connected, page, outgoing, sent, mishaps>>
      /\ UNCHANGED <<interface, store, enabled, progress, disk, unwanted, lost>>
  BY DEF ReadsLive, Aside
<1>2. /\ log \in Seq({Other} \cup Texts) /\ read \in 0..Len(log) /\ Len(log) \in Nat
      /\ page \in Seq(Nat) /\ IsInjective(page) /\ ToSet(page) \subseteq 1..read
  BY <1>0 DEF TalkInv
<1>3. /\ read + 1 \in 1..Len(log) /\ read' \in read..Len(log) /\ read + 1 \in 1..read'
      /\ \A p \in 1..read' : p \in 1..read \/ p = read + 1
      /\ read + 1 \notin 1..read
  BY <1>1, <1>2
<1>4. TalkInv' /\ SeenInv' /\ CursorInv'
  <2> DEFINE q == read + 1
  <2>1. /\ q \in 1..Len(log) /\ Takes(q) /\ Renders
        /\ UNCHANGED <<log, outgoing, progress, disk, unwanted, lost>>
        /\ read' \in read..Len(log) /\ q \in 1..read'
        /\ page' \in Seq(Nat) /\ IsInjective(page') /\ ToSet(page') \subseteq ToSet(page) /\ q \notin ToSet(page')
        /\ \A p \in 1..read' : p \in 1..read \/ p = q
        /\ (q \in 1..read => q \in ToSet(page))
    BY <1>1, <1>2, <1>3
  <2> HIDE DEF q
  <2> QED BY <2>1, TakesKeeps
<1>5. due' \subseteq Lines
  <2>1. Entry(read + 1) \in Entries
    BY <1>2, <1>3, EntryIs
  <2>2. Record(Entry(read + 1)) \in Lines
    BY <2>1, RecordIs
  <2> QED BY <1>0, <1>1, <2>2, TypeIs
<1>6. stale' \in 0..Burst /\ mishaps' \in 0..Mishaps /\ enabled' \in BOOLEAN /\ lost' \in BOOLEAN
  BY <1>0, <1>1, BoundsAre, TypeIs
<1> QED BY <1>1, <1>4, <1>5, <1>6, AsideKeeps

\* one of a page.
LEMMA ReadsPageKeeps ==
    ASSUME LoggingInv, ReadsPage
    PROVE  LoggingInv'
<1>0. TypeOK /\ TalkInv
  BY DEF LoggingInv
<1>1. /\ page # <<>> /\ page' = Tail(page) /\ Takes(Head(page)) /\ Renders
      /\ UNCHANGED <<log, connected, read, outgoing, sent, due, mishaps>>
      /\ UNCHANGED <<interface, store, enabled, progress, disk, unwanted, lost>>
  BY DEF ReadsPage, Aside
<1>2. /\ log \in Seq({Other} \cup Texts) /\ read \in 0..Len(log) /\ Len(log) \in Nat
      /\ page \in Seq(Nat) /\ IsInjective(page) /\ ToSet(page) \subseteq 1..read
  BY <1>0 DEF TalkInv
<1> DEFINE q == Head(page)
<1>3. /\ Tail(page) \in Seq(Nat) /\ q = page[1] /\ Len(page) \in Nat /\ Len(page) > 0
      /\ \A i \in 1..Len(Tail(page)) : Tail(page)[i] = page[i + 1] /\ i + 1 \in 1..Len(page)
  BY <1>1, <1>2, TailIs
<1>4. /\ \A e \in ToSet(Tail(page)) : \E i \in 1..Len(Tail(page)) : e = Tail(page)[i]
      /\ DOMAIN Tail(page) = 1..Len(Tail(page)) /\ Len(Tail(page)) \in Nat
      /\ \A i \in 1..Len(page) : page[i] \in ToSet(page)
      /\ DOMAIN page = 1..Len(page)
  BY <1>2, <1>3, ToSetIs
<1>5. \A i, j \in 1..Len(page) : page[i] = page[j] => i = j
  BY <1>2, <1>4 DEF IsInjective
<1> DEFINE t == Tail(page)
<1>6. t \in Seq(Nat) /\ IsInjective(t) /\ ToSet(t) \subseteq ToSet(page) /\ q \notin ToSet(t)
  <2> HIDE DEF q, t
  <2>1. \A i \in 1..Len(t) : t[i] = page[i + 1] /\ i + 1 \in 1..Len(page)
    BY <1>3 DEF t
  <2>2. DOMAIN t = 1..Len(t) /\ Len(t) \in Nat /\ \A e \in ToSet(t) : \E i \in 1..Len(t) : e = t[i]
    BY <1>4 DEF t
  <2>3. IsInjective(t)
    <3> SUFFICES ASSUME NEW i \in 1..Len(t), NEW j \in 1..Len(t), t[i] = t[j] PROVE i = j
      BY <2>2 DEF IsInjective
    <3>1. i + 1 = j + 1
      BY <1>5, <2>1
    <3> QED BY <2>2, <3>1
  <2>4. ToSet(t) \subseteq ToSet(page)
    BY <1>4, <2>1, <2>2
  <2>5. q \notin ToSet(t)
    <3> SUFFICES ASSUME q \in ToSet(t) PROVE FALSE
      OBVIOUS
    <3>1. PICK i \in 1..Len(t) : q = t[i]
      BY <2>2
    <3>2. 1 \in 1..Len(page) /\ page[1] = page[i + 1] /\ i + 1 \in 1..Len(page)
      BY <1>3, <2>1, <3>1
    <3>3. i + 1 = 1
      BY <1>5, <3>2
    <3> QED BY <2>2, <3>3
  <2> QED BY <1>3, <2>3, <2>4, <2>5 DEF t
<1>7. q \in ToSet(page) /\ q \in 1..read /\ q \in 1..Len(log)
  <2>1. 1 \in 1..Len(page)
    BY <1>3
  <2> QED BY <1>2, <1>3, <1>4, <2>1
<1>8. TalkInv' /\ SeenInv' /\ CursorInv'
  <2>1. /\ q \in 1..Len(log) /\ Takes(q) /\ Renders
        /\ UNCHANGED <<log, outgoing, progress, disk, unwanted, lost>>
        /\ read' \in read..Len(log) /\ q \in 1..read'
        /\ page' \in Seq(Nat) /\ IsInjective(page') /\ ToSet(page') \subseteq ToSet(page) /\ q \notin ToSet(page')
        /\ \A p \in 1..read' : p \in 1..read \/ p = q
        /\ (q \in 1..read => q \in ToSet(page))
    BY <1>1, <1>2, <1>6, <1>7
  <2> HIDE DEF q
  <2> QED BY <2>1, TakesKeeps
<1>9. stale' \in 0..Burst /\ mishaps' \in 0..Mishaps /\ enabled' \in BOOLEAN /\ lost' \in BOOLEAN /\ due' \subseteq Lines
  BY <1>0, <1>1, BoundsAre, TypeIs
<1> QED BY <1>1, <1>8, <1>9, AsideKeeps

\* One element.
LEMMA SetOfOne ==
    ASSUME NEW T, NEW t \in T
    PROVE  <<t>> \in Seq(T) /\ Len(<<t>>) = 1 /\ ToSet(<<t>>) = {t}
<1>1. <<t>> \in Seq(T) /\ Len(<<t>>) = 1 /\ <<t>>[1] = t
  OBVIOUS
<1>2. /\ \A e \in ToSet(<<t>>) : \E i \in 1..Len(<<t>>) : e = <<t>>[i]
      /\ \A i \in 1..Len(<<t>>) : <<t>>[i] \in ToSet(<<t>>)
  BY <1>1, ToSetIs
<1>3. \A e \in ToSet(<<t>>) : e = t
  BY <1>1, <1>2
<1>4. t \in ToSet(<<t>>)
  BY <1>1, <1>2
<1>5. ToSet(<<t>>) = {t}
  BY <1>3, <1>4
<1> QED BY <1>1, <1>5

\* We say something: it is shown at once.
LEMMA SpeaksKeeps ==
    ASSUME LoggingInv, NEW t \in Texts, Speaks(t)
    PROVE  LoggingInv'
<1>0. TypeOK /\ TalkInv /\ CursorInv /\ SeenInv
  BY DEF LoggingInv
<1> DEFINE m == [at |-> 2 * Len(log) + 1, text |-> t, pending |-> TRUE]
           pg == ToSet(page)
<1>1. /\ outgoing = <<>> /\ Mishap /\ Renders
      /\ t \notin ToSet(log) \cup {e.text : e \in ToSet(buffer)}
      /\ outgoing' = <<t>> /\ buffer' = Insert(buffer, m)
      /\ UNCHANGED <<log, connected, read, page, due>>
      /\ UNCHANGED <<interface, store, enabled, progress, disk, unwanted, lost>>
  BY DEF Speaks, Aside
<1>2. /\ log \in Seq({Other} \cup Texts) /\ buffer \in Seq(Entries)
      /\ read \in 0..Len(log) /\ Len(log) \in Nat
      /\ Shows(buffer, log, read)
      /\ Ordered(buffer, log, ToSet(page), ToSet(outgoing))
  BY <1>0 DEF TalkInv
<1>3. ToSet(outgoing) = {} /\ Ordered(buffer, log, pg, {})
  BY <1>1, <1>2, SetOfNone
<1>4. m \in Entries /\ m.pending /\ m.at = 2 * Len(log) + 1 /\ m.text = t
  BY <1>2 DEF Entries
<1> HIDE DEF m, pg
<1>5. \A q \in 1..Len(log) : log[q] # t
  <2>1. \A q \in 1..Len(log) : log[q] \in ToSet(log)
    BY <1>2, ToSetIs
  <2> QED BY <1>1, <2>1
<1>6. \A k \in 1..Len(buffer) : buffer[k].text # t /\ buffer[k].at <= m.at
  <2>1. \A k \in 1..Len(buffer) : buffer[k] \in ToSet(buffer)
    BY <1>2, ToSetIs
  <2>2. \A k \in 1..Len(buffer) : buffer[k].at <= 2 * Len(log) + 1
    BY <1>2, ReadsUpTo
  <2> QED BY <1>1, <1>4, <2>1, <2>2
<1>60. /\ \A k \in 1..Len(buffer) : buffer[k].text # m.text /\ buffer[k].at <= m.at
       /\ \A q \in 1..Len(log) : log[q] # m.text
  BY <1>4, <1>5, <1>6
<1>7. /\ buffer' \in Seq(Entries) /\ Ordered(buffer', log, pg, {m.text})
      /\ \E s \in Seq(Entries) : TakenAt(buffer, Len(buffer), m, s) /\ buffer' = Trimmed(s)
  <2>1. /\ Insert(buffer, m) \in Seq(Entries) /\ Ordered(Insert(buffer, m), log, pg, {m.text})
        /\ \E s \in Seq(Entries) : TakenAt(buffer, Len(buffer), m, s) /\ Insert(buffer, m) = Trimmed(s)
    BY <1>2, <1>3, <1>4, <1>60, SayOrdered
  <2> QED BY <1>1, <2>1
<1>8. PICK s \in Seq(Entries) : TakenAt(buffer, Len(buffer), m, s) /\ buffer' = Trimmed(s)
  BY <1>7
<1>9. Len(buffer') <= Limit /\ Shows(buffer', log, read)
  <2>1. m.text \in Texts /\ read \in Nat
    BY <1>2, <1>4
  <2> QED BY <1>2, <1>4, <1>8, <2>1, SayReads
<1>10. TalkInv'
  <2>1. outgoing' \in Seq(Texts) /\ Len(outgoing') <= 1 /\ ToSet(outgoing') = {m.text}
    BY <1>1, <1>4, SetOfOne
  <2>2. \A i \in 1..Len(log) : log[i] \notin ToSet(outgoing')
    BY <1>60, <2>1
  <2>3. /\ page \in Seq(Nat) /\ IsInjective(page) /\ ToSet(page) \subseteq 1..read
        /\ \A i, j \in 1..Len(log) : log[i] \in Texts /\ log[i] = log[j] => i = j
    BY <1>0 DEF TalkInv
  <2>4. Ordered(buffer', log, ToSet(page), ToSet(outgoing'))
    BY <1>7, <2>1 DEF pg
  <2> QED BY <1>1, <1>2, <1>7, <1>9, <2>1, <2>2, <2>3, <2>4 DEF TalkInv
<1>11. Seen' = Seen
  BY <1>1 DEF Seen, progress, disk
<1>12. SeenInv'
  BY <1>0, <1>1, <1>11 DEF SeenInv
<1>13. CursorInv'
  <2> SUFFICES ASSUME ~lost
               PROVE  IF written = Nothing THEN Seen = {}
                      ELSE Cursor(buffer', log, read, written, Seen, pg, stale')
    BY <1>1, <1>11 DEF CursorInv, progress, pg
  <2>1. CASE written = Nothing
    BY <1>0, <2>1 DEF CursorInv
  <2>2. CASE written # Nothing
    <3>1. Cursor(buffer, log, read, written, Seen, pg, stale)
      BY <1>0, <2>2 DEF CursorInv, pg
    <3>2. stale' = stale + 1 /\ stale + 1 < Limit /\ stale \in Nat /\ written.at \in Nat
      <4>1. stale \in Nat /\ written.at \in Nat /\ Burst \in Nat /\ Burst < Limit /\ Limit \in Nat
        BY <1>0, TypeIs
      <4> QED BY <1>1, <4>1 DEF Renders
    <3>3. Cursor(buffer', log, read, written, Seen, pg, stale + 1)
      BY <1>2, <1>4, <1>60, <1>8, <3>1, <3>2, SayCursor
    <3> QED BY <2>2, <3>2, <3>3
  <2> QED BY <2>1, <2>2
<1>14. stale' \in 0..Burst /\ mishaps' \in 0..Mishaps /\ enabled' \in BOOLEAN /\ lost' \in BOOLEAN /\ due' \subseteq Lines
  BY <1>0, <1>1, BoundsAre, TypeIs
<1> QED BY <1>1, <1>10, <1>12, <1>13, <1>14, AsideKeeps

\* The page before the first line of the server's.
LEMMA AsksOlderKeeps ==
    ASSUME LoggingInv, AsksOlder
    PROVE  LoggingInv'
<1>0. TypeOK /\ TalkInv /\ CursorInv /\ SeenInv
  BY DEF LoggingInv
<1> DEFINE first == SelectInSeq(buffer, LAMBDA e : e.at % 2 = 0)
           before == IF first = 0 THEN read + 1 ELSE buffer[first].at \div 2
           I == {i \in 1..Len(buffer) : buffer[i].at % 2 = 0}
<1>1. /\ page = <<>> /\ before > 1 /\ page' = PageBefore(before)
      /\ UNCHANGED <<log, connected, read, outgoing, sent, app, progress, disk, ghosts, mishaps>>
  BY DEF AsksOlder
<1>10. UNCHANGED <<buffer, stale, interface, store, enabled, due, unwanted, lost, written>>
  BY <1>1 DEF app, ghosts, progress
<1>2. /\ log \in Seq({Other} \cup Texts) /\ buffer \in Seq(Entries)
      /\ read \in 0..Len(log) /\ Len(log) \in Nat /\ Len(buffer) \in Nat
      /\ Shows(buffer, log, read)
      /\ Ordered(buffer, log, ToSet(page), ToSet(outgoing))
  BY <1>0 DEF TalkInv
<1>3. ToSet(page) = {} /\ Ordered(buffer, log, {}, ToSet(outgoing))
  BY <1>1, <1>2, SetOfNone
<1>4. first = IF I # {} THEN Min(I) ELSE 0
  BY DEF SelectInSeq
<1>5. I # {} => Min(I) \in I /\ \A i \in I : Min(I) <= i
  <2>1. I \in SUBSET (1..Len(buffer))
    OBVIOUS
  <2> HIDE DEF I
  <2> QED BY <1>2, <2>1, FirstOf
<1>6. \/ (\A k \in 1..Len(buffer) : buffer[k].at % 2 # 0) /\ before = read + 1
      \/ /\ first \in 1..Len(buffer) /\ buffer[first].at % 2 = 0 /\ before = buffer[first].at \div 2
         /\ \A k \in 1..Len(buffer) : buffer[k].at % 2 = 0 => first <= k
  <2>1. CASE I = {}
    <3>1. first = 0
      BY <1>4, <2>1
    <3>2. \A k \in 1..Len(buffer) : buffer[k].at % 2 # 0
      BY <2>1
    <3>3. before = read + 1
      BY <3>1
    <3> QED BY <3>2, <3>3
  <2>2. CASE I # {}
    <3>1. first \in I /\ \A i \in I : first <= i
      BY <1>4, <1>5, <2>2
    <3>2. first \in 1..Len(buffer) /\ buffer[first].at % 2 = 0
      BY <3>1
    <3>3. first # 0
      BY <3>2
    <3>4. before = buffer[first].at \div 2
      BY <3>3
    <3>5. \A k \in 1..Len(buffer) : buffer[k].at % 2 = 0 => first <= k
      BY <3>1
    <3> HIDE DEF first, before, I
    <3> QED BY <3>2, <3>4, <3>5
  <2> QED BY <2>1, <2>2
<1> HIDE DEF first, before, I
<1>7. /\ before \in Nat /\ before <= read + 1
      /\ \/ \A k \in 1..Len(buffer) : buffer[k].at % 2 # 0
         \/ \E f \in 1..Len(buffer) : /\ buffer[f].at = 2 * before
                                      /\ \A k \in 1..Len(buffer) : buffer[k].at % 2 = 0 => f <= k
  <2>1. CASE (\A k \in 1..Len(buffer) : buffer[k].at % 2 # 0) /\ before = read + 1
    BY <1>2, <2>1
  <2>2. CASE /\ first \in 1..Len(buffer) /\ buffer[first].at % 2 = 0 /\ before = buffer[first].at \div 2
             /\ \A k \in 1..Len(buffer) : buffer[k].at % 2 = 0 => first <= k
    <3>1. PICK q \in 1..read : buffer[first].at = 2 * q
      BY <1>2, <2>2, ReadsUpTo
    <3>2. q \in Nat /\ q <= read /\ (2 * q) \div 2 = q
      BY <1>2
    <3>3. before = q
      BY <2>2, <3>1, <3>2
    <3> QED BY <1>2, <2>2, <3>1, <3>2, <3>3
  <2> QED BY <1>6, <2>1, <2>2
<1> DEFINE pg2 == ToSet(page')
<1>8. page' \in Seq(Nat) /\ IsInjective(page') /\ pg2 \subseteq 1..(before - 1)
  <2>1. before \in Nat \ {0}
    BY <1>1, <1>7
  <2> QED BY <1>1, <2>1, PageOnce
<1>9. pg2 \subseteq 1..read
  BY <1>2, <1>7, <1>8
<1> HIDE DEF pg2
<1>11. Ordered(buffer, log, pg2, ToSet(outgoing))
  BY <1>2, <1>3, <1>7, <1>8, AskOrdered
<1>12. TalkInv'
  <2>1. /\ Len(buffer) <= Limit
        /\ outgoing \in Seq(Texts) /\ Len(outgoing) <= 1
        /\ \A i \in 1..Len(log) : log[i] \notin ToSet(outgoing)
        /\ \A p, q \in 1..Len(log) : log[p] \in Texts /\ log[p] = log[q] => p = q
    BY <1>0 DEF TalkInv
  <2> QED BY <1>1, <1>2, <1>8, <1>9, <1>10, <1>11, <2>1 DEF TalkInv, pg2
<1>13. Seen' = Seen /\ UNCHANGED <<interface, store, progress, disk, unwanted>>
  BY <1>1, <1>10 DEF Seen, progress, disk
<1>14. SeenInv'
  BY <1>0, <1>1, <1>13 DEF SeenInv
<1>15. CursorInv'
  <2> SUFFICES ASSUME ~lost, written # Nothing
               PROVE  Cursor(buffer, log, read, written, Seen, pg2, stale)
    BY <1>0, <1>1, <1>10, <1>13 DEF CursorInv, pg2
  <2>1. Cursor(buffer, log, read, written, Seen, {}, stale)
    BY <1>0, <1>3 DEF CursorInv
  <2>2. ASSUME NEW i \in 1..Len(buffer), LeftAt(buffer, i, written),
               NEW p \in 1..read, written.at % 2 = 0, Line(log, p) \in Seen,
               \A k \in 1..Len(buffer) : k <= i => buffer[k].at <= 2 * p
        PROVE  p \notin pg2
    <3>1. buffer[i].at % 2 = 0
      BY <2>2 DEF LeftAt
    <3>2. PICK f \in 1..Len(buffer) : /\ buffer[f].at = 2 * before
                                      /\ \A k \in 1..Len(buffer) : buffer[k].at % 2 = 0 => f <= k
      BY <1>7, <3>1
    <3>3. 2 * before <= 2 * p
      BY <2>2, <3>1, <3>2
    <3>4. p \notin 1..(before - 1)
      BY <1>2, <1>7, <3>3
    <3> QED BY <1>8, <3>4 DEF pg2
  <2>3. \A p \in 1..read : Line(log, p) \in Seen => p \in 1..read
    OBVIOUS
  <2>4. read \in Nat
    BY <1>2
  <2>5. \A i \in 1..Len(buffer) : LeftAt(buffer, i, written) =>
              \A p \in 1..read : written.at % 2 = 0 /\ Line(log, p) \in Seen /\ p \notin {}
                                /\ (\A k \in 1..Len(buffer) : k <= i => buffer[k].at <= 2 * p) => p \notin pg2
    BY <2>2
  <2> DEFINE none == {}
  <2>6. /\ Cursor(buffer, log, read, written, Seen, none, stale)
        /\ \A i \in 1..Len(buffer) : LeftAt(buffer, i, written) =>
              \A p \in 1..read : written.at % 2 = 0 /\ Line(log, p) \in Seen /\ p \notin none
                                /\ (\A k \in 1..Len(buffer) : k <= i => buffer[k].at <= 2 * p) => p \notin pg2
    BY <2>1, <2>5
  <2> HIDE DEF none
  <2> QED BY <2>3, <2>4, <2>6, PageCursor
<1>16. stale' \in 0..Burst /\ mishaps' \in 0..Mishaps /\ enabled' \in BOOLEAN /\ lost' \in BOOLEAN /\ due' \subseteq Lines
  BY <1>0, <1>1, <1>10, BoundsAre, TypeIs
<1> QED BY <1>10, <1>12, <1>13, <1>14, <1>15, <1>16, AsideKeeps

\* A sequence of no more than one.
LEMMA OneIs ==
    ASSUME NEW T, NEW s \in Seq(T)
    PROVE  /\ ToSet(s) \subseteq T
           /\ s # <<>> /\ Len(s) <= 1 => s[1] \in T /\ s[1] \in ToSet(s) /\ s = <<s[1]>>
<1>1. /\ \A e \in ToSet(s) : \E i \in 1..Len(s) : e = s[i]
      /\ \A i \in 1..Len(s) : s[i] \in ToSet(s) /\ s[i] \in T
      /\ Len(s) \in Nat
  BY ToSetIs
<1>2. ToSet(s) \subseteq T
  BY <1>1
<1>3. ASSUME s # <<>>, Len(s) <= 1 PROVE s[1] \in T /\ s[1] \in ToSet(s) /\ s = <<s[1]>>
  <2>0. Len(s) # 0
    BY <1>3
  <2>1. Len(s) = 1
    <3>1. Len(s) \in Nat
      OBVIOUS
    <3> QED BY <1>3, <2>0, <3>1
  <2>2. s[1] \in T /\ s[1] \in ToSet(s)
    BY <1>1, <2>1
  <2>3. s = <<s[1]>>
    BY <2>1
  <2> QED BY <2>2, <2>3
<1> QED BY <1>2, <1>3

\* A line is said: v, ours or another's.
LEMMA WordsKeep ==
    ASSUME LoggingInv, NEW v \in {Other} \cup Texts, log' = Append(log, v),
           (v = Other /\ outgoing' = outgoing) \/ (v \in ToSet(outgoing) /\ outgoing' = <<>>),
           UNCHANGED <<connected, read, page, sent, app, progress, disk, ghosts, mishaps>>
    PROVE  LoggingInv'
<1>0. TypeOK /\ TalkInv /\ CursorInv /\ SeenInv
  BY DEF LoggingInv
<1>1. UNCHANGED <<connected, read, page, sent, app, progress, disk, ghosts, mishaps>>
  OBVIOUS
<1>10. UNCHANGED <<buffer, stale, interface, store, enabled, due, unwanted, lost, written>>
  BY <1>1 DEF app, ghosts, progress
<1> DEFINE T == {Other} \cup Texts
           pg == ToSet(page)
           os == ToSet(outgoing)
           os2 == ToSet(outgoing')
<1>2. /\ log \in Seq(T) /\ buffer \in Seq(Entries) /\ Len(buffer) <= Limit
      /\ read \in 0..Len(log) /\ Len(log) \in Nat
      /\ Shows(buffer, log, read)
      /\ Ordered(buffer, log, pg, os)
      /\ outgoing \in Seq(Texts) /\ Len(outgoing) <= 1
      /\ \A i \in 1..Len(log) : log[i] \notin os
      /\ \A p, q \in 1..Len(log) : log[p] \in Texts /\ log[p] = log[q] => p = q
      /\ page \in Seq(Nat) /\ IsInjective(page) /\ pg \subseteq 1..read
  BY <1>0 DEF TalkInv
<1>4. /\ log' = Append(log, v)
      /\ \/ v = Other /\ outgoing' = outgoing
         \/ v \in os /\ outgoing' = <<>>
  OBVIOUS
<1>5. /\ log' \in Seq(T) /\ Len(log') = Len(log) + 1
      /\ \A i \in 1..Len(log) : log'[i] = log[i]
      /\ log'[Len(log) + 1] = v
      /\ \A i \in 1..Len(log') : i \in 1..Len(log) \/ i = Len(log) + 1
  BY <1>2, <1>4, AppendIs
<1>6. v \notin Texts \/ (v \in os /\ os2 = {} /\ \A q \in 1..Len(log) : log[q] # v)
  <2>1. CASE v = Other
    BY <2>1, BufferAssumption
  <2>2. CASE v \in os /\ outgoing' = <<>>
    BY <1>2, <2>2, SetOfNone
  <2> QED BY <1>4, <2>1, <2>2
<1>7. os2 \in SUBSET os /\ outgoing' \in Seq(Texts) /\ Len(outgoing') <= 1 /\ v \notin os2
  <2>1. CASE v = Other /\ outgoing' = outgoing
    <3>1. os \subseteq Texts
      BY <1>2, OneIs
    <3>2. outgoing' \in Seq(Texts) /\ Len(outgoing') <= 1 /\ os2 = os
      BY <1>2, <2>1
    <3>3. v \notin os
      BY <2>1, <3>1, BufferAssumption
    <3> HIDE DEF os, os2
    <3> QED BY <3>2, <3>3
  <2>2. CASE v \in os /\ outgoing' = <<>>
    <3>1. os2 = {} /\ Len(outgoing') = 0
      BY <2>2, SetOfNone
    <3> QED BY <2>2, <3>1
  <2> QED BY <1>4, <2>1, <2>2
<1> HIDE DEF pg, os, os2
<1>8. Shows(buffer, log', read) /\ Ordered(buffer, log', pg, os2)
  <2> HIDE DEF T
  <2>1. Shows(buffer, Append(log, v), read)
    BY <1>2, LogReads
  <2>2. Ordered(buffer, Append(log, v), pg, os2)
    BY <1>2, <1>6, <1>7, LogOrdered
  <2> QED BY <1>4, <2>1, <2>2
<1>9. TalkInv'
  <2>1. read \in 0..Len(log')
    BY <1>2, <1>5
  <2>2. \A i \in 1..Len(log') : log'[i] \notin os2
    BY <1>2, <1>5, <1>7
  <2>3. \A p, q \in 1..Len(log') : log'[p] \in Texts /\ log'[p] = log'[q] => p = q
    <3> SUFFICES ASSUME NEW p \in 1..Len(log'), NEW q \in 1..Len(log'), log'[p] \in Texts, log'[p] = log'[q]
                 PROVE  p = q
      OBVIOUS
    <3>1. CASE p \in 1..Len(log) /\ q \in 1..Len(log)
      BY <1>2, <1>5, <3>1
    <3>2. CASE p = Len(log) + 1 /\ q \in 1..Len(log)
      <4>1. v \in Texts /\ log[q] = v
        BY <1>5, <3>2
      <4> QED BY <1>6, <3>2, <4>1
    <3>3. CASE q = Len(log) + 1 /\ p \in 1..Len(log)
      <4>1. v \in Texts /\ log[p] = v
        BY <1>5, <3>3
      <4> QED BY <1>6, <3>3, <4>1
    <3> QED BY <1>5, <3>1, <3>2, <3>3
  <2>4. UNCHANGED <<buffer, read, page>>
    BY <1>1, <1>10
  <2>5. log' \in Seq({Other} \cup Texts)
    BY <1>5
  <2> QED BY <1>2, <1>7, <1>8, <2>1, <2>2, <2>3, <2>4, <2>5 DEF TalkInv, pg, os2
<1>13. Seen' = Seen /\ UNCHANGED <<interface, store, progress, disk, unwanted>>
  BY <1>1, <1>10 DEF Seen, progress, disk
<1>14. SeenInv'
  BY <1>0, <1>1, <1>13 DEF SeenInv
<1>15. CursorInv'
  <2> SUFFICES ASSUME ~lost, written # Nothing
               PROVE  Cursor(buffer, log', read, written, Seen, pg, stale)
    BY <1>0, <1>1, <1>10, <1>13 DEF CursorInv, pg
  <2>1. Cursor(buffer, log, read, written, Seen, pg, stale)
    BY <1>0 DEF CursorInv, pg
  <2> HIDE DEF T, Seen
  <2>2. Cursor(buffer, Append(log, v), read, written, Seen, pg, stale)
    BY <1>2, <2>1, LogCursor
  <2> QED BY <1>4, <2>2
<1>16. stale' \in 0..Burst /\ mishaps' \in 0..Mishaps /\ enabled' \in BOOLEAN /\ lost' \in BOOLEAN /\ due' \subseteq Lines
  BY <1>0, <1>1, <1>10, BoundsAre, TypeIs
<1>17. lost => lost'
  BY <1>10
<1> QED BY <1>9, <1>13, <1>14, <1>15, <1>16, <1>17, AsideKeeps

\* What is on its way is logged, or somebody else speaks.
LEMMA SaidAlsoKeeps ==
    ASSUME LoggingInv, Said
    PROVE  LoggingInv'
<1>1. /\ \/ log' = Append(log, Other) /\ UNCHANGED outgoing
         \/ outgoing # <<>> /\ log' = log \o outgoing /\ outgoing' = <<>>
      /\ UNCHANGED <<connected, read, page, sent, app, progress, disk, ghosts, mishaps>>
  BY DEF Said
<1>2. CASE log' = Append(log, Other) /\ UNCHANGED outgoing
  <2>1. Other \in {Other} \cup Texts
    OBVIOUS
  <2> QED BY <1>1, <1>2, <2>1, WordsKeep
<1>3. CASE outgoing # <<>> /\ log' = log \o outgoing /\ outgoing' = <<>>
  <2>0. log \in Seq({Other} \cup Texts) /\ outgoing \in Seq(Texts) /\ Len(outgoing) <= 1
    BY DEF LoggingInv, TalkInv
  <2> DEFINE w == outgoing[1]
  <2>1. w \in Texts /\ w \in ToSet(outgoing) /\ outgoing = <<w>>
    BY <1>3, <2>0, OneIs
  <2>2. log' = Append(log, w)
    <3>1. log' = log \o <<w>>
      BY <1>3, <2>1
    <3>2. log \o <<w>> = Append(log, w)
      BY <2>0, <2>1
    <3> QED BY <3>1, <3>2
  <2>3. w \in ToSet(outgoing) /\ w \in {Other} \cup Texts
    BY <2>1
  <2> HIDE DEF w
  <2> QED BY <1>1, <1>3, <2>2, <2>3, WordsKeep
<1> QED BY <1>1, <1>2, <1>3

\* The connection goes, with what was asked for.
LEMMA LeavesKeeps ==
    ASSUME LoggingInv, Leaves
    PROVE  LoggingInv'
<1>0. TypeOK /\ TalkInv /\ CursorInv /\ SeenInv
  BY DEF LoggingInv
<1>1. /\ outgoing' = <<>> /\ page' = <<>>
      /\ UNCHANGED <<log, read, sent, app, progress, disk, ghosts, mishaps>>
  BY DEF Leaves
<1>10. UNCHANGED <<buffer, stale, interface, store, enabled, due, unwanted, lost, written>>
  BY <1>1 DEF app, ghosts, progress
<1> DEFINE pg == ToSet(page)
           os == ToSet(outgoing)
           none == {}
<1>2. /\ buffer \in Seq(Entries) /\ Len(buffer) <= Limit
      /\ read \in 0..Len(log) /\ Len(log) \in Nat
      /\ Shows(buffer, log, read)
      /\ Ordered(buffer, log, pg, os)
      /\ \A p, q \in 1..Len(log) : log[p] \in Texts /\ log[p] = log[q] => p = q
      /\ log \in Seq({Other} \cup Texts)
  BY <1>0 DEF TalkInv
<1>3. /\ page' \in Seq(Nat) /\ IsInjective(page') /\ ToSet(page') = none
      /\ outgoing' \in Seq(Texts) /\ Len(outgoing') <= 1 /\ ToSet(outgoing') = none
  BY <1>1, SetOfNone
<1>4. none \in SUBSET pg /\ none \in SUBSET os
  OBVIOUS
<1>40. \A x : x \notin none
  OBVIOUS
<1> HIDE DEF pg, os, none
<1>5. Ordered(buffer, log, none, none)
  BY <1>2, <1>4, OrderedLess
<1>6. TalkInv'
  <2>1. UNCHANGED <<log, buffer, read>>
    BY <1>1, <1>10
  <2>2. /\ Ordered(buffer, log, ToSet(page'), ToSet(outgoing'))
        /\ ToSet(page') \subseteq 1..read
        /\ \A i \in 1..Len(log) : log[i] \notin ToSet(outgoing')
    BY <1>3, <1>40, <1>5
  <2> QED BY <1>2, <1>3, <2>1, <2>2 DEF TalkInv
<1>13. Seen' = Seen /\ UNCHANGED <<interface, store, progress, disk, unwanted>>
  BY <1>1, <1>10 DEF Seen, progress, disk
<1>14. SeenInv'
  BY <1>0, <1>1, <1>13 DEF SeenInv
<1>15. CursorInv'
  <2> SUFFICES ASSUME ~lost, written # Nothing
               PROVE  Cursor(buffer, log, read, written, Seen, none, stale)
    BY <1>0, <1>1, <1>3, <1>10, <1>13 DEF CursorInv
  <2>1. Cursor(buffer, log, read, written, Seen, pg, stale)
    BY <1>0 DEF CursorInv, pg
  <2>2. /\ read \in Nat /\ \A p \in 1..read : Line(log, p) \in Seen => p \in 1..read
        /\ \A i \in 1..Len(buffer) : LeftAt(buffer, i, written) =>
              \A p \in 1..read : written.at % 2 = 0 /\ Line(log, p) \in Seen /\ p \notin pg
                                /\ (\A k \in 1..Len(buffer) : k <= i => buffer[k].at <= 2 * p) => p \notin none
    BY <1>2, <1>40
  <2> HIDE DEF Seen
  <2> QED BY <2>1, <2>2, PageCursor
<1>16. stale' \in 0..Burst /\ mishaps' \in 0..Mishaps /\ enabled' \in BOOLEAN /\ lost' \in BOOLEAN /\ due' \subseteq Lines
  BY <1>0, <1>1, <1>10, BoundsAre, TypeIs
<1> QED BY <1>6, <1>10, <1>13, <1>14, <1>15, <1>16, AsideKeeps

\* What was missed comes as a page.
LEMMA ReturnsKeeps ==
    ASSUME LoggingInv, Returns
    PROVE  LoggingInv'
<1>0. TypeOK /\ TalkInv /\ CursorInv /\ SeenInv
  BY DEF LoggingInv
<1> DEFINE missed == (read + 1)..Len(log)
           pg == ToSet(page)
           pg2 == ToSet(page')
           os == ToSet(outgoing)
           none == {}
<1>1. /\ Mishap /\ page' = Those(PageBefore(Len(log) + 1), missed)
      /\ read' = Len(log)
      /\ UNCHANGED <<log, outgoing, sent, app, progress, disk, ghosts>>
  BY DEF Returns
<1>10. UNCHANGED <<buffer, stale, interface, store, enabled, due, unwanted, lost, written>>
  BY <1>1 DEF app, ghosts, progress
<1>2. /\ buffer \in Seq(Entries) /\ Len(buffer) <= Limit
      /\ read \in 0..Len(log) /\ Len(log) \in Nat /\ read \in Nat
      /\ Shows(buffer, log, read)
      /\ Ordered(buffer, log, pg, os)
      /\ log \in Seq({Other} \cup Texts)
      /\ outgoing \in Seq(Texts) /\ Len(outgoing) <= 1
      /\ \A i \in 1..Len(log) : log[i] \notin os
      /\ \A p, q \in 1..Len(log) : log[p] \in Texts /\ log[p] = log[q] => p = q
  BY <1>0 DEF TalkInv
<1>3. page' \in Seq(Nat) /\ IsInjective(page') /\ pg2 \subseteq 1..Len(log) /\ pg2 \subseteq missed
  <2>1. Len(log) + 1 \in Nat \ {0} /\ (Len(log) + 1) - 1 = Len(log)
    BY <1>2
  <2> DEFINE b == PageBefore(Len(log) + 1)
  <2>2. b \in Seq(Nat) /\ IsInjective(b) /\ ToSet(b) \subseteq 1..Len(log)
    BY <2>1, PageOnce
  <2> HIDE DEF b, missed
  <2>3. Those(b, missed) \in Seq(Nat) /\ ToSet(Those(b, missed)) = ToSet(b) \cap missed /\ IsInjective(Those(b, missed))
    BY <2>2, ThoseIs
  <2>4. page' = Those(b, missed)
    BY <1>1 DEF b
  <2> QED BY <2>2, <2>3, <2>4
<1>4. none \in SUBSET pg /\ os \in SUBSET os /\ pg2 \in SUBSET missed
  BY <1>3
<1>40. \A p \in pg2 : p \notin 1..read
  BY <1>2, <1>3
<1> HIDE DEF pg, pg2, os, none
<1>5. Ordered(buffer, log, pg2, os)
  <2>1. Ordered(buffer, log, none, os)
    BY <1>2, <1>4, OrderedLess
  <2> QED BY <1>2, <1>4, <2>1, MissedOrdered DEF none
<1>50. Shows(buffer, log, Len(log))
  <2>1. \A q \in 1..read : q \in 1..Len(log)
    BY <1>2
  <2> QED BY <1>2, <2>1 DEF Shows
<1>6. TalkInv'
  <2>1. UNCHANGED <<log, buffer, outgoing>> /\ read' = Len(log)
    BY <1>1, <1>10
  <2>2. Len(log) \in 0..Len(log)
    BY <1>2
  <2> QED BY <1>2, <1>3, <1>5, <1>50, <2>1, <2>2 DEF TalkInv, pg2, os
<1>13. Seen' = Seen /\ UNCHANGED <<interface, store, progress, disk, unwanted>>
  BY <1>1, <1>10 DEF Seen, progress, disk
<1>14. SeenInv'
  <2> SUFFICES ASSUME NEW z \in Seen, z.at % 2 = 0 PROVE z.at <= 2 * Len(log)
    BY <1>1, <1>13 DEF SeenInv
  <2>1. z.at <= 2 * read /\ z.at \in Nat
    BY <1>0, SeenTyped DEF SeenInv
  <2> QED BY <1>2, <2>1
<1>15. CursorInv'
  <2> SUFFICES ASSUME ~lost, written # Nothing
               PROVE  Cursor(buffer, log, Len(log), written, Seen, pg2, stale)
    BY <1>0, <1>1, <1>10, <1>13 DEF CursorInv, pg2
  <2>1. Cursor(buffer, log, read, written, Seen, pg, stale)
    BY <1>0 DEF CursorInv, pg
  <2>2. \A p \in 1..Len(log) : Line(log, p) \in Seen => p \in 1..read
    <3> SUFFICES ASSUME NEW p \in 1..Len(log), Line(log, p) \in Seen PROVE p \in 1..read
      OBVIOUS
    <3>1. Line(log, p).at = 2 * p /\ (2 * p) % 2 = 0
      BY <1>2 DEF Line
    <3>2. 2 * p <= 2 * read
      BY <1>0, <3>1 DEF SeenInv
    <3> QED BY <1>2, <3>2
  <2>3. /\ read \in Nat /\ Len(log) \in Nat
        /\ \A i \in 1..Len(buffer) : LeftAt(buffer, i, written) =>
              \A p \in 1..read : written.at % 2 = 0 /\ Line(log, p) \in Seen /\ p \notin pg
                                /\ (\A k \in 1..Len(buffer) : k <= i => buffer[k].at <= 2 * p) => p \notin pg2
    BY <1>2, <1>40
  <2> HIDE DEF Seen
  <2> QED BY <2>1, <2>2, <2>3, PageCursor
<1>16. stale' \in 0..Burst /\ mishaps' \in 0..Mishaps /\ enabled' \in BOOLEAN /\ lost' \in BOOLEAN /\ due' \subseteq Lines
  BY <1>0, <1>1, <1>10, BoundsAre, TypeIs
<1> QED BY <1>6, <1>10, <1>13, <1>14, <1>15, <1>16, AsideKeeps

\* What has been seen is still so when more of the log is read.
LEMMA SeenFurther ==
    ASSUME TypeOK, TalkInv, SeenInv, Seen' = Seen, read' = Len(log)
    PROVE  SeenInv'
<1> SUFFICES ASSUME NEW z \in Seen, z.at % 2 = 0 PROVE z.at <= 2 * Len(log)
  BY DEF SeenInv
<1>1. z.at <= 2 * read /\ z.at \in Nat
  BY SeenTyped DEF SeenInv
<1>2. read \in 0..Len(log) /\ Len(log) \in Nat
  BY DEF TalkInv
<1> QED BY <1>1, <1>2

\* A new session: the buffer is empty, and what the log was left off at is lost.
LEMMA RestartsKeeps ==
    ASSUME LoggingInv, Restarts
    PROVE  LoggingInv'
<1>0. TypeOK /\ TalkInv /\ CursorInv /\ SeenInv
  BY DEF LoggingInv
<1>1. /\ Mishap /\ stale = 0 /\ read' = Len(log) /\ buffer' = <<>>
      /\ lost' = (lost \/ written # Nothing)
      /\ UNCHANGED <<log, page, outgoing, stale, interface, store, enabled, due, unwanted>>
      /\ UNCHANGED <<progress, disk>>
  BY DEF Restarts
<1>2. Seen' = Seen /\ written' = written
  BY <1>1 DEF Seen, progress, disk
<1>3. /\ read \in 0..Len(log) /\ Len(log) \in Nat /\ log \in Seq({Other} \cup Texts)
      /\ page \in Seq(Nat) /\ IsInjective(page) /\ ToSet(page) \subseteq 1..read
      /\ outgoing \in Seq(Texts) /\ Len(outgoing) <= 1
      /\ \A i \in 1..Len(log) : log[i] \notin ToSet(outgoing)
      /\ \A p, q \in 1..Len(log) : log[p] \in Texts /\ log[p] = log[q] => p = q
  BY <1>0 DEF TalkInv
<1>4. TalkInv'
  <2>1. ToSet(page) \subseteq 1..Len(log) /\ Len(log) \in 0..Len(log)
    BY <1>3
  <2>2. Ordered(<<>>, log, ToSet(page), ToSet(outgoing))
    BY NoneOrdered
  <2>3. Shows(<<>>, log, Len(log)) /\ <<>> \in Seq(Entries) /\ Len(<<>>) <= Limit
    <3>1. \A i : i \notin 1..Len(<<>>)
      OBVIOUS
    <3>2. Len(<<>>) <= Limit
      BY BufferAssumption
    <3> QED BY <3>1, <3>2 DEF Shows
  <2> QED BY <1>1, <1>3, <2>1, <2>2, <2>3 DEF TalkInv
<1>5. SeenInv'
  BY <1>0, <1>1, <1>2, SeenFurther
<1>6. CursorInv'
  BY <1>0, <1>1, <1>2 DEF CursorInv
<1>7. stale' \in 0..Burst /\ mishaps' \in 0..Mishaps /\ enabled' \in BOOLEAN /\ lost' \in BOOLEAN /\ due' \subseteq Lines
  BY <1>0, <1>1, BoundsAre, TypeIs
<1>8. lost => lost'
  BY <1>1
<1> QED BY <1>1, <1>4, <1>5, <1>6, <1>7, <1>8, AsideKeeps

\* Logging is switched on or off.
LEMMA SwitchesKeeps ==
    ASSUME LoggingInv, Switches
    PROVE  LoggingInv'
<1>0. TypeOK /\ TalkInv /\ CursorInv /\ SeenInv
  BY DEF LoggingInv
<1>1. /\ Mishap /\ enabled' = ~enabled
      /\ UNCHANGED <<server, buffer, stale, interface, store, progress, disk, ghosts>>
  BY DEF Switches
<1>2. UNCHANGED <<log, read, page, outgoing, due, unwanted, lost, written>>
  BY <1>1 DEF server, ghosts, progress
<1>3. Seen' = Seen
  BY <1>1, <1>2 DEF Seen, progress, disk
<1>4. TalkInv' /\ SeenInv' /\ CursorInv'
  BY <1>0, <1>1, <1>2, <1>3 DEF TalkInv, SeenInv, CursorInv
<1>5. stale' \in 0..Burst /\ mishaps' \in 0..Mishaps /\ enabled' \in BOOLEAN /\ lost' \in BOOLEAN /\ due' \subseteq Lines
  BY <1>0, <1>1, <1>2, BoundsAre, TypeIs
<1> QED BY <1>1, <1>2, <1>4, <1>5, AsideKeeps

----------------------------------------------------------------------------
(* Collecting.                                                             *)

\* What has been taken down is what stays of it.
LEMMA TakenDownIs ==
    ASSUME TypeOK
    PROVE  TakenDown \in Seq(Lines) /\ ToSet(TakenDown) = Standing /\ IsInjective(TakenDown)
<1> DEFINE f == IF purging = <<>> THEN file ELSE purging
           fw == f \o writing
           all == fw \o pending
<1>1. f \in Seq(Lines) /\ writing \in Seq(Lines) /\ pending \in Seq(Lines)
  BY TypeIs
<1>2. Standing = ToSet(f) \cup ToSet(writing) \cup ToSet(pending)
  BY DEF Standing
<1>3. TakenDown = Distinct(all)
  BY DEF TakenDown
<1> HIDE DEF f
<1>4. fw \in Seq(Lines) /\ ToSet(fw) = ToSet(f) \cup ToSet(writing)
  BY <1>1, SetOfJoined
<1> HIDE DEF fw
<1>5. all \in Seq(Lines) /\ ToSet(all) = ToSet(fw) \cup ToSet(pending)
  BY <1>1, <1>4, SetOfJoined
<1> HIDE DEF all
<1>6. Distinct(all) \in Seq(Lines) /\ ToSet(Distinct(all)) = ToSet(all) /\ IsInjective(Distinct(all))
  BY <1>5, DistinctIs
<1> QED BY <1>2, <1>3, <1>4, <1>5, <1>6

\* What is new is behind the place the log was left off at.
LEMMA FreshLogged ==
    ASSUME TypeOK, TalkInv
    PROVE  /\ Logged(Fresh(buffer)) \in Seq(Lines) /\ IsInjective(Logged(Fresh(buffer)))
           /\ \A z \in ToSet(Logged(Fresh(buffer))) :
                 \E j \in 1..Len(buffer) : Start(buffer) < j /\ ~buffer[j].pending /\ z = Record(buffer[j])
           /\ Start(buffer) = Len(buffer) => ToSet(Logged(Fresh(buffer))) = {}
<1>1. buffer \in Seq(Entries) /\ Keys(buffer) /\ written \in Lines
  BY TypeIs DEF TalkInv, Ordered
<1> DEFINE b == buffer
           F == Fresh(b)
           G == ToSet(Logged(F))
<1>2. /\ F \in Seq(Entries) /\ Keys(F)
      /\ \A e \in ToSet(F) : \E j \in 1..Len(b) : Start(b) < j /\ e = b[j]
      /\ Start(b) = Len(b) => F = <<>>
  BY <1>1, FreshIs
<1> HIDE DEF b, F
<1>3. Logged(F) \in Seq(Lines) /\ IsInjective(Logged(F)) /\ G = {Record(e) : e \in {e \in ToSet(F) : ~e.pending}}
  BY <1>2, LoggedIs
<1> HIDE DEF G
<1>4. ASSUME NEW z \in G
      PROVE  \E j \in 1..Len(b) : Start(b) < j /\ ~b[j].pending /\ z = Record(b[j])
  <2>1. PICK e \in ToSet(F) : ~e.pending /\ z = Record(e)
    BY <1>3, <1>4
  <2> QED BY <1>2, <2>1
<1>5. ASSUME Start(b) = Len(b) PROVE G = {}
  <2>1. ToSet(F) = {}
    BY <1>2, <1>5, SetOfNone
  <2> QED BY <1>3, <2>1
<1> QED BY <1>3, <1>4, <1>5 DEF b, F, G

\* What is not to be kept has not been taken down.
LEMMA NotToKeepIs ==
    ASSUME TypeOK, TalkInv
    PROVE  /\ \A z \in NotToKeep : z \in Lines /\ \E k \in 1..Len(buffer) : z = Record(buffer[k])
           /\ NotToKeep \cap Standing = {}
           /\ written # Nothing /\ enabled => NotToKeep = {}
<1>1. buffer \in Seq(Entries) /\ Keys(buffer) /\ written \in Lines
  BY TypeIs DEF TalkInv, Ordered
<1> DEFINE b == buffer
           F == Fresh(b)
           none == <<>>
           X == IF written = Nothing THEN b ELSE IF enabled THEN none ELSE F
<1>2. /\ F \in Seq(Entries)
      /\ \A e \in ToSet(F) : \E j \in 1..Len(b) : Start(b) < j /\ e = b[j]
  BY <1>1, FreshIs
<1>3. /\ b \in Seq(Entries) /\ \A e \in ToSet(b) : \E j \in 1..Len(b) : e = b[j]
      /\ none \in Seq(Entries) /\ ToSet(none) = {}
  BY <1>1, SetOfNone, ToSetIs
<1>4. NotToKeep = ToSet(Records(X)) \ Standing
  BY TakenDownIs DEF NotToKeep
<1> HIDE DEF b, F, none
<1>5. X \in Seq(Entries) /\ \A e \in ToSet(X) : \E j \in 1..Len(b) : e = b[j]
  <2>1. CASE X = b
    BY <1>3, <2>1
  <2>2. CASE X = none
    BY <1>3, <2>2
  <2>3. CASE X = F
    BY <1>2, <2>3
  <2> QED BY <2>1, <2>2, <2>3
<1>6. written # Nothing /\ enabled => X = none
  OBVIOUS
<1> HIDE DEF X
<1>7. ToSet(Records(X)) = {Record(e) : e \in ToSet(X)} /\ \A e \in ToSet(X) : Record(e) \in Lines
  <2>1. Records(X) \in Seq(Lines) /\ ToSet(Records(X)) = {Record(e) : e \in ToSet(X)}
    BY <1>5, RecordsIs
  <2>2. ToSet(Records(X)) \subseteq Lines
    BY <2>1, OneIs
  <2> QED BY <2>1, <2>2
<1>8. \A z \in NotToKeep : z \in Lines /\ \E k \in 1..Len(b) : z = Record(b[k])
  BY <1>4, <1>5, <1>7
<1>9. written # Nothing /\ enabled => NotToKeep = {}
  BY <1>3, <1>4, <1>6, <1>7
<1> QED BY <1>4, <1>8, <1>9 DEF b

\* What is collected has not been seen, while the place the log was left off at is there.
LEMMA CollectedIsNew ==
    ASSUME TypeOK, TalkInv, CursorInv, ~lost, written = Nothing \/ Start(buffer) # 0
    PROVE  /\ ToSet(Logged(Fresh(buffer))) \cap Seen = {}
           /\ written # Nothing => /\ Cursor(buffer, log, read, written, Seen, ToSet(page), stale)
                                   /\ \E i \in 1..Len(buffer) : LeftAt(buffer, i, written)
           /\ written = Nothing => Seen = {} /\ ToSet(Logged(Fresh(buffer))) = {}
<1> DEFINE G == ToSet(Logged(Fresh(buffer)))
           b == buffer
<1>1. /\ \A z \in G : \E j \in 1..Len(b) : Start(b) < j /\ ~b[j].pending /\ z = Record(b[j])
      /\ Start(b) = Len(b) => G = {}
  BY FreshLogged
<1>2. /\ Start(b) \in 0..Len(b) /\ written = Nothing => Start(b) = Len(b)
      /\ written # Nothing /\ Start(b) # 0 => LeftAt(b, Start(b), written)
  BY StartIs, TypeIs DEF TalkInv
<1>3. CASE written = Nothing
  BY <1>1, <1>2, <1>3, StartIs, TypeIs DEF CursorInv, TalkInv
<1>4. CASE written # Nothing
  <2>1. LeftAt(b, Start(b), written)
    BY <1>2, <1>4
  <2>2. Cursor(b, log, read, written, Seen, ToSet(page), stale)
    BY <1>4 DEF CursorInv
  <2>3. Start(b) \in 1..Len(b)
    BY <2>1 DEF LeftAt
  <2>4. \A j \in 1..Len(b) : Start(b) < j => (~b[j].pending => Record(b[j]) \notin Seen)
    BY <2>1, <2>2, <2>3 DEF Cursor, Behind
  <2> HIDE DEF G, b
  <2>5. G \cap Seen = {}
    BY <1>1, <2>4
  <2> QED BY <1>4, <2>1, <2>2, <2>3, <2>5 DEF G, b
<1> QED BY <1>3, <1>4

\* What is new is queued, or not, and the place moves on to the last entry.
LEMMA CollectKeeps ==
    ASSUME LoggingInv, Collect
    PROVE  LoggingInv'
<1>0. TypeOK /\ TalkInv /\ CursorInv /\ SeenInv /\ PurgeInv /\ OnceInv /\ OutInv
  BY DEF LoggingInv
<1> DEFINE G == ToSet(Logged(Fresh(buffer)))
           NK == NotToKeep
           b == buffer
<1>1. /\ stale' = 0
      /\ written' = IF buffer = <<>> THEN written ELSE Record(Last(buffer))
      /\ pending' = IF enabled THEN pending \o Logged(Fresh(buffer)) ELSE pending
      /\ unwanted' = unwanted \cup NotToKeep
      /\ lost' = (lost \/ (buffer # <<>> /\ Start(buffer) = 0))
      /\ UNCHANGED <<server, buffer, interface, store, enabled, flushing, writing, disk, due, mishaps>>
  BY DEF Collect
<1>2. UNCHANGED <<log, read, page, outgoing, buffer, interface, store, enabled, flushing, writing,
                  broken, failures, file, purging, cutoff, due, mishaps>>
  BY <1>1 DEF server, disk
<1>3. /\ Logged(Fresh(buffer)) \in Seq(Lines) /\ IsInjective(Logged(Fresh(buffer)))
      /\ \A z \in G : \E j \in 1..Len(b) : ~b[j].pending /\ z = Record(b[j])
  BY <1>0, FreshLogged
<1>4. /\ \A z \in NK : z \in Lines /\ \E k \in 1..Len(b) : z = Record(b[k])
      /\ NK \cap Standing = {}
      /\ written # Nothing /\ enabled => NK = {}
  BY <1>0, NotToKeepIs
<1>5. /\ b \in Seq(Entries) /\ read \in 0..Len(log) /\ Len(log) \in Nat
      /\ Shows(b, log, read) /\ Ordered(b, log, ToSet(page), ToSet(outgoing))
  BY <1>0 DEF TalkInv
<1>6. pending \in Seq(Lines) /\ writing \in Seq(Lines) /\ written \in Lines /\ unwanted \subseteq Lines
  BY <1>0, TypeIs
<1>7. pending' \in Seq(Lines) /\ ToSet(pending') = ToSet(pending) \cup (IF enabled THEN G ELSE {})
  BY <1>1, <1>3, <1>6, SetOfJoined
<1>8. written' \in Lines /\ (b # <<>> => Len(b) > 0 /\ written' = Record(b[Len(b)]) /\ written' # Nothing)
  <2>1. CASE b = <<>>
    BY <1>1, <1>6, <2>1
  <2>2. CASE b # <<>>
    <3>1. Len(b) \in 1..Len(b) /\ b[Len(b)] \in Entries /\ Len(b) > 0
      BY <1>5, <2>2
    <3>2. written' = Record(b[Len(b)])
      BY <1>1, <2>2 DEF Last
    <3>3. Record(b[Len(b)]) \in Lines /\ Record(b[Len(b)]).at = b[Len(b)].at
      BY <3>1, RecordIs
    <3>4. b[Len(b)].at > 0
      BY <1>5, <3>1, ReadsUpTo
    <3>5. Record(b[Len(b)]) # Nothing
      BY <3>3, <3>4 DEF Nothing
    <3> QED BY <3>1, <3>2, <3>3, <3>5
  <2> QED BY <2>1, <2>2
<1>9. /\ Seen' = Seen \cup NK \cup (IF enabled THEN G ELSE {})
      /\ Standing' = Standing \cup (IF enabled THEN G ELSE {})
  BY <1>1, <1>2, <1>7 DEF Seen, Standing
<1> HIDE DEF G, NK, b
<1>10. \A z \in Seen' : z \in Seen \/ \E k \in 1..Len(b) : z = Record(b[k])
  BY <1>3, <1>4, <1>9
<1>11. TalkInv' /\ PurgeInv'
  BY <1>0, <1>2 DEF TalkInv, PurgeInv
<1>12. SeenInv'
  <2> SUFFICES ASSUME NEW z \in Seen', z.at % 2 = 0 PROVE z.at <= 2 * read
    BY <1>2 DEF SeenInv
  <2>1. CASE z \in Seen
    BY <1>0, <2>1 DEF SeenInv
  <2>2. CASE \E k \in 1..Len(b) : z = Record(b[k])
    <3>1. PICK k \in 1..Len(b) : z = Record(b[k])
      BY <2>2
    <3>2. z.at = b[k].at
      BY <3>1 DEF Record
    <3>3. PICK q \in 1..read : b[k].at = 2 * q
      BY <1>5, <3>2, ReadsUpTo
    <3> QED BY <1>5, <3>2, <3>3
  <2> QED BY <1>10, <2>1, <2>2
<1>13. ~lost' => ~lost /\ (b = <<>> => written = Nothing) /\ (written = Nothing \/ Start(buffer) # 0)
  <2>1. CASE b # <<>>
    BY <1>1, <2>1 DEF b
  <2>2. CASE b = <<>> /\ written # Nothing
    <3>1. ~(Len(b) > 0)
      BY <2>2
    <3>2. lost
      BY <1>0, <2>2, <3>1 DEF CursorInv, Cursor, b
    <3> QED BY <1>1, <3>2
  <2>3. CASE b = <<>> /\ written = Nothing
    BY <1>1, <2>3
  <2> QED BY <2>1, <2>2, <2>3
<1>14. ~lost' => /\ G \cap Seen = {}
                 /\ written # Nothing => /\ Cursor(b, log, read, written, Seen, ToSet(page), stale)
                                         /\ \E i \in 1..Len(b) : LeftAt(b, i, written)
                 /\ written = Nothing => Seen = {} /\ G = {}
  BY <1>0, <1>13, CollectedIsNew DEF G, b
<1>15. CursorInv'
  <2> SUFFICES ASSUME ~lost' PROVE IF written' = Nothing THEN Seen' = {}
                                   ELSE Cursor(b, log, read, written', Seen', ToSet(page), 0)
    BY <1>1, <1>2 DEF CursorInv, b
  <2>1. CASE b = <<>>
    <3>1. written' = Nothing /\ Seen = {} /\ ~(\E k \in 1..Len(b) : TRUE)
      BY <1>1, <1>13, <1>14, <2>1 DEF b
    <3> QED BY <1>10, <3>1
  <2>2. CASE b # <<>>
    <3>1. Seen = {} \/ (/\ Cursor(b, log, read, written, Seen, ToSet(page), stale)
                        /\ \E i \in 1..Len(b) : LeftAt(b, i, written))
      BY <1>14
    <3>2. written' = Record(b[Len(b)]) /\ written' # Nothing /\ Len(b) > 0 /\ written.at \in Nat
      BY <1>0, <1>8, <2>2, TypeIs
    <3> DEFINE w2 == written'
               Z == Seen
               Z2 == Seen'
               pg == ToSet(page)
               os == ToSet(outgoing)
    <3>3. w2 = Record(b[Len(b)]) /\ \A z \in Z2 : z \in Z \/ \E k \in 1..Len(b) : z = Record(b[k])
      BY <1>10, <3>2
    <3> HIDE DEF w2, Z, Z2, pg, os
    <3>4. Cursor(b, log, read, w2, Z2, pg, 0)
      <4>1. Z = {} \/ (Cursor(b, log, read, written, Z, pg, stale) /\ \E i \in 1..Len(b) : LeftAt(b, i, written))
        BY <3>1 DEF Z, pg
      <4>2. Ordered(b, log, pg, os)
        BY <1>5 DEF pg, os
      <4> QED BY <1>5, <3>2, <3>3, <4>1, <4>2, CollectCursor
    <3> QED BY <3>2, <3>4 DEF w2, Z2, pg
  <2> QED BY <2>1, <2>2
<1>16. OnceInv'
  <2>1. CASE store = "plaintext" /\ (failures > 0 \/ lost)
    BY <1>1, <1>2, <2>1 DEF OnceInv
  <2>2. CASE store = "plaintext" /\ lost'
    BY <1>2, <2>2 DEF OnceInv
  <2>3. CASE store # "plaintext" /\ IsInjective(file) /\ IsInjective(purging)
    BY <1>2, <2>3 DEF OnceInv
  <2>4. CASE /\ store = "plaintext" /\ ~lost' /\ IsInjective(file) /\ IsInjective(purging)
             /\ IsInjective(writing) /\ IsInjective(pending)
             /\ ToSet(file) \cap ToSet(writing) = {}
             /\ ToSet(file) \cap ToSet(pending) = {}
             /\ ToSet(writing) \cap ToSet(pending) = {}
    <3>1. /\ G \cap ToSet(file) = {} /\ G \cap ToSet(writing) = {} /\ G \cap ToSet(pending) = {}
      BY <1>14, <2>4 DEF Seen
    <3>2. IsInjective(pending')
      <4>1. IsInjective(pending \o Logged(Fresh(buffer)))
        BY <1>3, <1>6, <2>4, <3>1, SetOfJoined DEF G
      <4> QED BY <1>1, <2>4, <4>1
    <3>3. /\ ToSet(file) \cap ToSet(pending') = {}
          /\ ToSet(writing) \cap ToSet(pending') = {}
      BY <1>7, <2>4, <3>1
    <3> QED BY <1>2, <2>4, <3>2, <3>3 DEF OnceInv
  <2> QED BY <1>0, <2>1, <2>2, <2>3, <2>4 DEF OnceInv
<1>17. OutInv'
  <2> SUFFICES ASSUME ~lost' PROVE (unwanted \cup NK) \cap Standing' = {}
    BY <1>1 DEF OutInv, NK
  <2>1. unwanted \cap Standing = {} /\ unwanted \subseteq Seen
    BY <1>0, <1>13 DEF OutInv, Seen
  <2>2. enabled => NK \cap G = {}
    BY <1>4, <1>14
  <2> QED BY <1>4, <1>9, <1>14, <2>1, <2>2
<1>18. TypeOK'
  <2>1. unwanted' \in SUBSET Lines
    BY <1>1, <1>4, <1>6 DEF NK
  <2>2. stale' \in 0..Burst /\ lost' \in BOOLEAN
    BY <1>0, <1>1, TypeIs
  <2>3. /\ interface \in {"open", "closed", "closed late"} /\ store \in Stores
        /\ {broken, enabled, flushing} \subseteq BOOLEAN
        /\ buffer \in Seq([at : Nat, text : {Other} \cup Texts, pending : BOOLEAN])
        /\ Len(buffer) <= Limit /\ mishaps \in 0..Mishaps
        /\ cutoff \in Nat
        /\ {writing, file, purging} \subseteq Seq(Lines)
        /\ due \in SUBSET Lines
        /\ flushing = (writing # <<>>)
    BY <1>0 DEF TypeOK
  <2> QED BY <1>2, <1>7, <1>8, <2>1, <2>2, <2>3 DEF TypeOK
<1> QED BY <1>11, <1>12, <1>15, <1>16, <1>17, <1>18 DEF LoggingInv

----------------------------------------------------------------------------
(* Writing, and dropping what is old.                                      *)

\* What a store holds.
LEMMA StoredIs ==
    ASSUME file \in Seq(Lines), NEW r \in Seq(Lines)
    PROVE  /\ Stored(r) \in Seq(Lines) /\ ToSet(Stored(r)) = ToSet(file) \cup ToSet(r)
           /\ store # "plaintext" => IsInjective(Stored(r))
           /\ IsInjective(file) /\ IsInjective(r) /\ ToSet(file) \cap ToSet(r) = {} => IsInjective(Stored(r))
<1> DEFINE a == file \o r
<1>1. /\ a \in Seq(Lines) /\ ToSet(a) = ToSet(file) \cup ToSet(r)
      /\ IsInjective(file) /\ IsInjective(r) /\ ToSet(file) \cap ToSet(r) = {} => IsInjective(a)
  BY SetOfJoined
<1>2. Stored(r) = a \/ (store # "plaintext" /\ Stored(r) = Distinct(a))
  BY DEF Stored
<1>3. store = "plaintext" => Stored(r) = a
  BY DEF Stored
<1> HIDE DEF a
<1>4. Distinct(a) \in Seq(Lines) /\ ToSet(Distinct(a)) = ToSet(a) /\ IsInjective(Distinct(a))
  BY <1>1, DistinctIs
<1>5. store # "plaintext" => Stored(r) = Distinct(a)
  BY DEF Stored, a
<1> QED BY <1>1, <1>2, <1>3, <1>4, <1>5

\* A part of a batch.
LEMMA PartOf ==
    ASSUME NEW s \in Seq(Lines), NEW n \in 0..(Len(s) - 1)
    PROVE  SubSeq(s, 1, n) \in Seq(Lines) /\ ToSet(SubSeq(s, 1, n)) \subseteq ToSet(s)
<1> DEFINE t == SubSeq(s, 1, n)
<1>1. Len(s) \in Nat /\ n \in Nat /\ n <= Len(s)
  OBVIOUS
<1>2. t \in Seq(Lines) /\ Len(t) = n /\ \A k \in 1..n : t[k] = s[k]
  BY <1>1
<1> HIDE DEF t
<1>3. ASSUME NEW e \in ToSet(t) PROVE e \in ToSet(s)
  <2>1. PICK k \in 1..Len(t) : e = t[k]
    BY <1>2, ToSetIs
  <2>2. k \in 1..Len(s) /\ e = s[k]
    BY <1>1, <1>2, <2>1
  <2> QED BY <2>2, ToSetIs
<1>4. ToSet(t) \subseteq ToSet(s)
  BY <1>3
<1> QED BY <1>2, <1>4 DEF t

\* The store changes, and nothing comes to be seen or taken down.
LEMMA WritesKeep ==
    ASSUME LoggingInv, UNCHANGED <<server, buffer, stale, store, enabled, written, ghosts>>,
           interface' \in {"open", "closed", "closed late"}, mishaps' \in 0..Mishaps,
           broken' \in BOOLEAN, cutoff' \in Nat,
           pending' \in Seq(Lines), writing' \in Seq(Lines), file' \in Seq(Lines), purging' \in Seq(Lines),
           flushing' = (writing' # <<>>),
           Seen' \in SUBSET Seen, Standing' \in SUBSET Standing, PurgeInv', OnceInv'
    PROVE  LoggingInv'
<1>0. TypeOK /\ TalkInv /\ CursorInv /\ SeenInv /\ OutInv
  BY DEF LoggingInv
<1>1. UNCHANGED <<log, read, page, outgoing, buffer, stale, store, enabled, written, due, unwanted, lost>>
  BY DEF server, ghosts
<1>2. TalkInv'
  BY <1>0, <1>1 DEF TalkInv
<1>3. SeenInv'
  BY <1>0, <1>1 DEF SeenInv
<1>4. OutInv'
  BY <1>0, <1>1 DEF OutInv
<1>5. CursorInv'
  <2> SUFFICES ASSUME ~lost PROVE IF written = Nothing THEN Seen' = {}
                                  ELSE Cursor(buffer, log, read, written, Seen', ToSet(page), stale)
    BY <1>1 DEF CursorInv
  <2>1. CASE written = Nothing
    BY <1>0, <2>1 DEF CursorInv
  <2>2. CASE written # Nothing
    <3>1. Cursor(buffer, log, read, written, Seen, ToSet(page), stale)
      BY <1>0, <2>2 DEF CursorInv
    <3> DEFINE Z == Seen
               Z2 == Seen'
               pg == ToSet(page)
    <3>2. Cursor(buffer, log, read, written, Z, pg, stale) /\ Z2 \in SUBSET Z
      BY <3>1
    <3> HIDE DEF Z, Z2, pg
    <3>3. Cursor(buffer, log, read, written, Z2, pg, stale)
      BY <3>2, CursorLess
    <3> QED BY <2>2, <3>3 DEF Z2, pg
  <2> QED BY <2>1, <2>2
<1>6. TypeOK'
  <2>1. /\ store \in Stores /\ enabled \in BOOLEAN /\ lost \in BOOLEAN
        /\ buffer \in Seq([at : Nat, text : {Other} \cup Texts, pending : BOOLEAN])
        /\ Len(buffer) <= Limit /\ stale \in 0..Burst
        /\ written \in Lines
        /\ {due, unwanted} \subseteq SUBSET Lines
    BY <1>0 DEF TypeOK
  <2>2. flushing' \in BOOLEAN
    OBVIOUS
  <2> QED BY <1>1, <2>1, <2>2 DEF TypeOK
<1> QED BY <1>2, <1>3, <1>4, <1>5, <1>6 DEF LoggingInv

\* What the rest of the invariant says of the store and of the batches.
LEMMA StoreIs ==
    ASSUME LoggingInv
    PROVE  /\ pending \in Seq(Lines) /\ writing \in Seq(Lines) /\ file \in Seq(Lines) /\ purging \in Seq(Lines)
           /\ interface \in {"open", "closed", "closed late"} /\ mishaps \in 0..Mishaps
           /\ broken \in BOOLEAN /\ cutoff \in Nat /\ flushing = (writing # <<>>)
           /\ store \in {"sqlite", "plaintext"}
           /\ PurgeInv /\ OnceInv
BY TypeIs DEF LoggingInv, TypeOK

\* A batch is taken, with nothing being written.
LEMMA FlushKeeps ==
    ASSUME LoggingInv, Flush, UNCHANGED <<server, buffer, stale, store, enabled, disk, ghosts, mishaps>>,
           interface' \in {"open", "closed", "closed late"}
    PROVE  LoggingInv'
<1>0. /\ pending \in Seq(Lines) /\ writing \in Seq(Lines) /\ file \in Seq(Lines) /\ purging \in Seq(Lines)
      /\ mishaps \in 0..Mishaps
      /\ broken \in BOOLEAN /\ cutoff \in Nat /\ flushing = (writing # <<>>)
      /\ PurgeInv /\ OnceInv
  BY StoreIs
<1>1. /\ writing = <<>> /\ pending # <<>> /\ flushing' = TRUE /\ writing' = pending /\ pending' = <<>>
      /\ written' = written
  BY <1>0 DEF Flush, FlushDue
<1>2. UNCHANGED <<broken, failures, file, purging, cutoff, store, unwanted, lost>>
  BY DEF disk, ghosts
<1>3. ToSet(<<>>) = {} /\ IsInjective(<<>>) /\ <<>> \in Seq(Lines)
  BY SetOfNone
<1>40. ToSet(writing) = {} /\ ToSet(writing') = ToSet(pending) /\ ToSet(pending') = {} /\ IsInjective(pending')
  BY <1>1, <1>3
<1>4. Seen' \in SUBSET Seen /\ Standing' \in SUBSET Standing
  BY <1>1, <1>2, <1>40 DEF Seen, Standing
<1>5. PurgeInv'
  BY <1>0, <1>2 DEF PurgeInv
<1>6. OnceInv'
  <2>1. CASE store = "plaintext" /\ (failures > 0 \/ lost)
    BY <1>2, <2>1 DEF OnceInv
  <2>2. CASE store # "plaintext" /\ IsInjective(file) /\ IsInjective(purging)
    BY <1>2, <2>2 DEF OnceInv
  <2>3. CASE /\ IsInjective(file) /\ IsInjective(purging) /\ IsInjective(pending)
             /\ ToSet(file) \cap ToSet(pending) = {}
    BY <1>1, <1>2, <1>40, <2>3 DEF OnceInv
  <2> QED BY <1>0, <2>1, <2>2, <2>3 DEF OnceInv
<1>7. /\ pending' \in Seq(Lines) /\ writing' \in Seq(Lines) /\ file' \in Seq(Lines) /\ purging' \in Seq(Lines)
      /\ mishaps' \in 0..Mishaps /\ broken' \in BOOLEAN /\ cutoff' \in Nat /\ flushing' = (writing' # <<>>)
  BY <1>0, <1>1, <1>2, <1>3
<1> QED BY <1>1, <1>4, <1>5, <1>6, <1>7, WritesKeep

\* The timer does so,
LEMMA TimerFlushesKeeps ==
    ASSUME LoggingInv, TimerFlushes
    PROVE  LoggingInv'
<1>1. Flush /\ UNCHANGED <<server, app, disk, ghosts, mishaps>> /\ interface \in {"open", "closed", "closed late"}
  BY StoreIs DEF TimerFlushes
<1>2. UNCHANGED <<buffer, stale, interface, store, enabled>>
  BY <1>1 DEF app
<1> QED BY <1>1, <1>2, FlushKeeps

\* or the interface as it goes.
LEMMA UnmountsKeeps ==
    ASSUME LoggingInv, Unmounts
    PROVE  LoggingInv'
<1>1. /\ Flush \/ UNCHANGED progress
      /\ UNCHANGED <<server, buffer, stale, store, enabled, disk, ghosts, mishaps>>
      /\ interface' \in {"open", "closed", "closed late"}
  BY DEF Unmounts
<1>2. CASE Flush
  BY <1>1, <1>2, FlushKeeps
<1>3. CASE UNCHANGED progress
  <2>1. UNCHANGED <<written, pending, flushing, writing, broken, failures, file, purging, cutoff, unwanted, lost>>
    BY <1>1, <1>3 DEF progress, disk, ghosts
  <2>2. Seen' = Seen /\ Standing' = Standing
    BY <2>1 DEF Seen, Standing
  <2>3. PurgeInv' /\ OnceInv'
    BY <1>1, <2>1, StoreIs DEF PurgeInv, OnceInv
  <2>4. /\ pending' \in Seq(Lines) /\ writing' \in Seq(Lines) /\ file' \in Seq(Lines) /\ purging' \in Seq(Lines)
        /\ mishaps' \in 0..Mishaps /\ broken' \in BOOLEAN /\ cutoff' \in Nat /\ flushing' = (writing' # <<>>)
    BY <1>1, <2>1, StoreIs
  <2>5. Seen' \in SUBSET Seen /\ Standing' \in SUBSET Standing
    BY <2>2
  <2> QED BY <1>1, <2>1, <2>3, <2>4, <2>5, WritesKeep
<1> QED BY <1>1, <1>2, <1>3

\* An append ends well.
LEMMA AppendsKeeps ==
    ASSUME LoggingInv, Appends
    PROVE  LoggingInv'
<1>0. /\ pending \in Seq(Lines) /\ writing \in Seq(Lines) /\ file \in Seq(Lines) /\ purging \in Seq(Lines)
      /\ interface \in {"open", "closed", "closed late"} /\ mishaps \in 0..Mishaps
      /\ broken \in BOOLEAN /\ cutoff \in Nat /\ store \in {"sqlite", "plaintext"}
      /\ PurgeInv /\ OnceInv
  BY StoreIs
<1>1. /\ writing' = <<>> /\ flushing' = FALSE /\ file' = Stored(writing)
      /\ UNCHANGED <<pending, failures, broken, mishaps>>
      /\ UNCHANGED <<server, app, written, purging, cutoff, ghosts>>
  BY DEF Appends, Settles
<1>2. UNCHANGED <<buffer, stale, interface, store, enabled, unwanted, lost>>
  BY <1>1 DEF app, ghosts
<1>3. ToSet(<<>>) = {} /\ IsInjective(<<>>) /\ <<>> \in Seq(Lines)
  BY SetOfNone
<1>4. /\ file' \in Seq(Lines) /\ ToSet(file') = ToSet(file) \cup ToSet(writing)
      /\ store # "plaintext" => IsInjective(file')
      /\ IsInjective(file) /\ IsInjective(writing) /\ ToSet(file) \cap ToSet(writing) = {} => IsInjective(file')
  BY <1>0, <1>1, StoredIs
<1>40. ToSet(writing') = {} /\ IsInjective(writing')
  BY <1>1, <1>3
<1>5. Seen' \in SUBSET Seen
  BY <1>1, <1>2, <1>4, <1>40 DEF Seen
<1>6. Standing' \in SUBSET Standing
  <2>1. CASE purging = <<>>
    BY <1>1, <1>4, <1>40, <2>1 DEF Standing
  <2>2. CASE purging # <<>>
    BY <1>1, <1>40, <2>2 DEF Standing
  <2> QED BY <2>1, <2>2
<1>7. PurgeInv'
  BY <1>0, <1>1, <1>2, <1>4 DEF PurgeInv
<1>8. OnceInv'
  <2>1. CASE store = "plaintext" /\ (failures > 0 \/ lost)
    BY <1>1, <1>2, <2>1 DEF OnceInv
  <2>2. CASE store # "plaintext" /\ IsInjective(purging)
    BY <1>1, <1>2, <1>4, <2>2 DEF OnceInv
  <2>3. CASE /\ store = "plaintext" /\ IsInjective(file) /\ IsInjective(purging)
             /\ IsInjective(writing) /\ IsInjective(pending)
             /\ ToSet(file) \cap ToSet(writing) = {}
             /\ ToSet(file) \cap ToSet(pending) = {}
             /\ ToSet(writing) \cap ToSet(pending) = {}
    <3>1. ToSet(file') \cap ToSet(pending) = {} /\ ToSet(file') \cap ToSet(writing') = {}
      BY <1>4, <1>40, <2>3
    <3>2. ToSet(writing') \cap ToSet(pending) = {}
      BY <1>40
    <3> QED BY <1>1, <1>2, <1>4, <1>40, <2>3, <3>1, <3>2 DEF OnceInv
  <2> QED BY <1>0, <2>1, <2>2, <2>3 DEF OnceInv
<1>9. /\ pending' \in Seq(Lines) /\ writing' \in Seq(Lines) /\ purging' \in Seq(Lines)
      /\ mishaps' \in 0..Mishaps /\ broken' \in BOOLEAN /\ cutoff' \in Nat /\ flushing' = (writing' # <<>>)
      /\ interface' \in {"open", "closed", "closed late"}
  BY <1>0, <1>1, <1>2, <1>3
<1> QED BY <1>1, <1>2, <1>4, <1>5, <1>6, <1>7, <1>8, <1>9, WritesKeep

\* An append fails, part of the way, or as nothing can be opened.
LEMMA AppendFailsKeeps ==
    ASSUME LoggingInv, AppendFails
    PROVE  LoggingInv'
<1>0. /\ pending \in Seq(Lines) /\ writing \in Seq(Lines) /\ file \in Seq(Lines) /\ purging \in Seq(Lines)
      /\ interface \in {"open", "closed", "closed late"} /\ mishaps \in 0..Mishaps
      /\ broken \in BOOLEAN /\ cutoff \in Nat /\ store \in {"sqlite", "plaintext"}
      /\ PurgeInv /\ OnceInv /\ failures \in Nat
  BY StoreIs DEF PurgeInv
<1>1. /\ writing' = <<>> /\ flushing' = FALSE /\ pending' = writing \o pending
      /\ UNCHANGED <<server, app, written, purging, cutoff, ghosts>>
  BY DEF AppendFails, Settles
<1>2. UNCHANGED <<buffer, stale, interface, store, enabled, unwanted, lost>>
  BY <1>1 DEF app, ghosts
<1>3. ToSet(<<>>) = {} /\ IsInjective(<<>>) /\ <<>> \in Seq(Lines)
  BY SetOfNone
<1>4. pending' \in Seq(Lines) /\ ToSet(pending') = ToSet(writing) \cup ToSet(pending) /\ ToSet(writing') = {}
  <2>1. writing \o pending \in Seq(Lines) /\ ToSet(writing \o pending) = ToSet(writing) \cup ToSet(pending)
    <3>1. pending \in Seq(Lines) /\ writing \in Seq(Lines)
      BY <1>0
    <3> QED BY <3>1, SetOfJoined
  <2> QED BY <1>1, <1>3, <2>1
<1>50. failures + 1 \in Nat /\ failures + 1 > 0
  <2>1. failures \in Nat
    BY <1>0
  <2> QED BY <2>1
<1>5. /\ mishaps' \in 0..Mishaps /\ broken' \in BOOLEAN /\ failures' \in Nat
      /\ broken' => store = "sqlite"
      /\ file' \in Seq(Lines) /\ ToSet(file) \subseteq ToSet(file') /\ ToSet(file') \subseteq ToSet(file) \cup ToSet(writing)
      /\ failures' > 0 \/ (failures' = failures /\ store = "sqlite")
      /\ store # "plaintext" /\ IsInjective(file) => IsInjective(file')
  <2>1. CASE broken /\ UNCHANGED <<file, failures, broken, mishaps>>
    BY <1>0, <2>1 DEF PurgeInv
  <2>2. CASE ~broken /\ Mishap /\ failures' = failures + 1 /\ CannotOpen /\ broken' = TRUE /\ UNCHANGED file
    <3>1. mishaps' \in 0..Mishaps
      BY <2>2, BoundsAre DEF LoggingInv
    <3> QED BY <1>0, <1>50, <2>2, <3>1 DEF CannotOpen
  <2>3. ASSUME ~broken, Mishap, failures' = failures + 1, NEW n \in 0..(Len(writing) - 1),
               file' = Stored(SubSeq(writing, 1, n)), UNCHANGED broken
        PROVE  /\ mishaps' \in 0..Mishaps /\ broken' \in BOOLEAN /\ failures' \in Nat
               /\ broken' => store = "sqlite"
               /\ file' \in Seq(Lines) /\ ToSet(file) \subseteq ToSet(file')
               /\ ToSet(file') \subseteq ToSet(file) \cup ToSet(writing)
               /\ failures' > 0
               /\ store # "plaintext" => IsInjective(file')
    <3>1. mishaps' \in 0..Mishaps
      BY <2>3, BoundsAre DEF LoggingInv
    <3> DEFINE t == SubSeq(writing, 1, n)
    <3>2. t \in Seq(Lines) /\ ToSet(t) \subseteq ToSet(writing)
      BY <1>0, PartOf
    <3>3. file' = Stored(t)
      BY <2>3
    <3> HIDE DEF t
    <3>4. /\ file' \in Seq(Lines) /\ ToSet(file') = ToSet(file) \cup ToSet(t)
          /\ store # "plaintext" => IsInjective(file')
      BY <1>0, <3>2, <3>3, StoredIs
    <3>5. failures' > 0 /\ failures' \in Nat
      BY <1>50, <2>3
    <3> QED BY <1>0, <2>3, <3>1, <3>2, <3>4, <3>5 DEF PurgeInv
  <2> QED BY <2>1, <2>2, <2>3 DEF AppendFails
<1>6. Seen' \in SUBSET Seen
  BY <1>1, <1>2, <1>4, <1>5 DEF Seen
<1>7. Standing' \in SUBSET Standing
  <2>1. CASE purging = <<>>
    BY <1>1, <1>4, <1>5, <2>1 DEF Standing
  <2>2. CASE purging # <<>>
    BY <1>1, <1>4, <2>2 DEF Standing
  <2> QED BY <2>1, <2>2
<1>8. PurgeInv'
  BY <1>0, <1>1, <1>2, <1>5 DEF PurgeInv
<1>9. OnceInv'
  <2>1. CASE store = "plaintext"
    <3>1. failures' > 0
      BY <1>5, <2>1
    <3> QED BY <1>2, <2>1, <3>1 DEF OnceInv
  <2>2. CASE store # "plaintext"
    <3>1. IsInjective(file) /\ IsInjective(purging)
      BY <1>0, <2>2 DEF OnceInv
    <3>2. IsInjective(file') /\ IsInjective(purging') /\ store' # "plaintext"
      BY <1>1, <1>2, <1>5, <2>2, <3>1
    <3> QED BY <3>2 DEF OnceInv
  <2> QED BY <2>1, <2>2
<1>10. /\ writing' \in Seq(Lines) /\ purging' \in Seq(Lines)
       /\ cutoff' \in Nat /\ flushing' = (writing' # <<>>)
       /\ interface' \in {"open", "closed", "closed late"}
  BY <1>0, <1>1, <1>2, <1>3
<1> QED BY <1>1, <1>2, <1>4, <1>5, <1>6, <1>7, <1>8, <1>9, <1>10, WritesKeep

\* What a purge keeps.
LEMMA KeptIs ==
    ASSUME file \in Seq(Lines), NEW at
    PROVE  /\ Kept(at) \in Seq(Lines) /\ ToSet(Kept(at)) \subseteq ToSet(file)
           /\ IsInjective(file) => IsInjective(Kept(at))
<1> DEFINE S == {r \in ToSet(file) : r.at >= at}
<1>1. Kept(at) = Those(file, S)
  BY DEF Kept
<1> HIDE DEF S
<1>2. /\ Those(file, S) \in Seq(Lines) /\ ToSet(Those(file, S)) = ToSet(file) \cap S
      /\ IsInjective(file) => IsInjective(Those(file, S))
  BY ThoseIs
<1> QED BY <1>1, <1>2

\* Everything a purge starts from.
LEMMA DropsIs ==
    ASSUME LoggingInv, NEW at \in Nat, Drops(at)
    PROVE  /\ pending \in Seq(Lines) /\ writing \in Seq(Lines) /\ file \in Seq(Lines) /\ purging = <<>>
           /\ PurgeInv /\ OnceInv
           /\ UNCHANGED <<server, buffer, stale, store, enabled, written, ghosts>>
           /\ UNCHANGED <<pending, writing, failures, unwanted, lost>>
           /\ pending' \in Seq(Lines) /\ writing' \in Seq(Lines) /\ cutoff' \in Nat
           /\ mishaps' \in 0..Mishaps /\ broken' \in BOOLEAN /\ flushing' = (writing' # <<>>)
           /\ interface' \in {"open", "closed", "closed late"} /\ broken' = broken
           /\ Kept(at) \in Seq(Lines) /\ ToSet(Kept(at)) \subseteq ToSet(file)
           /\ IsInjective(file) => IsInjective(Kept(at))
           /\ ToSet(<<>>) = {} /\ IsInjective(<<>>) /\ <<>> \in Seq(Lines)
<1>1. /\ purging = <<>> /\ cutoff' = at
      /\ UNCHANGED <<server, app, progress, broken, failures, ghosts, mishaps>>
  BY DEF Drops
<1>2. UNCHANGED <<buffer, stale, interface, store, enabled, written, pending, flushing, writing, unwanted, lost>>
  BY <1>1 DEF app, progress, ghosts
<1>3. /\ pending \in Seq(Lines) /\ writing \in Seq(Lines) /\ file \in Seq(Lines)
      /\ interface \in {"open", "closed", "closed late"} /\ mishaps \in 0..Mishaps
      /\ broken \in BOOLEAN /\ flushing = (writing # <<>>)
      /\ PurgeInv /\ OnceInv
  BY StoreIs
<1>4. /\ Kept(at) \in Seq(Lines) /\ ToSet(Kept(at)) \subseteq ToSet(file)
      /\ IsInjective(file) => IsInjective(Kept(at))
  BY <1>3, KeptIs
<1> QED BY <1>1, <1>2, <1>3, <1>4, SetOfNone

\* What is too old is dropped at once,
LEMMA PurgesAtOnceKeeps ==
    ASSUME LoggingInv, NEW at \in Nat, PurgesAtOnce(at)
    PROVE  LoggingInv'
<1>1. Drops(at) /\ file' = Kept(at) /\ purging' = purging
  BY DEF PurgesAtOnce
<1>2. /\ pending \in Seq(Lines) /\ writing \in Seq(Lines) /\ file \in Seq(Lines) /\ purging = <<>>
      /\ PurgeInv /\ OnceInv
      /\ UNCHANGED <<server, buffer, stale, store, enabled, written, ghosts>>
      /\ UNCHANGED <<pending, writing, failures, unwanted, lost>>
      /\ pending' \in Seq(Lines) /\ writing' \in Seq(Lines) /\ cutoff' \in Nat
      /\ mishaps' \in 0..Mishaps /\ broken' \in BOOLEAN /\ flushing' = (writing' # <<>>)
      /\ interface' \in {"open", "closed", "closed late"} /\ broken' = broken
      /\ Kept(at) \in Seq(Lines) /\ ToSet(Kept(at)) \subseteq ToSet(file)
      /\ IsInjective(file) => IsInjective(Kept(at))
      /\ ToSet(<<>>) = {} /\ IsInjective(<<>>) /\ <<>> \in Seq(Lines)
  BY <1>1, DropsIs
<1>3. /\ file' \in Seq(Lines) /\ ToSet(file') \subseteq ToSet(file) /\ purging' = <<>>
      /\ IsInjective(file) => IsInjective(file')
      /\ store' = store
  BY <1>1, <1>2
<1>4. Seen' \in SUBSET Seen /\ Standing' \in SUBSET Standing
  BY <1>2, <1>3 DEF Seen, Standing
<1>5. PurgeInv'
  BY <1>2, <1>3 DEF PurgeInv
<1>6. OnceInv'
  <2>1. CASE store = "plaintext" /\ (failures > 0 \/ lost)
    BY <1>2, <1>3, <2>1 DEF OnceInv
  <2>2. CASE /\ IsInjective(file) /\ IsInjective(purging)
             /\ store = "plaintext" => /\ IsInjective(writing) /\ IsInjective(pending)
                                       /\ ToSet(file) \cap ToSet(writing) = {}
                                       /\ ToSet(file) \cap ToSet(pending) = {}
                                       /\ ToSet(writing) \cap ToSet(pending) = {}
    <3>1. /\ ToSet(file) \cap ToSet(writing) = {} => ToSet(file') \cap ToSet(writing) = {}
          /\ ToSet(file) \cap ToSet(pending) = {} => ToSet(file') \cap ToSet(pending) = {}
      BY <1>3
    <3> QED BY <1>2, <1>3, <2>2, <3>1 DEF OnceInv
  <2> QED BY <1>2, <2>1, <2>2 DEF OnceInv
<1>7. purging' \in Seq(Lines)
  BY <1>2, <1>3
<1> QED BY <1>2, <1>3, <1>4, <1>5, <1>6, <1>7, WritesKeep

\* or what is not is read,
LEMMA PurgeReadsKeeps ==
    ASSUME LoggingInv, NEW at \in Nat, PurgeReads(at)
    PROVE  LoggingInv'
<1>1. Drops(at) /\ purging' = Kept(at) /\ file' = file /\ store = "plaintext"
  BY DEF PurgeReads
<1>2. /\ pending \in Seq(Lines) /\ writing \in Seq(Lines) /\ file \in Seq(Lines) /\ purging = <<>>
      /\ PurgeInv /\ OnceInv
      /\ UNCHANGED <<server, buffer, stale, store, enabled, written, ghosts>>
      /\ UNCHANGED <<pending, writing, failures, unwanted, lost>>
      /\ pending' \in Seq(Lines) /\ writing' \in Seq(Lines) /\ cutoff' \in Nat
      /\ mishaps' \in 0..Mishaps /\ broken' \in BOOLEAN /\ flushing' = (writing' # <<>>)
      /\ interface' \in {"open", "closed", "closed late"} /\ broken' = broken
      /\ Kept(at) \in Seq(Lines) /\ ToSet(Kept(at)) \subseteq ToSet(file)
      /\ IsInjective(file) => IsInjective(Kept(at))
      /\ ToSet(<<>>) = {} /\ IsInjective(<<>>) /\ <<>> \in Seq(Lines)
  BY <1>1, DropsIs
<1>3. /\ purging' \in Seq(Lines) /\ ToSet(purging') \subseteq ToSet(file)
      /\ IsInjective(file) => IsInjective(purging')
      /\ store' = store
  BY <1>1, <1>2
<1>4. Seen' \in SUBSET Seen
  BY <1>1, <1>2 DEF Seen
<1>40. Standing' \in SUBSET Standing
  <2>1. Standing = ToSet(file) \cup ToSet(writing) \cup ToSet(pending)
    BY <1>2 DEF Standing
  <2>2. Standing' \subseteq ToSet(file) \cup ToSet(purging') \cup ToSet(writing) \cup ToSet(pending)
    BY <1>1, <1>2 DEF Standing
  <2> QED BY <1>3, <2>1, <2>2
<1>5. PurgeInv'
  BY <1>1, <1>2, <1>3 DEF PurgeInv
<1>6. OnceInv'
  BY <1>1, <1>2, <1>3 DEF OnceInv
<1>7. file' \in Seq(Lines)
  BY <1>1, <1>2
<1> QED BY <1>2, <1>3, <1>4, <1>40, <1>5, <1>6, <1>7, WritesKeep

\* and written again.
LEMMA PurgeWritesKeeps ==
    ASSUME LoggingInv, PurgeWrites
    PROVE  LoggingInv'
<1>0. /\ pending \in Seq(Lines) /\ writing \in Seq(Lines) /\ file \in Seq(Lines) /\ purging \in Seq(Lines)
      /\ interface \in {"open", "closed", "closed late"} /\ mishaps \in 0..Mishaps
      /\ broken \in BOOLEAN /\ cutoff \in Nat /\ flushing = (writing # <<>>)
      /\ PurgeInv /\ OnceInv
  BY StoreIs
<1>1. /\ purging # <<>> /\ file' = purging /\ purging' = <<>>
      /\ UNCHANGED <<server, app, progress, broken, failures, cutoff, ghosts, mishaps>>
  BY DEF PurgeWrites
<1>2. UNCHANGED <<buffer, stale, interface, store, enabled, written, pending, flushing, writing, unwanted, lost>>
  BY <1>1 DEF app, progress, ghosts
<1>3. /\ ToSet(purging') = {} /\ IsInjective(purging') /\ purging' \in Seq(Lines)
      /\ ToSet(file') \subseteq ToSet(file)
  BY <1>0, <1>1, SetOfNone DEF PurgeInv
<1>4. Seen' \in SUBSET Seen
  BY <1>2, <1>3 DEF Seen
<1>40. Standing' \in SUBSET Standing
  BY <1>1, <1>2 DEF Standing
<1>5. PurgeInv'
  BY <1>0, <1>1, <1>2, <1>3 DEF PurgeInv
<1>6. OnceInv'
  <2>1. CASE store = "plaintext" /\ (failures > 0 \/ lost)
    BY <1>1, <1>2, <2>1 DEF OnceInv
  <2>2. CASE /\ IsInjective(file) /\ IsInjective(purging)
             /\ store = "plaintext" => /\ IsInjective(writing) /\ IsInjective(pending)
                                       /\ ToSet(file) \cap ToSet(writing) = {}
                                       /\ ToSet(file) \cap ToSet(pending) = {}
                                       /\ ToSet(writing) \cap ToSet(pending) = {}
    <3>1. /\ ToSet(file) \cap ToSet(writing) = {} => ToSet(file') \cap ToSet(writing) = {}
          /\ ToSet(file) \cap ToSet(pending) = {} => ToSet(file') \cap ToSet(pending) = {}
      BY <1>3
    <3> QED BY <1>1, <1>2, <1>3, <2>2, <3>1 DEF OnceInv
  <2> QED BY <1>0, <2>1, <2>2 DEF OnceInv
<1>7. /\ file' \in Seq(Lines) /\ pending' \in Seq(Lines) /\ writing' \in Seq(Lines)
      /\ cutoff' \in Nat /\ mishaps' \in 0..Mishaps /\ broken' \in BOOLEAN /\ flushing' = (writing' # <<>>)
      /\ interface' \in {"open", "closed", "closed late"}
  BY <1>0, <1>1, <1>2
<1> QED BY <1>1, <1>2, <1>3, <1>4, <1>40, <1>5, <1>6, <1>7, WritesKeep

----------------------------------------------------------------------------
(* It always holds.                                                        *)

\* It holds at first.
LEMMA LoggingStarts == Init => LoggingInv
<1> SUFFICES ASSUME Init PROVE LoggingInv
  OBVIOUS
<1>1. /\ log = <<>> /\ read = 0 /\ page = <<>> /\ outgoing = <<>>
      /\ buffer = <<>> /\ stale = 0
      /\ interface = "open" /\ store \in Stores /\ enabled \in BOOLEAN
      /\ written = Nothing /\ pending = <<>> /\ flushing = FALSE /\ writing = <<>>
      /\ broken = FALSE /\ failures = 0 /\ file = <<>> /\ purging = <<>> /\ cutoff = 0
      /\ due = {} /\ unwanted = {} /\ lost = FALSE /\ mishaps = 0
  BY DEF Init
<1>2. ToSet(<<>>) = {} /\ IsInjective(<<>>) /\ \A T : <<>> \in Seq(T)
  BY SetOfNone
<1>3. Len(<<>>) = 0 /\ \A i : i \notin 1..Len(<<>>)
  OBVIOUS
<1>4. Nothing \in Lines
  BY DEF Nothing, Lines
<1>5. Limit \in Nat /\ Burst \in Nat /\ Mishaps \in Nat
  BY BufferAssumption, LoggingAssumption
<1>6. TypeOK
  <2>1. /\ buffer \in Seq([at : Nat, text : {Other} \cup Texts, pending : BOOLEAN])
        /\ Len(buffer) <= Limit /\ stale \in 0..Burst /\ mishaps \in 0..Mishaps
        /\ {pending, writing, file, purging} \subseteq Seq(Lines)
    BY <1>1, <1>2, <1>3, <1>5
  <2>2. /\ interface \in {"open", "closed", "closed late"} /\ store \in Stores
        /\ {broken, enabled, flushing, lost} \subseteq BOOLEAN
        /\ written \in Lines /\ cutoff \in Nat
        /\ {due, unwanted} \subseteq SUBSET Lines
        /\ flushing = (writing # <<>>)
    BY <1>1, <1>4
  <2> QED BY <2>1, <2>2 DEF TypeOK
<1>7. TalkInv
  <2>1. Ordered(<<>>, log, ToSet(page), ToSet(outgoing))
    BY NoneOrdered
  <2>2. Shows(<<>>, log, read)
    BY <1>3 DEF Shows
  <2>3. read \in 0..Len(log) /\ Len(outgoing) <= 1 /\ Len(buffer) <= Limit
    BY <1>1, <1>3, <1>5
  <2>4. /\ \A i \in 1..Len(log) : log[i] \notin ToSet(outgoing)
        /\ \A p, q \in 1..Len(log) : log[p] \in Texts /\ log[p] = log[q] => p = q
    BY <1>1, <1>3
  <2>5. /\ log \in Seq({Other} \cup Texts) /\ buffer \in Seq(Entries)
        /\ page \in Seq(Nat) /\ IsInjective(page) /\ ToSet(page) \subseteq 1..read
        /\ outgoing \in Seq(Texts)
    BY <1>1, <1>2
  <2> QED BY <1>1, <2>1, <2>2, <2>3, <2>4, <2>5 DEF TalkInv
<1>8. Seen = {} /\ Standing = {}
  BY <1>1, <1>2 DEF Seen, Standing
<1>9. SeenInv /\ CursorInv /\ OutInv
  BY <1>1, <1>8 DEF SeenInv, CursorInv, OutInv
<1>10. PurgeInv
  BY <1>1, <1>2 DEF PurgeInv
<1>11. OnceInv
  <2>1. /\ IsInjective(file) /\ IsInjective(purging) /\ IsInjective(writing) /\ IsInjective(pending)
        /\ ToSet(file) = {} /\ ToSet(writing) = {}
    BY <1>1, <1>2
  <2> QED BY <2>1 DEF OnceInv
<1> QED BY <1>6, <1>7, <1>9, <1>10, <1>11 DEF LoggingInv

\* Nothing happens.
LEMMA LoggingStands ==
    ASSUME LoggingInv, UNCHANGED vars
    PROVE  LoggingInv'
<1>1. UNCHANGED <<server, app, progress, disk, ghosts, mishaps>>
  BY DEF vars
<1>2. UNCHANGED <<buffer, stale, interface, store, enabled, written, pending, flushing, writing,
                  broken, failures, file, purging, cutoff, unwanted, lost, mishaps>>
  BY <1>1 DEF app, progress, disk, ghosts
<1>3. Seen' = Seen /\ Standing' = Standing
  BY <1>2 DEF Seen, Standing
<1>4. Seen' \in SUBSET Seen /\ Standing' \in SUBSET Standing
  BY <1>3
<1>5. PurgeInv' /\ OnceInv'
  BY <1>2, StoreIs DEF PurgeInv, OnceInv
<1>6. /\ pending' \in Seq(Lines) /\ writing' \in Seq(Lines) /\ file' \in Seq(Lines) /\ purging' \in Seq(Lines)
      /\ mishaps' \in 0..Mishaps /\ broken' \in BOOLEAN /\ cutoff' \in Nat /\ flushing' = (writing' # <<>>)
      /\ interface' \in {"open", "closed", "closed late"}
  BY <1>2, StoreIs
<1> QED BY <1>1, <1>2, <1>4, <1>5, <1>6, WritesKeep

\* Every step keeps it.
LEMMA LoggingKeeps == LoggingInv /\ [Next]_vars => LoggingInv'
<1> SUFFICES ASSUME LoggingInv, [Next]_vars PROVE LoggingInv'
  OBVIOUS
<1>1. CASE ReadsLive
  BY <1>1, ReadsLiveKeeps
<1>2. CASE ReadsPage
  BY <1>2, ReadsPageKeeps
<1>3. CASE AsksOlder
  BY <1>3, AsksOlderKeeps
<1>4. CASE \E t \in Texts : Speaks(t)
  BY <1>4, SpeaksKeeps
<1>5. CASE Said
  BY <1>5, SaidAlsoKeeps
<1>6. CASE Leaves
  BY <1>6, LeavesKeeps
<1>7. CASE Returns
  BY <1>7, ReturnsKeeps
<1>8. CASE Restarts
  BY <1>8, RestartsKeeps
<1>9. CASE Switches
  BY <1>9, SwitchesKeeps
<1>10. CASE Collect
  BY <1>10, CollectKeeps
<1>11. CASE TimerFlushes
  BY <1>11, TimerFlushesKeeps
<1>12. CASE Unmounts
  BY <1>12, UnmountsKeeps
<1>13. CASE Appends
  BY <1>13, AppendsKeeps
<1>14. CASE AppendFails
  BY <1>14, AppendFailsKeeps
<1>15. CASE \E at \in {r.at + 1 : r \in ToSet(file)} \cup {cutoff} : PurgesAtOnce(at) \/ PurgeReads(at)
  <2>1. PICK at \in {r.at + 1 : r \in ToSet(file)} \cup {cutoff} : PurgesAtOnce(at) \/ PurgeReads(at)
    BY <1>15
  <2>2. at \in Nat
    <3>1. \A r \in ToSet(file) : r.at \in Nat
      BY SeenTyped DEF LoggingInv, Seen
    <3>2. cutoff \in Nat
      BY StoreIs
    <3> QED BY <3>1, <3>2
  <2> QED BY <2>1, <2>2, PurgesAtOnceKeeps, PurgeReadsKeeps
<1>16. CASE PurgeWrites
  BY <1>16, PurgeWritesKeeps
<1>17. CASE UNCHANGED vars
  BY <1>17, LoggingStands
<1> QED BY <1>1, <1>2, <1>3, <1>4, <1>5, <1>6, <1>7, <1>8, <1>9, <1>10, <1>11, <1>12, <1>13, <1>14,
           <1>15, <1>16, <1>17 DEF Next

\* What is asked of it.
LEMMA LoggingSays == LoggingInv => OnlyWanted
<1> SUFFICES ASSUME LoggingInv PROVE OnlyWanted
  OBVIOUS
<1>1. TypeOK /\ OnceInv /\ OutInv
  BY DEF LoggingInv
<1>2. StoredOnce
  BY <1>1 DEF OnceInv, StoredOnce
<1>3. UnwantedStaysOut
  BY <1>1, TakenDownIs DEF OutInv, UnwantedStaysOut
<1> QED BY <1>1, <1>2, <1>3 DEF OnlyWanted

\* What is in the log is there once, and what was said before the log was kept, or
\* while it was off, stays out of it: whatever is retried, echoed, paged in or purged.
THEOREM LoggedOnlyWanted == Spec => []OnlyWanted
<1>1. Spec => []LoggingInv
  BY LoggingStarts, LoggingKeeps, PTL DEF Spec
<1> QED BY <1>1, LoggingSays, PTL

----------------------------------------------------------------------------
(* Distinct, one part after the other.                                     *)

\* x is taken behind d, unless it is there.
Took(x, d, e) == IF x \in ToSet(d) THEN e = d ELSE e = Append(d, x)

\* All of t is, one after the other: f is what that has come to.
WeedsBy(f, d, t, T) ==
    /\ f[0] = d /\ \A k \in 0..Len(t) : f[k] \in Seq(T)
    /\ \A k \in 1..Len(t) : Took(t[k], f[k - 1], f[k])

\* t goes behind d, without what is there already, and comes to e.
Weeded(d, t, e, T) == \E f : WeedsBy(f, d, t, T) /\ e = f[Len(t)]

\* That is what Distinct does.
LEMMA DistinctRuns ==
    ASSUME NEW T, NEW s \in Seq(T)
    PROVE  Weeded(<<>>, s, Distinct(s), T)
<1>0. /\ Len(s) \in Nat /\ \A k \in 1..Len(s) : s[k] \in T
      /\ DOMAIN s = 1..Len(s)
  BY ToSetIs
<1>a. CASE ~IsInjective(s)
  <2>1. PICK f : /\ \A k \in 0..Len(s) : f[k] \in Seq(T)
                 /\ f[0] = <<>> /\ f[Len(s)] = Distinct(s)
                 /\ \A k \in 1..Len(s) : f[k] = IF s[k] \in ToSet(f[k - 1]) THEN f[k - 1] ELSE Append(f[k - 1], s[k])
    BY <1>a, DistinctSteps
  <2>2. \A k \in 1..Len(s) : Took(s[k], f[k - 1], f[k])
    BY <2>1 DEF Took
  <2>3. WeedsBy(f, <<>>, s, T)
    BY <2>1, <2>2 DEF WeedsBy
  <2> QED BY <2>1, <2>3 DEF Weeded
<1>b. CASE IsInjective(s)
  <2> DEFINE f == [k \in 0..Len(s) |-> SubSeq(s, 1, k)]
  <2>1. ASSUME NEW k \in 0..Len(s)
        PROVE  f[k] \in Seq(T) /\ Len(f[k]) = k /\ \A i \in 1..k : f[k][i] = s[i]
    BY <1>0
  <2>2. ASSUME NEW k \in 1..Len(s) PROVE Took(s[k], f[k - 1], f[k])
    <3>1. k - 1 \in 0..Len(s) /\ k \in 0..Len(s) /\ k \in Nat /\ (k - 1) + 1 = k /\ s[k] \in T
      BY <1>0
    <3>2. /\ f[k - 1] \in Seq(T) /\ Len(f[k - 1]) = k - 1 /\ \A i \in 1..(k - 1) : f[k - 1][i] = s[i]
          /\ f[k] \in Seq(T) /\ Len(f[k]) = k /\ \A i \in 1..k : f[k][i] = s[i]
      BY <2>1, <3>1
    <3> HIDE DEF f
    <3>3. s[k] \notin ToSet(f[k - 1])
      <4> SUFFICES ASSUME s[k] \in ToSet(f[k - 1]) PROVE FALSE
        OBVIOUS
      <4>1. PICK i \in 1..(k - 1) : s[k] = f[k - 1][i]
        BY <3>2, ToSetIs
      <4>2. i \in 1..Len(s) /\ i # k /\ s[i] = s[k]
        BY <1>0, <3>2, <4>1
      <4> QED BY <1>0, <1>b, <4>2 DEF IsInjective
    <3>4. f[k] = Append(f[k - 1], s[k])
      <4> DEFINE u == f[k]
                 v == f[k - 1]
                 a == Append(v, s[k])
      <4>1. /\ a \in Seq(T) /\ Len(a) = k /\ a[k] = s[k]
            /\ \A i \in 1..(k - 1) : a[i] = s[i]
        <5>1. v \in Seq(T) /\ Len(v) = k - 1
          BY <3>2
        <5> HIDE DEF v
        <5>2. /\ a \in Seq(T) /\ Len(a) = Len(v) + 1 /\ \A i \in 1..Len(v) : a[i] = v[i]
              /\ a[Len(v) + 1] = s[k]
          BY <3>1, <5>1, AppendIs
        <5> QED BY <3>1, <3>2, <5>1, <5>2 DEF v
      <4>2. \A i \in 1..k : i \in 1..(k - 1) \/ i = k
        BY <3>1
      <4> HIDE DEF a
      <4>3. \A i \in 1..k : a[i] = u[i]
        BY <3>1, <3>2, <4>1, <4>2
      <4>4. u \in Seq(T) /\ Len(u) = k
        BY <3>2
      <4> HIDE DEF u
      <4>5. a = u
        BY <4>1, <4>3, <4>4
      <4> QED BY <4>5 DEF a, u, v
    <3> QED BY <3>3, <3>4 DEF Took
  <2>3. f[0] = <<>> /\ f[Len(s)] = s /\ Distinct(s) = s
    <3>1. 0 \in 0..Len(s) /\ Len(s) \in 0..Len(s)
      BY <1>0
    <3>2. f[0] = <<>>
      BY <1>0, <3>1
    <3>3. f[Len(s)] = s
      <4>1. f[Len(s)] \in Seq(T) /\ Len(f[Len(s)]) = Len(s) /\ \A i \in 1..Len(s) : f[Len(s)][i] = s[i]
        BY <2>1, <3>1
      <4> HIDE DEF f
      <4> QED BY <4>1
    <3> QED BY <1>b, <3>2, <3>3 DEF Distinct
  <2> HIDE DEF f
  <2>4. WeedsBy(f, <<>>, s, T)
    BY <2>1, <2>2, <2>3 DEF WeedsBy
  <2> QED BY <2>3, <2>4 DEF Weeded
<1> QED BY <1>a, <1>b

\* It comes to one thing only,
LEMMA WeededOnce ==
    ASSUME NEW T, NEW d, NEW t \in Seq(T), NEW e, NEW e2, Weeded(d, t, e, T), Weeded(d, t, e2, T)
    PROVE  e = e2
<1>0. Len(t) \in Nat
  OBVIOUS
<1>1. PICK f : WeedsBy(f, d, t, T) /\ e = f[Len(t)]
  BY DEF Weeded
<1>2. PICK g : WeedsBy(g, d, t, T) /\ e2 = g[Len(t)]
  BY DEF Weeded
<1> DEFINE G == {k \in 0..Len(t) : f[k] = g[k]}
<1>3. 0 \in G
  BY <1>0, <1>1, <1>2 DEF WeedsBy
<1>4. ASSUME NEW k \in 1..Len(t), k - 1 \in G PROVE k \in G
  <2>1. Took(t[k], f[k - 1], f[k]) /\ Took(t[k], g[k - 1], g[k]) /\ f[k - 1] = g[k - 1]
    BY <1>1, <1>2, <1>4 DEF WeedsBy
  <2>2. f[k] = g[k]
    BY <2>1 DEF Took
  <2> QED BY <2>2
<1>5. Len(t) \in G
  <2> HIDE DEF G
  <2>1. 0..Len(t) \subseteq G
    BY <1>0, <1>3, <1>4, UpTo
  <2> QED BY <1>0, <2>1
<1> QED BY <1>1, <1>2, <1>5

\* one part after the other.
LEMMA WeededInParts ==
    ASSUME NEW T, NEW d, NEW s \in Seq(T), NEW t \in Seq(T), NEW e, Weeded(d, s \o t, e, T)
    PROVE  \E m \in Seq(T) : Weeded(d, s, m, T) /\ Weeded(m, t, e, T)
<1> DEFINE a == s \o t
<1>0. /\ Len(s) \in Nat /\ Len(t) \in Nat /\ Len(a) = Len(s) + Len(t)
      /\ \A i \in 1..Len(s) : a[i] = s[i]
      /\ \A i \in 1..Len(t) : a[Len(s) + i] = t[i]
  BY Joined
<1> HIDE DEF a
<1>1. PICK f : WeedsBy(f, d, a, T) /\ e = f[Len(a)]
  BY DEF Weeded, a
<1>2. /\ f[0] = d /\ \A k \in 0..Len(a) : f[k] \in Seq(T)
      /\ \A k \in 1..Len(a) : Took(a[k], f[k - 1], f[k])
  BY <1>1 DEF WeedsBy
<1> DEFINE m == f[Len(s)]
           g == [k \in 0..Len(t) |-> f[Len(s) + k]]
<1>3. m \in Seq(T)
  BY <1>0, <1>2
<1>4. Weeded(d, s, m, T)
  <2>1. \A k \in 0..Len(s) : f[k] \in Seq(T)
    BY <1>0, <1>2
  <2>2. \A k \in 1..Len(s) : Took(s[k], f[k - 1], f[k])
    BY <1>0, <1>2
  <2>3. WeedsBy(f, d, s, T)
    BY <1>2, <2>1, <2>2 DEF WeedsBy
  <2> QED BY <2>3 DEF Weeded
<1>5. Weeded(m, t, e, T)
  <2>1. \A k \in 0..Len(t) : g[k] = f[Len(s) + k] /\ Len(s) + k \in 0..Len(a)
    BY <1>0
  <2>2. g[0] = m /\ g[Len(t)] = e
    BY <1>0, <1>1, <2>1
  <2>3. ASSUME NEW k \in 1..Len(t) PROVE Took(t[k], g[k - 1], g[k])
    <3>1. k - 1 \in 0..Len(t) /\ k \in 0..Len(t) /\ Len(s) + k \in 1..Len(a) /\ (Len(s) + k) - 1 = Len(s) + (k - 1)
      BY <1>0
    <3>2. Took(a[Len(s) + k], f[Len(s) + (k - 1)], f[Len(s) + k])
      BY <1>2, <3>1
    <3> QED BY <1>0, <2>1, <3>1, <3>2
  <2>4. \A k \in 0..Len(t) : g[k] \in Seq(T)
    BY <1>2, <2>1
  <2> HIDE DEF g, m
  <2>5. WeedsBy(g, m, t, T)
    BY <2>2, <2>3, <2>4 DEF WeedsBy
  <2> QED BY <2>2, <2>5 DEF Weeded
<1> QED BY <1>3, <1>4, <1>5

\* What is there already changes nothing,
LEMMA WeededOut ==
    ASSUME NEW T, NEW d \in Seq(T), NEW t \in Seq(T), ToSet(t) \subseteq ToSet(d)
    PROVE  Weeded(d, t, d, T)
<1> DEFINE f == [k \in 0..Len(t) |-> d]
<1>0. Len(t) \in Nat /\ \A k \in 1..Len(t) : t[k] \in ToSet(d) /\ k - 1 \in 0..Len(t) /\ k \in 0..Len(t)
  BY ToSetIs
<1>1. \A k \in 0..Len(t) : f[k] = d
  OBVIOUS
<1> HIDE DEF f
<1>2. 0 \in 0..Len(t) /\ Len(t) \in 0..Len(t)
  BY <1>0
<1>3. \A k \in 1..Len(t) : Took(t[k], f[k - 1], f[k])
  BY <1>0, <1>1 DEF Took
<1>4. WeedsBy(f, d, t, T)
  BY <1>1, <1>2, <1>3 DEF WeedsBy
<1>5. d = f[Len(t)]
  BY <1>1, <1>2
<1> QED BY <1>4, <1>5 DEF Weeded

\* and what is there stays in front.
LEMMA WeededInFront ==
    ASSUME NEW T, NEW d \in Seq(T), NEW t \in Seq(T), NEW e, Weeded(d, t, e, T)
    PROVE  e \in Seq(T) /\ Len(d) <= Len(e) /\ \A i \in 1..Len(d) : e[i] = d[i]
<1>0. Len(t) \in Nat /\ Len(d) \in Nat
  OBVIOUS
<1>1. PICK f : WeedsBy(f, d, t, T) /\ e = f[Len(t)]
  BY DEF Weeded
<1>2. /\ f[0] = d /\ \A k \in 0..Len(t) : f[k] \in Seq(T)
      /\ \A k \in 1..Len(t) : Took(t[k], f[k - 1], f[k])
  BY <1>1 DEF WeedsBy
<1> DEFINE G == {k \in 0..Len(t) : Len(d) <= Len(f[k]) /\ \A i \in 1..Len(d) : f[k][i] = d[i]}
<1>3. 0 \in G
  BY <1>0, <1>2
<1>4. ASSUME NEW k \in 1..Len(t), k - 1 \in G PROVE k \in G
  <2>1. /\ k - 1 \in 0..Len(t) /\ k \in 0..Len(t) /\ f[k - 1] \in Seq(T) /\ t[k] \in T
        /\ Len(d) <= Len(f[k - 1]) /\ \A i \in 1..Len(d) : f[k - 1][i] = d[i]
    BY <1>0, <1>2, <1>4
  <2>2. CASE f[k] = f[k - 1]
    BY <2>1, <2>2
  <2>3. CASE f[k] = Append(f[k - 1], t[k])
    <3> DEFINE u == f[k - 1]
               v == f[k]
               x == t[k]
    <3>1. u \in Seq(T) /\ x \in T /\ v = Append(u, x) /\ Len(d) <= Len(u) /\ \A i \in 1..Len(d) : u[i] = d[i]
      BY <2>1, <2>3
    <3> HIDE DEF u, v, x
    <3>2. Len(v) = Len(u) + 1 /\ Len(u) \in Nat /\ \A i \in 1..Len(u) : v[i] = u[i]
      BY <3>1, AppendIs
    <3>3. Len(d) <= Len(v) /\ \A i \in 1..Len(d) : v[i] = d[i]
      BY <1>0, <3>1, <3>2
    <3> QED BY <2>1, <3>3 DEF v
  <2> QED BY <1>2, <2>2, <2>3 DEF Took
<1>5. Len(t) \in G
  <2> HIDE DEF G
  <2>1. 0..Len(t) \subseteq G
    BY <1>0, <1>3, <1>4, UpTo
  <2> QED BY <1>0, <2>1
<1>6. e \in Seq(T)
  BY <1>0, <1>1, <1>2
<1> QED BY <1>1, <1>5, <1>6

\* Distinct, one part after the other.
LEMMA DistinctOn ==
    ASSUME NEW T, NEW a \in Seq(T), NEW b \in Seq(T)
    PROVE  Distinct(a) \in Seq(T) /\ Weeded(Distinct(a), b, Distinct(a \o b), T)
<1> DEFINE ab == a \o b
           none == <<>>
<1>1. ab \in Seq(T)
  BY SetOfJoined
<1>2. Weeded(none, a, Distinct(a), T)
  BY DistinctRuns
<1>3. Weeded(none, ab, Distinct(ab), T)
  <2> HIDE DEF ab
  <2> QED BY <1>1, DistinctRuns
<1>4. PICK m \in Seq(T) : Weeded(none, a, m, T) /\ Weeded(m, b, Distinct(ab), T)
  <2> HIDE DEF none
  <2> DEFINE e == Distinct(ab)
  <2>1. Weeded(none, a \o b, e, T)
    BY <1>3
  <2> HIDE DEF e
  <2>2. \E m \in Seq(T) : Weeded(none, a, m, T) /\ Weeded(m, b, e, T)
    BY <2>1, WeededInParts
  <2> QED BY <2>2 DEF e
<1>5. m = Distinct(a)
  <2> HIDE DEF none
  <2> QED BY <1>2, <1>4, WeededOnce
<1> QED BY <1>4, <1>5

\* What is distinct goes on alike.
LEMMA DistinctSame ==
    ASSUME NEW T, NEW a \in Seq(T), NEW b \in Seq(T), NEW p \in Seq(T), Distinct(a) = Distinct(b)
    PROVE  Distinct(a \o p) = Distinct(b \o p)
<1>1. Weeded(Distinct(a), p, Distinct(a \o p), T)
  BY DistinctOn
<1>2. Weeded(Distinct(b), p, Distinct(b \o p), T)
  BY DistinctOn
<1>3. Weeded(Distinct(a), p, Distinct(b \o p), T)
  BY <1>2
<1> DEFINE d == Distinct(a)
           e == Distinct(a \o p)
           e2 == Distinct(b \o p)
<1>4. Weeded(d, p, e, T) /\ Weeded(d, p, e2, T)
  BY <1>1, <1>3
<1> HIDE DEF d, e, e2
<1>5. e = e2
  BY <1>4, WeededOnce
<1> QED BY <1>5 DEF e, e2

\* A second time it changes nothing,
LEMMA DistinctTwice ==
    ASSUME NEW T, NEW a \in Seq(T)
    PROVE  Distinct(Distinct(a)) = Distinct(a)
<1>1. IsInjective(Distinct(a))
  BY DistinctIs
<1> QED BY <1>1 DEF Distinct

\* So it does where something is put a second time.
LEMMA DistinctAgain ==
    ASSUME NEW T, NEW a \in Seq(T), NEW s \in Seq(T), NEW t \in Seq(T)
    PROVE  Distinct((a \o s) \o (s \o t)) = Distinct(a \o (s \o t))
<1> DEFINE as == a \o s
           st == s \o t
           d == Distinct(as)
           e == Distinct(as \o st)
           e2 == Distinct(as \o t)
<1>1. as \in Seq(T) /\ ToSet(s) \subseteq ToSet(as)
  BY SetOfJoined
<1>2. st \in Seq(T)
  BY SetOfJoined
<1>3. d \in Seq(T) /\ ToSet(s) \subseteq ToSet(d)
  <2> HIDE DEF as
  <2>1. d \in Seq(T) /\ ToSet(d) = ToSet(as)
    BY <1>1, DistinctIs
  <2> QED BY <1>1, <2>1
<1>4. Weeded(d, st, e, T) /\ Weeded(d, t, e2, T)
  <2> HIDE DEF as, st
  <2> QED BY <1>1, <1>2, DistinctOn
<1>5. Weeded(d, s, d, T)
  <2> HIDE DEF d
  <2> QED BY <1>3, WeededOut
<1> HIDE DEF d, e, e2
<1>6. PICK m \in Seq(T) : Weeded(d, s, m, T) /\ Weeded(m, t, e, T)
  <2>1. Weeded(d, s \o t, e, T)
    BY <1>4
  <2> QED BY <2>1, WeededInParts
<1>7. m = d
  BY <1>5, <1>6, WeededOnce
<1>8. e = e2
  BY <1>4, <1>6, <1>7, WeededOnce
<1>9. as \o t = a \o (s \o t)
  BY ConcatAssociative
<1> QED BY <1>8, <1>9 DEF e, e2

\* What is added goes behind.
LEMMA DistinctGrows ==
    ASSUME NEW T, NEW a \in Seq(T), NEW b \in Seq(T)
    PROVE  \/ Distinct(a \o b) = Distinct(a)
           \/ IsStrictPrefix(Distinct(a), Distinct(a \o b))
<1> DEFINE d == Distinct(a)
           e == Distinct(a \o b)
<1>1. d \in Seq(T) /\ Weeded(d, b, e, T)
  BY DistinctOn
<1> HIDE DEF d, e
<1>2. e \in Seq(T) /\ Len(d) <= Len(e) /\ \A i \in 1..Len(d) : e[i] = d[i]
  BY <1>1, WeededInFront
<1>3. SubSeq(d, 1, Len(d)) = d /\ SubSeq(e, 1, Len(d)) = d
  <2>1. Len(d) \in Nat /\ Len(e) \in Nat
    BY <1>1, <1>2
  <2>2. SubSeq(d, 1, Len(d)) = d
    BY <1>1
  <2> DEFINE u == SubSeq(e, 1, Len(d))
  <2>3. u \in Seq(T) /\ Len(u) = Len(d) /\ \A i \in 1..Len(d) : u[i] = e[i]
    BY <1>2, <2>1
  <2> HIDE DEF u
  <2>4. \A i \in 1..Len(d) : u[i] = d[i]
    BY <1>2, <2>3
  <2>5. u = d
    BY <1>1, <2>3, <2>4
  <2> QED BY <2>2, <2>5 DEF u
<1>4. IsPrefix(d, e)
  BY <1>2, <1>3 DEF IsPrefix
<1>5. e = d \/ IsStrictPrefix(d, e)
  BY <1>4 DEF IsStrictPrefix
<1> QED BY <1>5 DEF d, e

----------------------------------------------------------------------------
(* The order in which things are met.                                      *)

\* In s, y is met before z is.
Ahead(s, y, z) == \E p \in 1..Len(s) : s[p] = y /\ \A q \in 1..p : s[q] # z

\* Not both are first.
LEMMA NotBothAhead ==
    ASSUME NEW s, Len(s) \in Nat, NEW y, NEW z, Ahead(s, y, z), Ahead(s, z, y)
    PROVE  FALSE
<1>1. PICK p \in 1..Len(s) : s[p] = y /\ \A q \in 1..p : s[q] # z
  BY DEF Ahead
<1>2. PICK r \in 1..Len(s) : s[r] = z /\ \A q \in 1..r : s[q] # y
  BY DEF Ahead
<1>3. p \in 1..r \/ r \in 1..p
  OBVIOUS
<1> QED BY <1>1, <1>2, <1>3

\* d has what the first k of s have, in the order in which it is met.
Gathered(s, k, d) ==
    /\ \A p \in 1..k : s[p] \in ToSet(d)
    /\ \A a \in 1..Len(d) : \E p \in 1..k : s[p] = d[a]
    /\ \A a, b \in 1..Len(d) : a < b => \E p \in 1..k : s[p] = d[a] /\ \A q \in 1..p : s[q] # d[b]

\* One more of s.
LEMMA GatheredOn ==
    ASSUME NEW T, NEW s \in Seq(T), NEW k \in 1..Len(s), NEW d \in Seq(T), NEW e \in Seq(T),
           Gathered(s, k - 1, d), Took(s[k], d, e)
    PROVE  Gathered(s, k, e)
<1>0. /\ k \in Nat /\ k - 1 \in Nat /\ Len(d) \in Nat /\ s[k] \in T
      /\ \A p \in 1..k : p \in 1..(k - 1) \/ p = k
      /\ \A p \in 1..(k - 1) : p \in 1..k
      /\ k \in 1..k
  OBVIOUS
<1>1. /\ \A p \in 1..(k - 1) : s[p] \in ToSet(d)
      /\ \A a \in 1..Len(d) : \E p \in 1..(k - 1) : s[p] = d[a]
      /\ \A a, b \in 1..Len(d) : a < b => \E p \in 1..(k - 1) : s[p] = d[a] /\ \A q \in 1..p : s[q] # d[b]
  BY DEF Gathered
<1>2. CASE s[k] \in ToSet(d)
  <2>1. e = d
    BY <1>2 DEF Took
  <2>2. \A p \in 1..k : s[p] \in ToSet(d)
    BY <1>0, <1>1, <1>2
  <2> QED BY <1>0, <1>1, <2>1, <2>2 DEF Gathered
<1>3. CASE s[k] \notin ToSet(d)
  <2> DEFINE x == s[k]
  <2>1. e = Append(d, x)
    BY <1>3 DEF Took
  <2> HIDE DEF x
  <2>2. /\ Len(e) = Len(d) + 1 /\ e[Len(d) + 1] = x
        /\ \A a \in 1..Len(d) : e[a] = d[a]
        /\ \A a \in 1..Len(e) : a \in 1..Len(d) \/ a = Len(d) + 1
    BY <1>0, <2>1, AppendIs DEF x
  <2>3. ToSet(e) = ToSet(d) \cup {x}
    BY <1>0, <2>1, SetOfAppend DEF x
  <2>4. \A p \in 1..k : s[p] \in ToSet(e)
    BY <1>0, <1>1, <2>3 DEF x
  <2>5. \A a \in 1..Len(e) : \E p \in 1..k : s[p] = e[a]
    BY <1>0, <1>1, <2>2 DEF x
  <2>6. ASSUME NEW a \in 1..Len(e), NEW b \in 1..Len(e), a < b
        PROVE  \E p \in 1..k : s[p] = e[a] /\ \A q \in 1..p : s[q] # e[b]
    <3>1. a \in 1..Len(d)
      BY <1>0, <2>2, <2>6
    <3>2. CASE b \in 1..Len(d)
      <4>1. PICK p \in 1..(k - 1) : s[p] = d[a] /\ \A q \in 1..p : s[q] # d[b]
        BY <1>1, <2>6, <3>1, <3>2
      <4>2. e[a] = d[a] /\ e[b] = d[b] /\ p \in 1..k
        BY <1>0, <2>2, <3>1, <3>2
      <4> QED BY <4>1, <4>2
    <3>3. CASE b = Len(d) + 1
      <4>1. PICK p \in 1..(k - 1) : s[p] = d[a]
        BY <1>1, <3>1
      <4>2. \A q \in 1..p : q \in 1..(k - 1)
        BY <1>0
      <4>3. \A q \in 1..p : s[q] # x
        BY <1>1, <1>3, <4>2 DEF x
      <4>4. e[b] = x /\ e[a] = d[a]
        BY <2>2, <3>1, <3>3
      <4> QED BY <1>0, <4>1, <4>3, <4>4
    <3> QED BY <2>2, <3>2, <3>3
  <2> QED BY <2>4, <2>5, <2>6 DEF Gathered
<1> QED BY <1>2, <1>3

\* Distinct keeps the order in which things are met first.
LEMMA DistinctInOrder ==
    ASSUME NEW T, NEW s \in Seq(T),
           NEW i \in 1..Len(Distinct(s)), NEW j \in 1..Len(Distinct(s)), i < j
    PROVE  Ahead(s, Distinct(s)[i], Distinct(s)[j])
<1> DEFINE none == <<>>
           d == Distinct(s)
<1>0. Len(s) \in Nat
  OBVIOUS
<1>1. Weeded(none, s, d, T)
  BY DistinctRuns
<1>2. ToSet(none) = {} /\ Len(none) = 0
  BY SetOfNone
<1>3. i \in 1..Len(d) /\ j \in 1..Len(d) /\ i < j
  OBVIOUS
<1> HIDE DEF none, d
<1>4. PICK f : WeedsBy(f, none, s, T) /\ d = f[Len(s)]
  BY <1>1 DEF Weeded
<1>5. /\ f[0] = none /\ \A k \in 0..Len(s) : f[k] \in Seq(T)
      /\ \A k \in 1..Len(s) : Took(s[k], f[k - 1], f[k])
  BY <1>4 DEF WeedsBy
<1> DEFINE G == {k \in 0..Len(s) : Gathered(s, k, f[k])}
<1>6. 0 \in G
  BY <1>0, <1>2, <1>5 DEF Gathered
<1>7. ASSUME NEW k \in 1..Len(s), k - 1 \in G PROVE k \in G
  <2>1. k - 1 \in 0..Len(s) /\ k \in 0..Len(s)
    BY <1>0
  <2>2. /\ f[k - 1] \in Seq(T) /\ f[k] \in Seq(T)
        /\ Gathered(s, k - 1, f[k - 1]) /\ Took(s[k], f[k - 1], f[k])
    BY <1>5, <1>7, <2>1
  <2>3. Gathered(s, k, f[k])
    BY <2>2, GatheredOn
  <2> QED BY <2>1, <2>3
<1>8. Gathered(s, Len(s), d)
  <2> HIDE DEF G
  <2>1. 0..Len(s) \subseteq G
    BY <1>0, <1>6, <1>7, UpTo
  <2>2. Len(s) \in G
    BY <1>0, <2>1
  <2> QED BY <1>4, <2>2 DEF G
<1>9. \E p \in 1..Len(s) : s[p] = d[i] /\ \A q \in 1..p : s[q] # d[j]
  BY <1>3, <1>8 DEF Gathered
<1> QED BY <1>9 DEF Ahead, d

\* t has what the first k of s have of S, and nothing of it is met earlier in s.
Filtered(s, k, S, t) ==
    /\ \A p \in 1..k : s[p] \in S => \E c \in 1..Len(t) : t[c] = s[p]
    /\ \A a \in 1..Len(t) :
          \E p \in 1..k : /\ s[p] = t[a]
                          /\ \A q \in 1..p : s[q] \in S => \E c \in 1..a : t[c] = s[q]

\* One more of s.
LEMMA FilteredOn ==
    ASSUME NEW T, NEW s \in Seq(T), NEW S, NEW k \in 1..Len(s), NEW t \in Seq(T), NEW u,
           Filtered(s, k - 1, S, t), u = IF s[k] \in S THEN Append(t, s[k]) ELSE t
    PROVE  Filtered(s, k, S, u)
<1>0. /\ k \in Nat /\ k - 1 \in Nat /\ Len(t) \in Nat /\ s[k] \in T
      /\ \A p \in 1..k : p \in 1..(k - 1) \/ p = k
      /\ \A p \in 1..(k - 1) : p \in 1..k
      /\ k \in 1..k
  OBVIOUS
<1>1. /\ \A p \in 1..(k - 1) : s[p] \in S => \E c \in 1..Len(t) : t[c] = s[p]
      /\ \A a \in 1..Len(t) :
            \E p \in 1..(k - 1) : /\ s[p] = t[a]
                                  /\ \A q \in 1..p : s[q] \in S => \E c \in 1..a : t[c] = s[q]
  BY DEF Filtered
<1>2. CASE s[k] \notin S
  BY <1>0, <1>1, <1>2 DEF Filtered
<1>3. CASE s[k] \in S
  <2> DEFINE x == s[k]
             n == Len(t) + 1
  <2>1. u = Append(t, x)
    BY <1>3
  <2> HIDE DEF x
  <2>2. /\ Len(u) = n /\ u[n] = x /\ n \in 1..n
        /\ \A a \in 1..Len(t) : u[a] = t[a] /\ a \in 1..n
        /\ \A a \in 1..n : a \in 1..Len(t) \/ a = n
    BY <1>0, <2>1, AppendIs DEF x
  <2>3. \A p \in 1..k : s[p] \in S => \E c \in 1..Len(u) : u[c] = s[p]
    <3> HIDE DEF n
    <3> QED BY <1>0, <1>1, <2>2 DEF x
  <2>4. ASSUME NEW a \in 1..Len(u)
        PROVE  \E p \in 1..k : /\ s[p] = u[a]
                               /\ \A q \in 1..p : s[q] \in S => \E c \in 1..a : u[c] = s[q]
    <3>1. CASE a \in 1..Len(t)
      <4>1. PICK p \in 1..(k - 1) : /\ s[p] = t[a]
                                    /\ \A q \in 1..p : s[q] \in S => \E c \in 1..a : t[c] = s[q]
        BY <1>1, <3>1
      <4>2. \A c \in 1..a : c \in 1..Len(t)
        BY <1>0, <3>1
      <4>3. \A c \in 1..a : u[c] = t[c]
        BY <2>2, <4>2
      <4>4. u[a] = t[a] /\ p \in 1..k
        BY <1>0, <2>2, <3>1
      <4> QED BY <4>1, <4>3, <4>4
    <3>2. CASE a = n
      <4> HIDE DEF n
      <4>1. s[k] = u[a]
        BY <2>2, <3>2 DEF x
      <4>2. \A q \in 1..k : s[q] \in S => \E c \in 1..a : u[c] = s[q]
        BY <2>2, <2>3, <3>2
      <4> QED BY <1>0, <4>1, <4>2
    <3> QED BY <2>2, <3>1, <3>2
  <2> QED BY <2>3, <2>4 DEF Filtered
<1> QED BY <1>2, <1>3

\* So does Those.
LEMMA ThoseInOrder ==
    ASSUME NEW T, NEW s \in Seq(T), NEW S, NEW y, NEW z, z \in ToSet(s) => z \in S,
           Ahead(Those(s, S), y, z)
    PROVE  Ahead(s, y, z)
<1> DEFINE t == Those(s, S)
<1>0. /\ Len(s) \in Nat /\ \A p \in 1..Len(s) : s[p] \in ToSet(s)
      /\ Len(<<>>) = 0
  BY ToSetIs
<1>1. PICK f : /\ \A k \in 0..Len(s) : f[k] \in Seq(T)
               /\ f[0] = <<>> /\ f[Len(s)] = t
               /\ \A k \in 1..Len(s) : f[k] = IF s[k] \in S THEN Append(f[k - 1], s[k]) ELSE f[k - 1]
  BY ThoseSteps
<1>2. PICK a \in 1..Len(t) : t[a] = y /\ \A c \in 1..a : t[c] # z
  BY DEF Ahead
<1> HIDE DEF t
<1> DEFINE G == {k \in 0..Len(s) : Filtered(s, k, S, f[k])}
<1>3. 0 \in G
  BY <1>0, <1>1 DEF Filtered
<1>4. ASSUME NEW k \in 1..Len(s), k - 1 \in G PROVE k \in G
  <2>1. k - 1 \in 0..Len(s) /\ k \in 0..Len(s)
    BY <1>0
  <2>2. /\ f[k - 1] \in Seq(T) /\ Filtered(s, k - 1, S, f[k - 1])
        /\ f[k] = IF s[k] \in S THEN Append(f[k - 1], s[k]) ELSE f[k - 1]
    BY <1>1, <1>4, <2>1
  <2> DEFINE v == f[k - 1]
             u == f[k]
  <2>3. v \in Seq(T) /\ Filtered(s, k - 1, S, v) /\ u = IF s[k] \in S THEN Append(v, s[k]) ELSE v
    BY <2>2
  <2> HIDE DEF v, u
  <2>4. Filtered(s, k, S, u)
    BY <2>3, FilteredOn
  <2> QED BY <2>1, <2>4 DEF u
<1>5. Filtered(s, Len(s), S, t)
  <2> HIDE DEF G
  <2>1. 0..Len(s) \subseteq G
    BY <1>0, <1>3, <1>4, UpTo
  <2>2. Len(s) \in G
    BY <1>0, <2>1
  <2> QED BY <1>1, <2>2 DEF G
<1>6. PICK p \in 1..Len(s) : /\ s[p] = t[a]
                             /\ \A q \in 1..p : s[q] \in S => \E c \in 1..a : t[c] = s[q]
  BY <1>5 DEF Filtered
<1>7. \A q \in 1..p : q \in 1..Len(s)
  BY <1>0
<1>8. \A q \in 1..p : s[q] # z
  BY <1>0, <1>2, <1>6, <1>7
<1> QED BY <1>2, <1>6, <1>8 DEF Ahead

\* Where all is to be kept, all is.
LEMMA ThoseAll ==
    ASSUME NEW T, NEW s \in Seq(T), NEW S, ToSet(s) \subseteq S
    PROVE  Those(s, S) = s
<1> DEFINE t == Those(s, S)
<1>0. /\ Len(s) \in Nat /\ \A p \in 1..Len(s) : s[p] \in S /\ s[p] \in T
      /\ Len(<<>>) = 0
  BY ToSetIs
<1>1. PICK f : /\ \A k \in 0..Len(s) : f[k] \in Seq(T)
               /\ f[0] = <<>> /\ f[Len(s)] = t
               /\ \A k \in 1..Len(s) : f[k] = IF s[k] \in S THEN Append(f[k - 1], s[k]) ELSE f[k - 1]
  BY ThoseSteps
<1> HIDE DEF t
<1> DEFINE G == {k \in 0..Len(s) : Len(f[k]) = k /\ \A i \in 1..k : f[k][i] = s[i]}
<1>2. 0 \in G
  BY <1>0, <1>1
<1>3. ASSUME NEW k \in 1..Len(s), k - 1 \in G PROVE k \in G
  <2>1. k - 1 \in 0..Len(s) /\ k \in 0..Len(s) /\ k \in Nat /\ \A i \in 1..k : i \in 1..(k - 1) \/ i = k
    BY <1>0
  <2> DEFINE v == f[k - 1]
             u == f[k]
             x == s[k]
  <2>2. /\ v \in Seq(T) /\ Len(v) = k - 1 /\ \A i \in 1..(k - 1) : v[i] = s[i]
        /\ x \in T /\ u = Append(v, x)
    BY <1>0, <1>1, <1>3, <2>1
  <2> HIDE DEF v, u, x
  <2>3. Len(u) = k /\ u[k] = x /\ \A i \in 1..(k - 1) : u[i] = v[i]
    <3>1. /\ Len(u) = Len(v) + 1 /\ u[Len(v) + 1] = x /\ \A i \in 1..Len(v) : u[i] = v[i]
      BY <2>2, AppendIs
    <3>2. Len(v) + 1 = k
      BY <2>1, <2>2
    <3> QED BY <2>2, <3>1, <3>2
  <2>4. \A i \in 1..k : u[i] = s[i]
    BY <2>1, <2>2, <2>3 DEF x
  <2> QED BY <2>1, <2>3, <2>4 DEF u
<1>4. Len(t) = Len(s) /\ \A i \in 1..Len(s) : t[i] = s[i]
  <2> HIDE DEF G
  <2>1. 0..Len(s) \subseteq G
    BY <1>0, <1>2, <1>3, UpTo
  <2>2. Len(s) \in G
    BY <1>0, <2>1
  <2> QED BY <1>1, <2>2 DEF G
<1>5. t \in Seq(T)
  BY <1>0, <1>1
<1> QED BY <1>4, <1>5 DEF t

\* What goes on alike goes on in the same order,
LEMMA AheadJoined ==
    ASSUME NEW T, NEW s \in Seq(T), NEW t \in Seq(T), NEW o \in Seq(T), NEW y, NEW z,
           Ahead(t, y, z) => Ahead(s, y, z), z \in ToSet(s) => z \in ToSet(t),
           Ahead(t \o o, y, z)
    PROVE  Ahead(s \o o, y, z)
<1> DEFINE a == t \o o
           b == s \o o
<1>0. /\ Len(s) \in Nat /\ Len(t) \in Nat /\ Len(o) \in Nat
      /\ Len(a) = Len(t) + Len(o) /\ \A i \in 1..Len(t) : a[i] = t[i]
      /\ \A i \in 1..Len(o) : a[Len(t) + i] = o[i]
      /\ Len(b) = Len(s) + Len(o) /\ \A i \in 1..Len(s) : b[i] = s[i]
      /\ \A i \in 1..Len(o) : b[Len(s) + i] = o[i]
  BY Joined
<1>1. PICK p \in 1..Len(a) : a[p] = y /\ \A q \in 1..p : a[q] # z
  BY DEF Ahead
<1> HIDE DEF a, b
<1>2. CASE p \in 1..Len(t)
  <2>1. \A q \in 1..p : q \in 1..Len(t)
    BY <1>0, <1>2
  <2>2. t[p] = y /\ \A q \in 1..p : t[q] # z
    BY <1>0, <1>1, <1>2, <2>1
  <2>3. Ahead(s, y, z)
    BY <1>2, <2>2 DEF Ahead
  <2>4. PICK r \in 1..Len(s) : s[r] = y /\ \A q \in 1..r : s[q] # z
    BY <2>3 DEF Ahead
  <2>5. r \in 1..Len(b) /\ \A q \in 1..r : q \in 1..Len(s)
    BY <1>0
  <2>6. b[r] = y /\ \A q \in 1..r : b[q] # z
    BY <1>0, <2>4, <2>5
  <2> QED BY <2>5, <2>6 DEF Ahead, b
<1>3. CASE p > Len(t)
  <2> DEFINE c == p - Len(t)
             r == Len(s) + c
  <2>1. c \in 1..Len(o) /\ Len(t) + c = p /\ r \in 1..Len(b)
    BY <1>0, <1>3
  <2>2. b[r] = y
    BY <1>0, <1>1, <2>1
  <2>3. \A q \in 1..Len(t) : q \in 1..p
    BY <1>0, <1>3
  <2>4. \A q \in 1..Len(s) : s[q] # z
    <3>1. \A q \in 1..Len(t) : t[q] # z
      BY <1>0, <1>1, <2>3
    <3>2. z \notin ToSet(t)
      BY <3>1, ToSetIs
    <3> QED BY <3>2, ToSetIs
  <2>5. ASSUME NEW q \in 1..r PROVE b[q] # z
    <3>1. CASE q \in 1..Len(s)
      BY <1>0, <2>4, <3>1
    <3>2. CASE q > Len(s)
      <4> DEFINE n == q - Len(s)
      <4>1. n \in 1..Len(o) /\ Len(s) + n = q /\ Len(t) + n \in 1..p
        BY <1>0, <2>1, <3>2
      <4>2. b[q] = o[n] /\ a[Len(t) + n] = o[n]
        BY <1>0, <4>1
      <4> QED BY <1>1, <4>1, <4>2
    <3> QED BY <1>0, <2>1, <3>1, <3>2
  <2> QED BY <2>1, <2>2, <2>5 DEF Ahead, b
<1> QED BY <1>0, <1>2, <1>3

\* and what is kept, in the order it was in.
LEMMA DropsInOrder ==
    ASSUME NEW T, NEW s \in Seq(T), NEW o \in Seq(T), NEW S, ToSet(o) \cap ToSet(s) \subseteq S,
           NEW d, d = Distinct(s \o o), NEW e, e = Distinct(Those(s, S) \o o),
           NEW i \in DOMAIN e, NEW j \in DOMAIN e, i <= j
    PROVE  \E k, l \in DOMAIN d : k <= l /\ d[k] = e[i] /\ d[l] = e[j]
<1> DEFINE t == Those(s, S)
           so == s \o o
           to == t \o o
<1>1. t \in Seq(T) /\ ToSet(t) = ToSet(s) \cap S
  BY ThoseIs
<1>2. Ahead(t, e[i], e[j]) /\ (e[j] \in ToSet(s) => e[j] \in S) => Ahead(s, e[i], e[j])
  BY ThoseInOrder
<1> HIDE DEF t
<1>3. /\ so \in Seq(T) /\ to \in Seq(T)
      /\ ToSet(so) = ToSet(s) \cup ToSet(o) /\ ToSet(to) = ToSet(t) \cup ToSet(o)
  BY <1>1, SetOfJoined
<1>4. d = Distinct(so) /\ e = Distinct(to)
  BY DEF t
<1> HIDE DEF so, to
<1>5. d \in Seq(T) /\ ToSet(d) = ToSet(so) /\ e \in Seq(T) /\ ToSet(e) = ToSet(to)
  BY <1>3, <1>4, DistinctIs
<1>6. DOMAIN d = 1..Len(d) /\ Len(d) \in Nat /\ DOMAIN e = 1..Len(e) /\ Len(e) \in Nat /\ Len(so) \in Nat
  BY <1>3, <1>5, ToSetIs
<1>7. e[i] \in ToSet(to) /\ e[j] \in ToSet(to)
  BY <1>5, <1>6, ToSetIs
<1>8. \A x \in ToSet(to) : x \in ToSet(d) /\ (x \in ToSet(s) => x \in S /\ x \in ToSet(t))
  BY <1>1, <1>3, <1>5
<1>9. PICK k \in 1..Len(d) : d[k] = e[i]
  BY <1>5, <1>7, <1>8, ToSetIs
<1>10. PICK l \in 1..Len(d) : d[l] = e[j]
  BY <1>5, <1>7, <1>8, ToSetIs
<1>11. CASE k <= l
  BY <1>6, <1>9, <1>10, <1>11
<1>12. CASE l < k
  <2>1. CASE i = j
    <3>1. d[k] = e[j]
      BY <1>9, <2>1
    <3> QED BY <1>6, <1>9, <2>1, <3>1
  <2>2. CASE i < j
    <3> DEFINE y == e[i]
               z == e[j]
    <3>1. Ahead(to, y, z)
      BY <1>3, <1>4, <1>6, <2>2, DistinctInOrder
    <3>2. (Ahead(t, y, z) => Ahead(s, y, z)) /\ (z \in ToSet(s) => z \in ToSet(t))
      BY <1>2, <1>7, <1>8
    <3>3. Ahead(so, z, y)
      BY <1>3, <1>4, <1>9, <1>10, <1>12, DistinctInOrder
    <3> HIDE DEF y, z
    <3>4. Ahead(so, y, z)
      BY <1>1, <3>1, <3>2, AheadJoined DEF so, to
    <3> QED BY <1>6, <3>3, <3>4, NotBothAhead
  <2> QED BY <1>6, <2>1, <2>2
<1> QED BY <1>11, <1>12

----------------------------------------------------------------------------
(* What has been taken down is a journal.                                  *)

\* What is being written or still to be is taken down behind what is in the store.
LEMMA TakenDownFrom ==
    ASSUME NEW f \in Seq(Lines), NEW w \in Seq(Lines), NEW p \in Seq(Lines)
    PROVE  /\ Distinct((f \o w) \o <<>>) = Distinct((f \o <<>>) \o w)
           /\ Distinct((f \o <<>>) \o (w \o p)) = Distinct((f \o w) \o p)
           /\ Distinct((f \o w) \o p) = Distinct(f \o (w \o p))
           /\ f \o w \in Seq(Lines) /\ w \o p \in Seq(Lines) /\ (f \o w) \o p \in Seq(Lines)
<1> DEFINE fw == f \o w
<1>1. f \o <<>> = f
  BY ConcatEmptySeq
<1>2. fw \in Seq(Lines) /\ w \o p \in Seq(Lines)
  BY ConcatProperties
<1>3. fw \o p = f \o (w \o p)
  BY ConcatAssociative
<1> HIDE DEF fw
<1>4. fw \o <<>> = fw
  BY <1>2, ConcatEmptySeq
<1>5. fw \o p \in Seq(Lines)
  BY <1>2, ConcatProperties
<1> QED BY <1>1, <1>2, <1>3, <1>4, <1>5 DEF fw

\* Batches that come to the same do so with more behind them.
LEMMA AlikeInTurn ==
    ASSUME NEW f \in Seq(Lines), NEW g \in Seq(Lines), NEW w \in Seq(Lines), NEW z \in Seq(Lines),
           NEW p \in Seq(Lines), Distinct(f) = Distinct(g), Distinct(g \o w) = Distinct(z)
    PROVE  Distinct(f \o (w \o p)) = Distinct(z \o p)
<1> DEFINE fw == f \o w
           gw == g \o w
<1>1. fw \in Seq(Lines) /\ gw \in Seq(Lines)
  BY ConcatProperties
<1>2. Distinct(fw) = Distinct(gw)
  BY DistinctSame
<1>3. (f \o w) \o p = f \o (w \o p)
  BY ConcatAssociative
<1>30. fw \o p = f \o (w \o p)
  BY <1>3
<1> HIDE DEF fw, gw
<1>4. Distinct(fw \o p) = Distinct(z \o p)
  <2>1. Distinct(fw) = Distinct(z)
    BY <1>2 DEF gw
  <2> QED BY <1>1, <2>1, DistinctSame
<1> QED BY <1>30, <1>4

\* A batch, or the first s of it before the store fails, is where it was before it was
\* appended: a database has ignored what it had.
LEMMA StoredInPlace ==
    ASSUME file \in Seq(Lines), NEW s \in Seq(Lines), NEW t \in Seq(Lines), NEW p \in Seq(Lines)
    PROVE  /\ Distinct((Stored(s) \o <<>>) \o p) = Distinct((file \o s) \o p)
           /\ Distinct((Stored(s) \o <<>>) \o ((s \o t) \o p)) = Distinct((file \o (s \o t)) \o p)
<1> DEFINE fs == file \o s
           st == s \o t
           F == Stored(s)
<1>1. fs \in Seq(Lines) /\ st \in Seq(Lines)
  BY ConcatProperties
<1>2. F \in Seq(Lines) /\ Distinct(F) = Distinct(fs)
  <2>1. F \in Seq(Lines)
    BY StoredIs
  <2>2. CASE store = "plaintext"
    BY <2>1, <2>2 DEF Stored
  <2>3. CASE store # "plaintext"
    <3>1. F = Distinct(fs)
      BY <2>3 DEF Stored
    <3>2. Distinct(Distinct(fs)) = Distinct(fs)
      <4> HIDE DEF fs
      <4> QED BY <1>1, DistinctTwice
    <3> QED BY <2>1, <3>1, <3>2
  <2> QED BY <2>2, <2>3
<1>3. Distinct(fs \o st) = Distinct(file \o st)
  BY DistinctAgain
<1> HIDE DEF F
<1>4. F \o <<>> = F
  BY <1>2, ConcatEmptySeq
<1>5. Distinct(F \o p) = Distinct(fs \o p)
  <2> HIDE DEF fs
  <2> QED BY <1>1, <1>2, DistinctSame
<1>6. Distinct(F \o (st \o p)) = Distinct((file \o st) \o p)
  <2> HIDE DEF fs
  <2> DEFINE z == file \o st
  <2>1. z \in Seq(Lines) /\ Distinct(fs \o st) = Distinct(z)
    BY <1>1, <1>3, ConcatProperties
  <2> HIDE DEF st, z
  <2>2. Distinct(F \o (st \o p)) = Distinct(z \o p)
    BY <1>1, <1>2, <2>1, AlikeInTurn
  <2> QED BY <2>2 DEF z
<1> QED BY <1>4, <1>5, <1>6 DEF fs, F, st

\* Taking a batch up, appending it, failing to, and writing a purged file leave what
\* has been taken down as it is.
LEMMA FlushStays ==
    ASSUME LoggingInv, Flush, UNCHANGED <<file, purging>>
    PROVE  TakenDown' = TakenDown
<1> DEFINE f == IF purging = <<>> THEN file ELSE purging
<1>1. f \in Seq(Lines) /\ pending \in Seq(Lines) /\ flushing = (writing # <<>>)
  BY StoreIs
<1>2. writing = <<>> /\ writing' = pending /\ pending' = <<>>
  BY <1>1 DEF Flush, FlushDue
<1>3. TakenDown = Distinct((f \o <<>>) \o pending) /\ TakenDown' = Distinct((f \o pending) \o <<>>)
  BY <1>2 DEF TakenDown
<1> HIDE DEF f
<1>4. Distinct((f \o pending) \o <<>>) = Distinct((f \o <<>>) \o pending)
  BY <1>1, TakenDownFrom
<1> QED BY <1>3, <1>4

\* Appending it,
LEMMA AppendsStay ==
    ASSUME LoggingInv, ~PurgeOverlaps, Appends
    PROVE  TakenDown' = TakenDown
<1>1. /\ purging = <<>> /\ purging' = <<>> /\ writing' = <<>> /\ pending' = pending
      /\ file' = Stored(writing)
  BY DEF Appends, Settles
<1>2. /\ TakenDown = Distinct((file \o writing) \o pending)
      /\ TakenDown' = Distinct((Stored(writing) \o <<>>) \o pending)
  BY <1>1 DEF TakenDown
<1>3. file \in Seq(Lines) /\ writing \in Seq(Lines) /\ pending \in Seq(Lines)
  BY StoreIs
<1>4. Distinct((Stored(writing) \o <<>>) \o pending) = Distinct((file \o writing) \o pending)
  BY <1>3, StoredInPlace
<1> QED BY <1>2, <1>4

\* failing to,
LEMMA AppendFailsStay ==
    ASSUME LoggingInv, ~PurgeOverlaps, AppendFails
    PROVE  TakenDown' = TakenDown
<1>1. /\ purging = <<>> /\ purging' = <<>> /\ writing' = <<>> /\ pending' = writing \o pending
      /\ file' = file \/ \E n \in 0..(Len(writing) - 1) : file' = Stored(SubSeq(writing, 1, n))
  BY DEF AppendFails, Settles
<1>2. /\ TakenDown = Distinct((file \o writing) \o pending)
      /\ TakenDown' = Distinct((file' \o <<>>) \o (writing \o pending))
  BY <1>1 DEF TakenDown
<1>3. file \in Seq(Lines) /\ writing \in Seq(Lines) /\ pending \in Seq(Lines)
  BY StoreIs
<1>4. CASE file' = file
  <2>1. Distinct((file \o <<>>) \o (writing \o pending)) = Distinct((file \o writing) \o pending)
    BY <1>3, TakenDownFrom
  <2> QED BY <1>2, <1>4, <2>1
<1>5. ASSUME NEW n \in 0..(Len(writing) - 1), file' = Stored(SubSeq(writing, 1, n))
      PROVE  TakenDown' = TakenDown
  <2> DEFINE s == SubSeq(writing, 1, n)
             t == SubSeq(writing, n + 1, Len(writing))
  <2>1. /\ n \in Nat /\ Len(writing) \in Nat /\ n <= Len(writing)
        /\ 1 <= n + 1 /\ n + 1 <= Len(writing) + 1
    BY <1>3
  <2>2. s \in Seq(Lines) /\ t \in Seq(Lines) /\ writing = s \o t
    <3> DEFINE w == writing
    <3>1. w \in Seq(Lines) /\ Len(w) \in Nat /\ n \in 0..Len(w)
      BY <1>3, <2>1
    <3> HIDE DEF w
    <3> DEFINE u == SubSeq(w, 1, n)
               v == SubSeq(w, n + 1, Len(w))
               uv == u \o v
    <3>2. u \in Seq(Lines) /\ Len(u) = n /\ \A i \in 1..n : u[i] = w[i]
      BY <3>1
    <3>3. v \in Seq(Lines) /\ Len(v) = Len(w) - n /\ \A i \in 1..(Len(w) - n) : v[i] = w[n + i]
      BY <3>1
    <3> HIDE DEF u, v
    <3>4. /\ uv \in Seq(Lines) /\ Len(uv) = Len(u) + Len(v) /\ \A i \in 1..Len(u) : uv[i] = u[i]
          /\ \A i \in 1..Len(v) : uv[Len(u) + i] = v[i]
      <4>1. u \in Seq(Lines) /\ v \in Seq(Lines)
        BY <3>2, <3>3
      <4> QED BY <4>1, Joined
    <3> HIDE DEF uv
    <3>5. ASSUME NEW i \in 1..Len(w) PROVE uv[i] = w[i]
      <4>1. CASE i \in 1..n
        BY <3>2, <3>4, <4>1
      <4>2. CASE i > n
        <5> DEFINE j == i - n
        <5>1. j \in 1..(Len(w) - n) /\ n + j = i
          BY <3>1, <4>2
        <5> HIDE DEF j
        <5> QED BY <3>2, <3>3, <3>4, <5>1
      <4> QED BY <3>1, <4>1, <4>2
    <3>6. uv = w
      <4>1. Len(uv) = Len(w)
        BY <3>1, <3>2, <3>3, <3>4
      <4> QED BY <3>1, <3>4, <3>5, <4>1
    <3> QED BY <3>2, <3>3, <3>6 DEF w, u, v, uv
  <2>3. file' = Stored(s)
    BY <1>5
  <2> HIDE DEF s, t
  <2>4. Distinct((Stored(s) \o <<>>) \o ((s \o t) \o pending)) = Distinct((file \o (s \o t)) \o pending)
    BY <1>3, <2>2, StoredInPlace
  <2> QED BY <1>2, <2>2, <2>3, <2>4
<1> QED BY <1>1, <1>4, <1>5

\* What is collected goes behind it.
LEMMA CollectAdds ==
    ASSUME LoggingInv, Collect
    PROVE  TakenDown' = TakenDown \/ (IsStrictPrefix(TakenDown, TakenDown') /\ IsInjective(TakenDown'))
<1> DEFINE f == IF purging = <<>> THEN file ELSE purging
           fw == f \o writing
           new == Logged(Fresh(buffer))
<1>1. f \in Seq(Lines) /\ writing \in Seq(Lines) /\ pending \in Seq(Lines)
  BY StoreIs
<1>2. UNCHANGED <<file, purging, writing>> /\ (pending' = pending \/ pending' = pending \o new)
  BY DEF Collect, disk
<1>3. TakenDown = Distinct(fw \o pending) /\ TakenDown' = Distinct(fw \o pending')
  BY <1>2 DEF TakenDown
<1>4. new \in Seq(Lines)
  BY FreshLogged DEF LoggingInv
<1> HIDE DEF f, new
<1>5. fw \in Seq(Lines) /\ fw \o pending \in Seq(Lines) /\ pending \o new \in Seq(Lines)
  BY <1>1, <1>4, TakenDownFrom
<1> HIDE DEF fw
<1>6. CASE pending' = pending
  BY <1>3, <1>6
<1>7. CASE pending' = pending \o new
  <2> DEFINE a == fw \o pending
             an == a \o new
  <2>1. an = fw \o (pending \o new)
    BY <1>1, <1>4, <1>5, ConcatAssociative
  <2>2. TakenDown = Distinct(a) /\ TakenDown' = Distinct(an)
    BY <1>3, <1>7, <2>1
  <2>3. a \in Seq(Lines)
    BY <1>5
  <2> HIDE DEF a
  <2>4. an \in Seq(Lines)
    BY <1>4, <2>3, ConcatProperties
  <2>5. Distinct(an) = Distinct(a) \/ IsStrictPrefix(Distinct(a), Distinct(an))
    BY <1>4, <2>3, DistinctGrows
  <2> HIDE DEF an
  <2>6. IsInjective(Distinct(an))
    BY <2>4, DistinctIs
  <2> QED BY <2>2, <2>5, <2>6
<1> QED BY <1>2, <1>6, <1>7

\* What is dropped is the oldest, and the rest is in its order.
DropsOldest(before, after) ==
    /\ ToSet(before) \ ToSet(after) # {} /\ IsInjective(after)
    /\ \A i, j \in DOMAIN after : i <= j =>
          \E k, l \in DOMAIN before : k <= l /\ before[k] = after[i] /\ before[l] = after[j]
    /\ \A old \in ToSet(before) \ ToSet(after), l \in ToSet(after) : old.at < l.at

\* That is what both purges do.
LEMMA PurgeDrops ==
    ASSUME LoggingInv, NEW at \in Nat, PurgesAtOnce(at) \/ PurgeReads(at)
    PROVE  DropsOldest(TakenDown, TakenDown')
<1>1. Drops(at) /\ (IF purging' = <<>> THEN file' ELSE purging') = Kept(at)
  <2>1. CASE PurgesAtOnce(at)
    BY <2>1 DEF PurgesAtOnce, Drops
  <2>2. CASE PurgeReads(at)
    BY <2>2 DEF PurgeReads
  <2> QED BY <2>1, <2>2
<1>2. /\ pending \in Seq(Lines) /\ writing \in Seq(Lines) /\ file \in Seq(Lines) /\ purging = <<>>
      /\ pending' = pending /\ writing' = writing /\ Kept(at) \in Seq(Lines)
  BY <1>1, DropsIs
<1>3. Kept(at) # file /\ \A r \in ToSet(writing \o pending) : r.at >= at
  BY <1>1 DEF Drops
<1> DEFINE o == writing \o pending
           S == {r \in ToSet(file) : r.at >= at}
           t == Those(file, S)
           before == Distinct(file \o o)
           after == Distinct(t \o o)
<1>4. TakenDown = before /\ TakenDown' = after /\ o \in Seq(Lines)
  <2>1. /\ TakenDown = Distinct((file \o writing) \o pending)
        /\ TakenDown' = Distinct((Kept(at) \o writing) \o pending)
    BY <1>1, <1>2 DEF TakenDown
  <2>2. Distinct((file \o writing) \o pending) = before /\ o \in Seq(Lines)
    BY <1>2, TakenDownFrom
  <2> DEFINE u == Kept(at)
  <2>3. u \in Seq(Lines) /\ u = t
    BY <1>2 DEF Kept
  <2> HIDE DEF u
  <2>4. Distinct((u \o writing) \o pending) = Distinct(u \o o)
    BY <1>2, <2>3, TakenDownFrom
  <2> QED BY <2>1, <2>2, <2>3, <2>4 DEF u
<1>5. \A r \in ToSet(o) : r.at >= at
  BY <1>3
<1>6. t # file
  BY <1>3 DEF Kept
<1> HIDE DEF o
<1>7. ToSet(o) \cap ToSet(file) \subseteq S
  BY <1>5
<1>8. t \in Seq(Lines) /\ ToSet(t) = ToSet(file) \cap S
  <2> HIDE DEF S
  <2> QED BY <1>2, ThoseIs
<1>9. PICK old \in ToSet(file) : old \notin S
  <2>1. ~(ToSet(file) \subseteq S)
    <3> HIDE DEF S
    <3>1. ToSet(file) \subseteq S => t = file
      BY <1>2, ThoseAll
    <3> QED BY <1>6, <3>1
  <2> QED BY <2>1
<1>10. /\ ToSet(before) = ToSet(file) \cup ToSet(o) /\ ToSet(after) = ToSet(t) \cup ToSet(o)
       /\ IsInjective(after)
  <2> HIDE DEF t
  <2> DEFINE b == file \o o
             a == t \o o
  <2>1. b \in Seq(Lines) /\ a \in Seq(Lines) /\ ToSet(b) = ToSet(file) \cup ToSet(o) /\ ToSet(a) = ToSet(t) \cup ToSet(o)
    BY <1>2, <1>4, <1>8, SetOfJoined
  <2> HIDE DEF a, b
  <2>2. /\ ToSet(Distinct(b)) = ToSet(b) /\ ToSet(Distinct(a)) = ToSet(a)
        /\ IsInjective(Distinct(a))
    BY <2>1, DistinctIs
  <2> QED BY <2>1, <2>2 DEF a, b
<1>11. \A i, j \in DOMAIN after : i <= j =>
          \E k, l \in DOMAIN before : k <= l /\ before[k] = after[i] /\ before[l] = after[j]
  <2> HIDE DEF S
  <2> QED BY <1>2, <1>4, <1>7, DropsInOrder
<1> HIDE DEF before, after, t
<1>12. \A r \in ToSet(file) \cup ToSet(o) : r.at \in Nat
  <2>1. ToSet(file) \subseteq Lines
    <3>1. file \in Seq(Lines)
      BY <1>2
    <3> QED BY <3>1, OneIs
  <2>2. ToSet(o) \subseteq Lines
    <3>1. o \in Seq(Lines)
      BY <1>4
    <3> QED BY <3>1, OneIs
  <2> QED BY <2>1, <2>2 DEF Lines
<1>13. \A l \in ToSet(after) : l.at >= at /\ l.at \in Nat
  BY <1>5, <1>8, <1>10, <1>12
<1>14. \A r \in ToSet(before) \ ToSet(after) : r.at \in Nat /\ r.at < at
  BY <1>8, <1>10, <1>12
<1>15. old \in ToSet(before) \ ToSet(after)
  <2>1. ~(old.at >= at)
    BY <1>9
  <2> QED BY <1>5, <1>8, <1>9, <1>10, <2>1
<1>16. \A r \in ToSet(before) \ ToSet(after), l \in ToSet(after) : r.at < l.at
  BY <1>13, <1>14
<1> QED BY <1>4, <1>10, <1>11, <1>15, <1>16 DEF DropsOldest

\* The journal's words are those of the log.
LEMMA JournalDrops ==
    ASSUME DropsOldest(TakenDown, TakenDown')
    PROVE  J!Drops(TakenDown, TakenDown')
BY DEF DropsOldest, J!Drops, J!ToSet, J!IsInjective, ToSet, IsInjective

\* To have more behind it is for the journal to be kept.
LEMMA JournalKeeps ==
    ASSUME IsStrictPrefix(TakenDown, TakenDown'), IsInjective(TakenDown')
    PROVE  J!Keeps(TakenDown, TakenDown')
BY DEF J!Keeps, J!IsStrictPrefix, J!IsPrefix, J!IsInjective, IsStrictPrefix, IsPrefix, IsInjective

\* Every step of the log is one of the journal's, or none.
LEMMA JournalSteps ==
    ASSUME ~PurgeOverlaps, LoggingInv, [Next]_vars
    PROVE  [J!Next]_TakenDown
<1>1. CASE UNCHANGED <<pending, writing, file, purging>>
  BY <1>1 DEF TakenDown
<1>2. CASE Collect
  BY <1>2, CollectAdds, JournalKeeps DEF J!Next
<1>3. CASE TimerFlushes
  BY <1>3, FlushStays DEF TimerFlushes, disk
<1>4. CASE Unmounts
  <2>1. UNCHANGED <<file, purging>>
    BY <1>4 DEF Unmounts, disk
  <2>2. CASE Flush
    BY <2>1, <2>2, FlushStays
  <2>3. CASE UNCHANGED progress
    BY <1>1, <2>1, <2>3 DEF progress
  <2> QED BY <1>4, <2>2, <2>3 DEF Unmounts
<1>5. CASE Appends
  BY <1>5, AppendsStay
<1>6. CASE AppendFails
  BY <1>6, AppendFailsStay
<1>7. CASE \E at \in {r.at + 1 : r \in ToSet(file)} \cup {cutoff} : PurgesAtOnce(at) \/ PurgeReads(at)
  <2>1. PICK at \in {r.at + 1 : r \in ToSet(file)} \cup {cutoff} : PurgesAtOnce(at) \/ PurgeReads(at)
    BY <1>7
  <2>2. at \in Nat
    <3>1. \A r \in ToSet(file) : r.at \in Nat
      BY SeenTyped DEF LoggingInv, Seen
    <3>2. cutoff \in Nat
      BY StoreIs
    <3> QED BY <3>1, <3>2
  <2>3. DropsOldest(TakenDown, TakenDown')
    BY <2>1, <2>2, PurgeDrops
  <2> QED BY <2>3, JournalDrops DEF J!Next
<1>8. CASE PurgeWrites
  <2>1. /\ purging # <<>> /\ file' = purging /\ purging' = <<>>
        /\ UNCHANGED <<pending, writing>>
    BY <1>8 DEF PurgeWrites, progress
  <2>2. TakenDown' = TakenDown
    BY <2>1 DEF TakenDown
  <2> QED BY <2>2
<1>9. CASE ReadsLive \/ ReadsPage \/ AsksOlder \/ (\E t \in Texts : Speaks(t))
  BY <1>1, <1>9 DEF ReadsLive, ReadsPage, AsksOlder, Speaks, Aside, progress, disk
<1>10. CASE Said \/ Leaves \/ Returns \/ Restarts \/ Switches
  BY <1>1, <1>10 DEF Said, Leaves, Returns, Restarts, Switches, progress, disk
<1>11. CASE UNCHANGED vars
  BY <1>1, <1>11 DEF vars, progress, disk
<1> QED BY <1>2, <1>3, <1>4, <1>5, <1>6, <1>7, <1>8, <1>9, <1>10, <1>11 DEF Next

\* What has been taken down is a journal: whatever is retried, put back and ignored, a
\* line stays in its place, once, until the oldest are dropped.
THEOREM ImplementsJournal == ~PurgeOverlaps /\ Spec => IsJournal
<1>1. Init => J!Init
  <2> SUFFICES ASSUME Init PROVE TakenDown = <<>>
    BY DEF J!Init
  <2>1. TakenDown \in Seq(Lines) /\ ToSet(TakenDown) = {}
    <3>1. TypeOK /\ Standing = ToSet(<<>>) \cup ToSet(<<>>) \cup ToSet(<<>>) \cup ToSet(<<>>)
      BY LoggingStarts DEF LoggingInv, Init, Standing
    <3> QED BY <3>1, TakenDownIs, SetOfNone
  <2> QED BY <2>1, SetOfNone
<1>2. Spec => []LoggingInv
  BY LoggingStarts, LoggingKeeps, PTL DEF Spec
<1>3. ~PurgeOverlaps => []~PurgeOverlaps
  <2>1. ~PurgeOverlaps => (~PurgeOverlaps)'
    OBVIOUS
  <2> QED BY <2>1, PTL
<1>4. ~PurgeOverlaps /\ LoggingInv /\ [Next]_vars => [J!Next]_TakenDown
  BY JournalSteps
<1> QED BY <1>1, <1>2, <1>3, <1>4, PTL DEF Spec, IsJournal, J!Spec

----------------------------------------------------------------------------
(* What is due is taken down.                                              *)

\* All of a buffer is the server's.
Plain(b) == \A i \in 1..Len(b) : ~b[i].pending

\* All but the last n entries are no newer than w.
Passed(b, w, n) == \A i \in 1..Len(b) : i <= Len(b) - n => b[i].at <= w

\* The line l is in the buffer, and newer than w.
Waits(b, w, l) == w < l.at /\ \E i \in 1..Len(b) : l = Record(b[i])

\* While we say nothing,
Calm ==
    /\ outgoing = <<>> /\ \A q \in 1..Len(log) : log[q] = Other
    /\ Plain(buffer) /\ Sorted(buffer)
    /\ written.at <= 2 * read /\ Passed(buffer, written.at, stale)

\* a line that is due is taken down, or dropped, or behind the place the log was left
\* off at.
DueInv ==
    /\ sent \in Nat
    /\ sent = 0 =>
          /\ Calm
          /\ \A l \in due : \/ l \in Standing \/ l.at < cutoff
                            \/ enabled /\ written # Nothing /\ Waits(buffer, written.at, l)

\* An entry that is taken in: what waits is not trimmed.
LEMMA TakenWaits ==
    ASSUME NEW b \in Seq(Entries), NEW m \in Entries, ~m.pending, NEW p, NEW s \in Seq(Entries),
           TakenAt(b, p, m, s), NEW c, c = Trimmed(s), NEW w \in Nat, NEW n \in Nat, n + 1 <= Limit,
           Plain(b), Sorted(b), Passed(b, w, n)
    PROVE  /\ Plain(c) /\ Sorted(c) /\ Passed(c, w, n + 1)
           /\ \A l : Waits(b, w, l) => Waits(c, w, l)
           /\ w < m.at => Waits(c, w, Record(m))
<1>0. /\ Len(b) \in Nat /\ \A k \in 1..Len(b) : b[k].at \in Nat
      /\ Len(s) \in Nat /\ \A k \in 1..Len(s) : s[k].at \in Nat /\ s[k] \in Entries
      /\ m.at \in Nat /\ Limit \in Nat
  BY Numbers, EntryFields, BufferAssumption
<1>1. /\ p + 1 \in 1..Len(s) /\ s[p + 1] = m
      /\ \A i \in 1..Len(s) :
            \/ i = p + 1
            \/ i < p + 1 /\ i \in 1..Len(b) /\ s[i] = b[i]
            \/ p + 1 < i /\ i - 1 \in 1..Len(b) /\ s[i] = b[i - 1]
  BY TakenFrom
<1>2. /\ p \in 0..Len(b) /\ Len(s) = Len(b) + 1
      /\ \A k \in 1..p : s[k] = b[k]
      /\ \A k \in (p + 1)..Len(b) : s[k + 1] = b[k]
      /\ p > 0 => b[p].at <= m.at
      /\ p < Len(b) => m.at < b[p + 1].at
  BY DEF TakenAt
<1>3. \A i \in 1..Len(s) : ~s[i].pending
  BY <1>1 DEF Plain
<1>4. ASSUME NEW i \in 1..Len(s), NEW j \in 1..Len(s), i < j
      PROVE  s[i].at <= s[j].at
  <2>0. \A k, l \in 1..Len(b) : k < l => b[k].at <= b[l].at
    BY DEF Sorted
  <2>1. CASE \E k, l \in 1..Len(b) : k < l /\ s[i] = b[k] /\ s[j] = b[l]
    BY <2>0, <2>1
  <2>2. CASE s[i] = m /\ \E l \in 1..Len(b) : p < l /\ s[j] = b[l]
    <3>1. PICK l \in 1..Len(b) : p < l /\ s[j] = b[l]
      BY <2>2
    <3>2. p + 1 \in 1..Len(b) /\ (l = p + 1 \/ p + 1 < l) /\ m.at < b[p + 1].at
      BY <1>0, <1>2, <3>1
    <3>3. b[p + 1].at <= b[l].at /\ b[p + 1].at \in Nat /\ b[l].at \in Nat
      BY <1>0, <2>0, <3>1, <3>2
    <3>4. m.at <= b[l].at
      BY <1>0, <3>2, <3>3
    <3> QED BY <2>2, <3>1, <3>4
  <2>3. CASE s[j] = m /\ \E k \in 1..Len(b) : k <= p /\ s[i] = b[k]
    <3>1. PICK k \in 1..Len(b) : k <= p /\ s[i] = b[k]
      BY <2>3
    <3>2. p \in 1..Len(b) /\ (k = p \/ k < p) /\ b[p].at <= m.at
      BY <1>0, <1>2, <3>1
    <3>3. b[k].at <= b[p].at /\ b[k].at \in Nat /\ b[p].at \in Nat
      BY <1>0, <2>0, <3>1, <3>2
    <3>4. b[k].at <= m.at
      BY <1>0, <3>2, <3>3
    <3> QED BY <2>3, <3>1, <3>4
  <2> QED BY <1>4, <2>1, <2>2, <2>3, TakenPair
<1>5. ASSUME NEW i \in 1..Len(s), i <= Len(s) - (n + 1)
      PROVE  s[i].at <= w
  <2>0. i <= Len(b) - n /\ i \in Nat
    BY <1>0, <1>2, <1>5
  <2>1. CASE i = p + 1
    <3>1. p + 1 \in 1..Len(b) /\ p < Len(b)
      BY <1>0, <1>2, <2>0, <2>1
    <3>2. b[p + 1].at <= w /\ m.at < b[p + 1].at /\ b[p + 1].at \in Nat
      BY <1>0, <1>2, <2>0, <2>1, <3>1 DEF Passed
    <3>3. m.at <= w
      BY <1>0, <3>2
    <3> QED BY <1>1, <2>1, <3>3
  <2>2. CASE i < p + 1 /\ i \in 1..Len(b) /\ s[i] = b[i]
    BY <2>0, <2>2 DEF Passed
  <2>3. CASE p + 1 < i /\ i - 1 \in 1..Len(b) /\ s[i] = b[i - 1]
    <3>1. i - 1 <= Len(b) - n
      BY <1>0, <2>0
    <3> QED BY <2>3, <3>1 DEF Passed
  <2> QED BY <1>1, <2>1, <2>2, <2>3
<1>6. ASSUME NEW l, w < l.at, \E i \in 1..Len(b) : l = Record(b[i])
      PROVE  \E i \in 1..Len(s) : l = Record(s[i])
  <2>1. PICK i \in 1..Len(b) : l = Record(b[i])
    BY <1>6
  <2>2. (i \in 1..p /\ i \in 1..Len(s)) \/ (i \in (p + 1)..Len(b) /\ i + 1 \in 1..Len(s))
    BY <1>0, <1>2
  <2> QED BY <1>2, <2>1, <2>2
<1> DEFINE d == Excess(s)
<1>7. c \in Seq(Entries) /\ EndOf(c, s, d)
  BY TrimmedTo
<1>8. d \in Nat /\ d <= Len(s) /\ (d = 0 \/ d = Len(s) - Limit)
  BY <1>0 DEF Excess
<1> HIDE DEF d
<1>9. /\ Len(c) = Len(s) - d /\ \A k \in 1..Len(c) : c[k] = s[k + d] /\ k + d \in 1..Len(s)
      /\ Len(c) \in Nat
  BY <1>0, <1>7, <1>8 DEF EndOf
<1>10. Plain(c)
  BY <1>3, <1>9 DEF Plain
<1>11. Sorted(c)
  <2> SUFFICES ASSUME NEW i \in 1..Len(c), NEW j \in 1..Len(c), i < j PROVE c[i].at <= c[j].at
    BY DEF Sorted
  <2>1. i + d < j + d
    BY <1>8, <1>9
  <2> QED BY <1>4, <1>9, <2>1
<1>12. Passed(c, w, n + 1)
  <2> SUFFICES ASSUME NEW i \in 1..Len(c), i <= Len(c) - (n + 1) PROVE c[i].at <= w
    BY DEF Passed
  <2>1. i + d <= Len(s) - (n + 1)
    BY <1>0, <1>8, <1>9
  <2> QED BY <1>5, <1>9, <2>1
<1>13. ASSUME NEW l, w < l.at, NEW i \in 1..Len(s), l = Record(s[i])
       PROVE  Waits(c, w, l)
  <2>1. s[i].at = l.at
    BY <1>0, <1>13, RecordIs
  <2>2. ~(i <= Len(s) - (n + 1))
    <3> SUFFICES ASSUME i <= Len(s) - (n + 1) PROVE FALSE
      OBVIOUS
    <3>1. s[i].at <= w /\ s[i].at \in Nat
      BY <1>0, <1>5
    <3> QED BY <1>13, <2>1, <3>1
  <2>3. i - d \in 1..Len(c) /\ (i - d) + d = i
    BY <1>0, <1>8, <1>9, <2>2
  <2>4. c[i - d] = s[i]
    BY <1>9, <2>3
  <2> QED BY <1>13, <2>3, <2>4 DEF Waits
<1>14. ASSUME NEW l, Waits(b, w, l) PROVE Waits(c, w, l)
  BY <1>6, <1>13, <1>14 DEF Waits
<1>15. w < m.at => Waits(c, w, Record(m))
  <2>1. Record(m).at = m.at
    BY RecordIs
  <2> QED BY <1>1, <1>13, <2>1
<1> QED BY <1>10, <1>11, <1>12, <1>14, <1>15

\* A line that is read is in the buffer, and what waits is still.
LEMMA ReadWaits ==
    ASSUME LoggingInv, NEW q \in 1..Len(log), log[q] = Other, Takes(q), Renders,
           Plain(buffer), Sorted(buffer), Passed(buffer, written.at, stale)
    PROVE  /\ Plain(buffer') /\ Sorted(buffer') /\ Passed(buffer', written.at, stale')
           /\ \A l : Waits(buffer, written.at, l) => Waits(buffer', written.at, l)
           /\ written.at < 2 * q => Waits(buffer', written.at, Record(Entry(q)))
<1> DEFINE b == buffer
           c == buffer'
           m == Entry(q)
           w == written.at
           n == stale
<1>1. /\ log \in Seq({Other} \cup Texts) /\ b \in Seq(Entries) /\ read \in 0..Len(log) /\ Shows(b, log, read)
      /\ Len(log) \in Nat
  BY DEF LoggingInv, TalkInv
<1>2. w \in Nat /\ n \in Nat /\ n <= Burst /\ Burst \in Nat /\ Burst < Limit /\ Limit \in Nat
  BY TypeIs DEF LoggingInv
<1>3. n < Burst /\ stale' = n + 1
  BY DEF Renders
<1>4. n + 1 <= Limit
  BY <1>2, <1>3
<1>5. m \in Entries /\ ~m.pending /\ m.at = 2 * q /\ m.text = log[q] /\ q \in Nat /\ read \in Nat
  BY <1>1, EntryIs
<1>6. c = IF m.text \in Texts THEN Reconcile(b, m) ELSE Insert(b, m)
  BY <1>5 DEF Takes
<1>7. Plain(b) /\ Sorted(b) /\ Passed(b, w, n)
  OBVIOUS
<1> HIDE DEF b, c, m, w, n
<1>8. \/ c = b /\ \E i \in 1..Len(b) : b[i] = m
      \/ \E i \in 1..Len(b) : Put(b, i, m, c)
      \/ \E p \in 0..Len(b), s \in Seq(Entries) : TakenAt(b, p, m, s) /\ c = Trimmed(s)
  BY <1>1, <1>5, <1>6, ReadChanges
<1>9. ~\E i \in 1..Len(b) : Put(b, i, m, c)
  BY <1>7 DEF Put, Plain
<1>10. CASE c = b /\ \E i \in 1..Len(b) : b[i] = m
  <2>1. Passed(c, w, n + 1)
    <3>1. Len(b) \in Nat
      BY <1>1
    <3>2. \A i \in 1..Len(b) : i <= Len(b) - (n + 1) => i <= Len(b) - n
      BY <1>2, <3>1
    <3> QED BY <1>7, <1>10, <3>2 DEF Passed
  <2>2. w < m.at => Waits(c, w, Record(m))
    <3>1. Record(m).at = m.at
      BY <1>5, RecordIs
    <3> QED BY <1>10, <3>1 DEF Waits
  <2> QED BY <1>3, <1>5, <1>7, <1>10, <2>1, <2>2 DEF b, c, m, w, n
<1>11. CASE \E p \in 0..Len(b), s \in Seq(Entries) : TakenAt(b, p, m, s) /\ c = Trimmed(s)
  <2>1. PICK p \in 0..Len(b), s \in Seq(Entries) : TakenAt(b, p, m, s) /\ c = Trimmed(s)
    BY <1>11
  <2>2. /\ Plain(c) /\ Sorted(c) /\ Passed(c, w, n + 1)
        /\ \A l : Waits(b, w, l) => Waits(c, w, l)
        /\ w < m.at => Waits(c, w, Record(m))
    BY <1>1, <1>2, <1>4, <1>5, <1>7, <2>1, TakenWaits
  <2> QED BY <1>3, <1>5, <2>2 DEF b, c, m, w, n
<1> QED BY <1>8, <1>9, <1>10, <1>11

\* What waits is what is collected next.
LEMMA WaitsFresh ==
    ASSUME TypeOK, TalkInv, Plain(buffer), Sorted(buffer), NEW l, Waits(buffer, written.at, l),
           written # Nothing
    PROVE  l \in ToSet(Logged(Fresh(buffer))) /\ l \in ToSet(Records(Fresh(buffer)))
<1> DEFINE b == buffer
           w == written
           f == Start(b)
           s == SubSeq(b, f + 1, Len(b))
<1>1. b \in Seq(Entries) /\ Keys(b) /\ written \in Lines /\ w.at \in Nat
  BY TypeIs DEF TalkInv, Ordered
<1>2. PICK j \in 1..Len(b) : l = Record(b[j]) /\ w.at < l.at
  BY DEF Waits
<1>3. /\ Len(b) \in Nat /\ l.at = b[j].at /\ \A k \in 1..Len(b) : b[k].at \in Nat
      /\ ~b[j].pending /\ Sorted(b)
  <2>1. Len(b) \in Nat /\ \A k \in 1..Len(b) : b[k].at \in Nat
    BY <1>1, Numbers
  <2>2. b[j] \in Entries
    BY <1>1
  <2>3. l.at = b[j].at
    BY <1>2, <2>2, RecordIs
  <2> QED BY <2>1, <2>3 DEF Plain
<1>4. /\ f \in 0..Len(b) /\ (f # 0 => LeftAt(b, f, w))
      /\ Fresh(b) = s /\ Fresh(b) \in Seq(Entries) /\ (Keys(b) => Keys(Fresh(b)))
  BY <1>1, StartIs, FreshIs DEF Fresh
<1> HIDE DEF b, f, w
<1>5. f < j
  <2> SUFFICES ASSUME ~(f < j) PROVE FALSE
    OBVIOUS
  <2>1. f \in 1..Len(b) /\ (j = f \/ j < f) /\ b[f].at = w.at
    BY <1>3, <1>4 DEF LeftAt
  <2>2. b[j].at <= b[f].at
    BY <1>3, <2>1 DEF Sorted
  <2> QED BY <1>1, <1>2, <1>3, <2>1, <2>2
<1>6. b[j] \in ToSet(s)
  <2>1. /\ Len(s) = Len(b) - f
        /\ \A k \in 1..(Len(b) - f) : s[k] = b[k + f]
    BY <1>1, <1>3, <1>4
  <2>2. j - f \in 1..(Len(b) - f) /\ (j - f) + f = j
    BY <1>3, <1>4, <1>5
  <2> HIDE DEF s
  <2>3. j - f \in 1..Len(s) /\ s[j - f] = b[j]
    BY <2>1, <2>2
  <2> QED BY <1>4, <2>3, ToSetIs
<1> DEFINE F == Fresh(b)
<1>7. F \in Seq(Entries) /\ Keys(F) /\ b[j] \in ToSet(F)
  BY <1>1, <1>4, <1>6
<1> HIDE DEF F
<1>8. Record(b[j]) \in ToSet(Logged(F)) /\ Record(b[j]) \in ToSet(Records(F))
  <2>1. /\ ToSet(Logged(F)) = {Record(e) : e \in {e \in ToSet(F) : ~e.pending}}
        /\ ToSet(Records(F)) = {Record(e) : e \in ToSet(F)}
    BY <1>7, LoggedIs, RecordsIs
  <2> QED BY <1>3, <1>7, <2>1
<1> QED BY <1>2, <1>8 DEF F, b

\* With all of the buffer seen, nothing waits.
LEMMA NoneWaits ==
    ASSUME NEW b \in Seq(Entries), NEW w \in Nat, Passed(b, w, 0), NEW l
    PROVE  ~Waits(b, w, l)
<1> SUFFICES ASSUME Waits(b, w, l) PROVE FALSE
  OBVIOUS
<1>1. PICK i \in 1..Len(b) : l = Record(b[i]) /\ w < l.at
  BY DEF Waits
<1>2. b[i].at \in Nat /\ l.at = b[i].at /\ i <= Len(b) - 0
  BY <1>1, Numbers, RecordIs
<1>3. b[i].at <= w
  BY <1>2 DEF Passed
<1> QED BY <1>1, <1>2, <1>3

\* Writing, and dropping what is too old: the conversation stands still.
LEMMA WritesKeepDue ==
    ASSUME DueInv, UNCHANGED <<server, buffer, stale, enabled, written, due>>,
           due \subseteq Lines, cutoff \in Nat, cutoff' \in Nat, cutoff <= cutoff',
           \A l \in Standing : l \in Standing' \/ l.at < cutoff'
    PROVE  DueInv'
<1>1. UNCHANGED <<sent, outgoing, log, read>>
  BY DEF server
<1>2. \A l \in due : l.at \in Nat
  BY DEF Lines
<1>3. \A l \in due : l.at < cutoff => l.at < cutoff'
  BY <1>2
<1> QED BY <1>1, <1>3 DEF DueInv, Calm

\* What stands is what is taken down, after a step too.
LEMMA StandsNext == (TypeOK => ToSet(TakenDown) = Standing) /\ (TypeOK => ToSet(TakenDown) = Standing)'
<1>1. TypeOK => ToSet(TakenDown) = Standing
  BY TakenDownIs
<1> QED BY <1>1, PTL

\* What leaves what is taken down as it is does so,
LEMMA StayKeepDue ==
    ASSUME LoggingInv, LoggingInv', DueInv, UNCHANGED <<server, buffer, stale, enabled, written, due, cutoff>>,
           TakenDown' = TakenDown
    PROVE  DueInv'
<1>1. TypeOK /\ TypeOK'
  BY DEF LoggingInv
<1>2. Standing' = Standing
  BY <1>1, StandsNext
<1>3. due \subseteq Lines /\ cutoff \in Nat
  BY TypeIs, StoreIs DEF LoggingInv
<1> QED BY <1>2, <1>3, WritesKeepDue

\* The numbers.
LEMMA ReadIs ==
    ASSUME LoggingInv
    PROVE  /\ read \in Nat /\ Len(log) \in Nat /\ read <= Len(log) /\ log \in Seq({Other} \cup Texts)
           /\ buffer \in Seq(Entries) /\ written.at \in Nat /\ stale \in Nat
           /\ due \subseteq Lines /\ cutoff \in Nat
<1>1. read \in 0..Len(log) /\ log \in Seq({Other} \cup Texts) /\ buffer \in Seq(Entries)
  BY DEF LoggingInv, TalkInv
<1>2. written.at \in Nat /\ stale \in Nat /\ due \subseteq Lines /\ cutoff \in Nat
  BY TypeIs, StoreIs DEF LoggingInv
<1> QED BY <1>1, <1>2

\* A line is read live.
LEMMA ReadsLiveKeepsDue ==
    ASSUME LoggingInv, DueInv, ReadsLive
    PROVE  DueInv'
<1> DEFINE q == read + 1
           new == Record(Entry(q))
<1>1. /\ connected /\ read < Len(log) /\ read' = read + 1 /\ Takes(q) /\ Renders
      /\ due' = IF enabled /\ written # Nothing THEN due \cup {new} ELSE due
      /\ UNCHANGED <<log, outgoing, sent, enabled, written, pending, writing, file, purging, cutoff>>
  BY DEF ReadsLive, Aside, progress, disk
<1>2. sent \in Nat /\ Standing' = Standing
  BY <1>1 DEF DueInv, Standing
<1> SUFFICES ASSUME sent = 0
             PROVE  /\ Calm'
                    /\ \A l \in due' : \/ l \in Standing' \/ l.at < cutoff'
                                       \/ enabled' /\ written' # Nothing /\ Waits(buffer', written'.at, l)
  BY <1>1, <1>2 DEF DueInv
<1>3. Calm /\ \A l \in due : \/ l \in Standing \/ l.at < cutoff
                             \/ enabled /\ written # Nothing /\ Waits(buffer, written.at, l)
  BY DEF DueInv
<1>4. /\ q \in 1..Len(log) /\ log[q] = Other /\ written.at < 2 * q
      /\ written.at <= 2 * read'
  BY <1>1, <1>3, ReadIs DEF Calm
<1> HIDE DEF q
<1>5. /\ Plain(buffer') /\ Sorted(buffer') /\ Passed(buffer', written.at, stale')
      /\ \A l : Waits(buffer, written.at, l) => Waits(buffer', written.at, l)
      /\ Waits(buffer', written.at, new)
  BY <1>1, <1>3, <1>4, ReadWaits DEF Calm
<1>6. Calm'
  BY <1>1, <1>3, <1>4, <1>5 DEF Calm
<1> HIDE DEF new
<1> QED BY <1>1, <1>2, <1>3, <1>5, <1>6

\* A line comes with a page.
LEMMA ReadsPageKeepsDue ==
    ASSUME LoggingInv, DueInv, ReadsPage
    PROVE  DueInv'
<1> DEFINE q == Head(page)
<1>1. /\ page # <<>> /\ Takes(q) /\ Renders
      /\ UNCHANGED <<log, read, outgoing, sent, due, enabled, written, pending, writing, file, purging, cutoff>>
  BY DEF ReadsPage, Aside, progress, disk
<1>2. sent \in Nat /\ Standing' = Standing
  BY <1>1 DEF DueInv, Standing
<1> SUFFICES ASSUME sent = 0
             PROVE  /\ Calm'
                    /\ \A l \in due : \/ l \in Standing \/ l.at < cutoff
                                      \/ enabled /\ written # Nothing /\ Waits(buffer', written.at, l)
  BY <1>1, <1>2 DEF DueInv
<1>3. Calm /\ \A l \in due : \/ l \in Standing \/ l.at < cutoff
                             \/ enabled /\ written # Nothing /\ Waits(buffer, written.at, l)
  BY DEF DueInv
<1>4. q \in 1..Len(log) /\ log[q] = Other
  <2>1. page \in Seq(Nat) /\ ToSet(page) \subseteq 1..read
    BY DEF LoggingInv, TalkInv
  <2>2. q \in ToSet(page)
    <3>1. 1 \in 1..Len(page) /\ q = page[1]
      BY <1>1, <2>1
    <3> QED BY <2>1, <3>1, ToSetIs
  <2>3. q \in 1..read
    BY <2>1, <2>2
  <2> HIDE DEF q
  <2>4. q \in 1..Len(log)
    BY <2>3, ReadIs
  <2> QED BY <1>3, <2>4 DEF Calm
<1> HIDE DEF q
<1>5. /\ Plain(buffer') /\ Sorted(buffer') /\ Passed(buffer', written.at, stale')
      /\ \A l : Waits(buffer, written.at, l) => Waits(buffer', written.at, l)
  BY <1>1, <1>3, <1>4, ReadWaits DEF Calm
<1>6. Calm'
  BY <1>1, <1>3, <1>5 DEF Calm
<1> QED BY <1>3, <1>5, <1>6

\* The conversation goes on, unread.
LEMMA TalkKeepsDue ==
    ASSUME LoggingInv, DueInv,
           UNCHANGED <<sent, buffer, stale, enabled, written, due, pending, writing, file, purging, cutoff>>,
           read' \in Nat, read <= read',
           sent = 0 => outgoing' = <<>> /\ \A q \in 1..Len(log') : log'[q] = Other
    PROVE  DueInv'
<1>1. Standing' = Standing
  BY DEF Standing
<1>2. sent = 0 => written.at <= 2 * read'
  BY ReadIs DEF DueInv, Calm
<1> QED BY <1>1, <1>2 DEF DueInv, Calm

\* Somebody speaks, a page is asked for, the connection goes or comes.
LEMMA SaidKeepsDue ==
    ASSUME LoggingInv, DueInv, Said \/ AsksOlder \/ Leaves \/ Returns
    PROVE  DueInv'
<1>1. UNCHANGED <<sent, buffer, stale, enabled, written, due, pending, writing, file, purging, cutoff>>
  <2>1. CASE Said
    BY <2>1 DEF Said, app, progress, disk, ghosts
  <2>2. CASE AsksOlder
    BY <2>2 DEF AsksOlder, app, progress, disk, ghosts
  <2>3. CASE Leaves \/ Returns
    BY <2>3 DEF Leaves, Returns, app, progress, disk, ghosts
  <2> QED BY <2>1, <2>2, <2>3
<1>2. read' \in Nat /\ read <= read'
  BY ReadIs DEF Said, AsksOlder, Leaves, Returns
<1>3. ASSUME sent = 0
      PROVE  outgoing' = <<>> /\ \A q \in 1..Len(log') : log'[q] = Other
  <2>1. outgoing = <<>> /\ \A q \in 1..Len(log) : log[q] = Other
    BY <1>3 DEF DueInv, Calm
  <2>2. CASE Said
    <3>1. log' = Append(log, Other) /\ outgoing' = outgoing
      BY <2>1, <2>2 DEF Said
    <3>2. \A q \in 1..Len(log') : log'[q] = Other
      BY <2>1, <3>1, ReadIs
    <3> QED BY <2>1, <3>1, <3>2
  <2>3. CASE AsksOlder
    BY <2>1, <2>3 DEF AsksOlder
  <2>4. CASE Leaves \/ Returns
    BY <2>1, <2>4 DEF Leaves, Returns
  <2> QED BY <2>2, <2>3, <2>4
<1> QED BY <1>1, <1>2, <1>3, TalkKeepsDue

\* Another session, or another policy, when all that changed has been rendered.
LEMMA RenderedKeepsDue ==
    ASSUME LoggingInv, DueInv, stale = 0,
           UNCHANGED <<sent, outgoing, log, stale, written, due, pending, writing, file, purging, cutoff>>,
           read' \in Nat, read <= read', buffer' = buffer \/ buffer' = <<>>
    PROVE  DueInv'
<1>1. Standing' = Standing
  BY DEF Standing
<1> SUFFICES ASSUME sent = 0
             PROVE  Calm' /\ \A l \in due : l \in Standing \/ l.at < cutoff
  BY <1>1 DEF DueInv
<1>2. Calm /\ \A l \in due : \/ l \in Standing \/ l.at < cutoff
                             \/ enabled /\ written # Nothing /\ Waits(buffer, written.at, l)
  BY DEF DueInv
<1>3. \A l : ~Waits(buffer, written.at, l)
  BY <1>2, ReadIs, NoneWaits DEF Calm
<1>4. Plain(buffer') /\ Sorted(buffer') /\ Passed(buffer', written.at, 0)
  <2>1. CASE buffer' = buffer
    BY <1>2, <2>1 DEF Calm
  <2>2. CASE buffer' = <<>>
    BY <2>2 DEF Plain, Sorted, Passed
  <2> QED BY <2>1, <2>2
<1>5. written.at <= 2 * read'
  BY <1>2, ReadIs DEF Calm
<1> QED BY <1>2, <1>3, <1>4, <1>5 DEF Calm

\* What waits is collected.
LEMMA CollectKeepsDue ==
    ASSUME LoggingInv, DueInv, Collect
    PROVE  DueInv'
<1> DEFINE G == ToSet(Logged(Fresh(buffer)))
<1>1. /\ stale' = 0
      /\ written' = IF buffer = <<>> THEN written ELSE Record(Last(buffer))
      /\ pending' = IF enabled THEN pending \o Logged(Fresh(buffer)) ELSE pending
      /\ UNCHANGED <<log, read, outgoing, sent, buffer, enabled, writing, file, purging, cutoff, due>>
  BY DEF Collect, server, disk
<1>2. TypeOK /\ TalkInv /\ pending \in Seq(Lines) /\ Logged(Fresh(buffer)) \in Seq(Lines)
  BY FreshLogged, TypeIs DEF LoggingInv
<1>3. Standing' = Standing \cup (IF enabled THEN G ELSE {})
  <2>1. ToSet(pending') = ToSet(pending) \cup (IF enabled THEN G ELSE {})
    BY <1>1, <1>2, SetOfJoined
  <2> HIDE DEF G
  <2> QED BY <1>1, <2>1 DEF Standing
<1>4. sent \in Nat
  BY DEF DueInv
<1> SUFFICES ASSUME sent = 0
             PROVE  Calm' /\ \A l \in due : l \in Standing' \/ l.at < cutoff
  BY <1>1, <1>4 DEF DueInv
<1>5. Calm /\ \A l \in due : \/ l \in Standing \/ l.at < cutoff
                             \/ enabled /\ written # Nothing /\ Waits(buffer, written.at, l)
  BY DEF DueInv
<1>6. \A l : written # Nothing /\ Waits(buffer, written.at, l) => l \in G
  BY <1>2, <1>5, WaitsFresh DEF Calm
<1>7. \A l \in due : l \in Standing' \/ l.at < cutoff
  <2> HIDE DEF G
  <2> QED BY <1>3, <1>5, <1>6
<1>8. written'.at <= 2 * read /\ Passed(buffer, written'.at, 0)
  <2>1. CASE buffer = <<>>
    BY <1>1, <1>5, <2>1 DEF Calm, Passed
  <2>2. CASE buffer # <<>>
    <3>1. /\ buffer \in Seq(Entries) /\ Len(buffer) \in 1..Len(buffer) /\ buffer[Len(buffer)] \in Entries
          /\ \A k \in 1..Len(buffer) : buffer[k].at \in Nat
      BY <2>2, ReadIs, Numbers
    <3>2. written'.at = buffer[Len(buffer)].at
      <4>1. written' = Record(buffer[Len(buffer)])
        BY <1>1, <2>2 DEF Last
      <4> QED BY <3>1, <4>1, RecordIs
    <3>3. PICK q \in 1..read : buffer[Len(buffer)].at = 2 * q
      BY <1>2, <1>5, <3>1 DEF TalkInv, Shows, Calm, Plain
    <3>4. \A k \in 1..Len(buffer) : buffer[k].at <= buffer[Len(buffer)].at
      <4> SUFFICES ASSUME NEW k \in 1..Len(buffer) PROVE buffer[k].at <= buffer[Len(buffer)].at
        OBVIOUS
      <4>1. k = Len(buffer) \/ k < Len(buffer)
        BY <3>1
      <4> QED BY <1>5, <3>1, <4>1 DEF Calm, Sorted
    <3>5. 2 * q <= 2 * read
      BY ReadIs
    <3> QED BY <3>2, <3>3, <3>4, <3>5 DEF Passed
  <2> QED BY <2>1, <2>2
<1>9. Calm'
  BY <1>1, <1>5, <1>8 DEF Calm
<1> QED BY <1>7, <1>9

\* What is dropped is too old.
LEMMA PurgesKeepDue ==
    ASSUME LoggingInv, DueInv, NEW at \in Nat, PurgesAtOnce(at) \/ PurgeReads(at)
    PROVE  DueInv'
<1>1. Drops(at) /\ (IF purging' = <<>> THEN file' ELSE purging') = Kept(at)
  <2>1. CASE PurgesAtOnce(at)
    BY <2>1 DEF PurgesAtOnce, Drops
  <2>2. CASE PurgeReads(at)
    BY <2>2 DEF PurgeReads
  <2> QED BY <2>1, <2>2
<1>2. /\ file \in Seq(Lines) /\ purging = <<>> /\ UNCHANGED <<pending, writing>>
      /\ UNCHANGED <<server, buffer, stale, enabled, written, due>>
  BY <1>1, DropsIs DEF ghosts
<1>3. cutoff' = at /\ cutoff <= at /\ cutoff \in Nat /\ due \subseteq Lines
  BY <1>1, ReadIs DEF Drops
<1>4. ASSUME NEW l \in Standing PROVE l \in Standing' \/ l.at < at
  <2>1. CASE l \in ToSet(writing) \cup ToSet(pending)
    BY <1>2, <2>1 DEF Standing
  <2>2. CASE l \in ToSet(file) /\ ~(l.at < at)
    <3> DEFINE S == {r \in ToSet(file) : r.at >= at}
    <3>1. l.at \in Nat
      <4>1. l \in Lines
        BY <1>2, <2>2, OneIs
      <4> QED BY <4>1 DEF Lines
    <3>2. l \in S
      BY <2>2, <3>1
    <3> HIDE DEF S
    <3>3. l \in ToSet(Those(file, S))
      BY <1>2, <2>2, <3>2, ThoseIs
    <3>4. l \in ToSet(Kept(at))
      BY <3>3 DEF Kept, S
    <3> QED BY <1>1, <3>4 DEF Standing
  <2> QED BY <1>2, <2>1, <2>2 DEF Standing
<1> QED BY <1>2, <1>3, <1>4, WritesKeepDue

\* Every step keeps it, where a purge does not overlap an append.
LEMMA DueKeeps == ~PurgeOverlaps /\ LoggingInv /\ LoggingInv' /\ DueInv /\ [Next]_vars => DueInv'
<1> SUFFICES ASSUME ~PurgeOverlaps, LoggingInv, LoggingInv', DueInv, [Next]_vars PROVE DueInv'
  OBVIOUS
<1>1. CASE ReadsLive
  BY <1>1, ReadsLiveKeepsDue
<1>2. CASE ReadsPage
  BY <1>2, ReadsPageKeepsDue
<1>3. CASE Said \/ AsksOlder \/ Leaves \/ Returns
  BY <1>3, SaidKeepsDue
<1>4. CASE \E t \in Texts : Speaks(t)
  <2>1. sent' = sent + 1 /\ sent \in Nat
    BY <1>4 DEF Speaks, DueInv
  <2>2. sent' \in Nat /\ sent' # 0
    BY <2>1
  <2> QED BY <2>2 DEF DueInv
<1>5. CASE Restarts
  <2>1. /\ stale = 0 /\ read' = Len(log) /\ buffer' = <<>>
        /\ UNCHANGED <<sent, outgoing, log, stale, written, due, pending, writing, file, purging, cutoff>>
    BY <1>5 DEF Restarts, progress, disk
  <2>2. read' \in Nat /\ read <= read'
    BY <2>1, ReadIs
  <2> QED BY <2>1, <2>2, RenderedKeepsDue
<1>6. CASE Switches
  <2>1. /\ stale = 0 /\ read' = read /\ buffer' = buffer
        /\ UNCHANGED <<sent, outgoing, log, stale, written, due, pending, writing, file, purging, cutoff>>
    BY <1>6 DEF Switches, server, progress, disk, ghosts
  <2>2. read' \in Nat /\ read <= read'
    BY <2>1, ReadIs
  <2> QED BY <2>1, <2>2, RenderedKeepsDue
<1>7. CASE Collect
  BY <1>7, CollectKeepsDue
<1>8. CASE TimerFlushes \/ Unmounts \/ Appends \/ AppendFails \/ PurgeWrites
  <2>1. UNCHANGED <<server, buffer, stale, enabled, written, due, cutoff>>
    <3>1. CASE TimerFlushes
      BY <3>1 DEF TimerFlushes, Flush, app, disk, ghosts
    <3>2. CASE Unmounts
      BY <3>2 DEF Unmounts, Flush, progress, disk, ghosts
    <3>3. CASE Appends \/ AppendFails
      BY <3>3 DEF Appends, AppendFails, Settles, app, ghosts
    <3>4. CASE PurgeWrites
      BY <3>4 DEF PurgeWrites, app, progress, ghosts
    <3> QED BY <1>8, <3>1, <3>2, <3>3, <3>4
  <2>2. TakenDown' = TakenDown
    <3>1. CASE UNCHANGED <<pending, writing, file, purging>>
      BY <3>1 DEF TakenDown
    <3>2. CASE TimerFlushes \/ Unmounts
      <4>1. UNCHANGED <<file, purging>> /\ (Flush \/ UNCHANGED progress)
        BY <3>2 DEF TimerFlushes, Unmounts, disk
      <4> QED BY <3>1, <4>1, FlushStays DEF progress
    <3>3. CASE Appends
      BY <3>3, AppendsStay
    <3>4. CASE AppendFails
      BY <3>4, AppendFailsStay
    <3>5. CASE PurgeWrites
      BY <3>5 DEF PurgeWrites, progress, TakenDown
    <3> QED BY <1>8, <3>2, <3>3, <3>4, <3>5
  <2> QED BY <2>1, <2>2, StayKeepDue
<1>9. CASE \E at \in {r.at + 1 : r \in ToSet(file)} \cup {cutoff} : PurgesAtOnce(at) \/ PurgeReads(at)
  <2>1. PICK at \in {r.at + 1 : r \in ToSet(file)} \cup {cutoff} : PurgesAtOnce(at) \/ PurgeReads(at)
    BY <1>9
  <2>2. at \in Nat
    <3>1. \A r \in ToSet(file) : r.at \in Nat
      BY SeenTyped DEF LoggingInv, Seen
    <3>2. cutoff \in Nat
      BY StoreIs
    <3> QED BY <3>1, <3>2
  <2> QED BY <2>1, <2>2, PurgesKeepDue
<1>10. CASE UNCHANGED vars
  <2>1. UNCHANGED <<server, buffer, stale, enabled, written, due, cutoff, pending, writing, file, purging>>
    BY <1>10 DEF vars, app, progress, disk, ghosts
  <2>2. TakenDown' = TakenDown
    BY <2>1 DEF TakenDown
  <2> QED BY <2>1, <2>2, StayKeepDue
<1> QED BY <1>1, <1>2, <1>3, <1>4, <1>5, <1>6, <1>7, <1>8, <1>9, <1>10 DEF Next

\* What is asked of it.
LEMMA DueSays == LoggingInv /\ DueInv => DueIsTakenDown
<1> SUFFICES ASSUME LoggingInv, DueInv, sent = 0, NEW l \in due
             PROVE  \/ l \in ToSet(TakenDown) \cup ToSet(Records(Fresh(buffer)))
                    \/ l.at < cutoff
  BY DEF DueIsTakenDown
<1>1. TypeOK /\ TalkInv /\ ToSet(TakenDown) = Standing
  BY TakenDownIs DEF LoggingInv
<1>2. CASE l \in Standing \/ l.at < cutoff
  BY <1>1, <1>2
<1>3. CASE written # Nothing /\ Waits(buffer, written.at, l) /\ Calm
  <2>1. l \in ToSet(Records(Fresh(buffer)))
    BY <1>1, <1>3, WaitsFresh DEF Calm
  <2> QED BY <2>1
<1> QED BY <1>2, <1>3 DEF DueInv

\* A line somebody else says while the log is kept is taken down, or is where the next
\* rendering looks, or was dropped as too old: whatever is paged in, missed or retried
\* meanwhile.
THEOREM DueIsWritten == ~PurgeOverlaps /\ Spec => []DueIsTakenDown
<1>1. Spec => []LoggingInv
  BY LoggingStarts, LoggingKeeps, PTL DEF Spec
<1>2. Init => DueInv
  BY DEF Init, DueInv, Calm, Plain, Sorted, Passed, Nothing
<1>3. ~PurgeOverlaps => []~PurgeOverlaps
  <2>1. ~PurgeOverlaps => (~PurgeOverlaps)'
    OBVIOUS
  <2> QED BY <2>1, PTL
<1> QED BY <1>1, <1>2, <1>3, DueKeeps, DueSays, PTL DEF Spec

==============================================================================
