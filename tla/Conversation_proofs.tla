------------------------- MODULE Conversation_proofs -------------------------
(***************************************************************************)
(* Proofs about what the server's history makes of a buffer (History), for *)
(* any limit, page and number of messages.                                 *)
(*                                                                         *)
(* A buffer only ever changes by taking an entry in at its place, by       *)
(* putting one in the place of another and by dropping the oldest, so that *)
(* is stated first, with what each does to the order of the entries, to    *)
(* their identities and to the positions of the log they show. The         *)
(* inductive invariant of History then adds what is under way: that each   *)
(* message told is the log's, that a line not confirmed is on its way      *)
(* there or back, that the batches are bracketed, and, on the first        *)
(* connection, that what is shown or told has no hole. The buffer holds    *)
(* all of it as long as log and lines on their way are no more than Limit: *)
(* no two entries stand for the same position, so none is dropped          *)
(* (HasRoom).                                                              *)
(***************************************************************************)
EXTENDS History, TLAPS, SequenceTheorems, WellFoundedInduction, FiniteSetTheorems

----------------------------------------------------------------------------
(* First and last of a sequence; the binary search.                        *)

\* A set of positions that is not empty has a first.
LEMMA LeastOf ==
    ASSUME NEW S, S \subseteq Nat, S # {}
    PROVE  \E n \in S : \A m \in S : n <= m
<1> DEFINE R == OpToRel(<, Nat)
<1>1. \E n \in S : \A m \in S : <<m, n>> \notin R
  <2>1. IsWellFoundedOn(R, Nat)
    BY NatLessThanWellFounded
  <2> HIDE DEF R
  <2> QED BY <2>1, WFMin
<1>2. \E n \in S : \A m \in S : n <= m
  <2>1. PICK n \in S : \A m \in S : <<m, n>> \notin R
    BY <1>1
  <2>2. \A m \in S : ~(m < n)
    BY <2>1 DEF OpToRel
  <2> QED BY <2>2
<1> QED BY <1>2

\* What goes from each to the next goes up to n.
LEMMA UpTo ==
    ASSUME NEW n \in Nat, NEW G, 0 \in G, \A k \in 1..n : k - 1 \in G => k \in G
    PROVE  0..n \subseteq G
<1> SUFFICES ASSUME 0..n \ G # {} PROVE FALSE
  OBVIOUS
<1>0. 0..n \ G \subseteq Nat
  OBVIOUS
<1>1. PICK k \in 0..n \ G : \A m \in 0..n \ G : k <= m
  BY <1>0, LeastOf
<1>2. k \in 1..n /\ k - 1 \in 0..n /\ ~(k <= k - 1)
  BY <1>1
<1>3. k - 1 \in G
  BY <1>1, <1>2
<1> QED BY <1>1, <1>2, <1>3

\* Min is the first of some positions,
LEMMA FirstOf ==
    ASSUME NEW n \in Nat, NEW I \in SUBSET (1..n), I # {}
    PROVE  Min(I) \in I /\ \A i \in I : Min(I) <= i
<1>1. I \subseteq Nat
  OBVIOUS
<1>2. PICK m \in I : \A i \in I : m <= i
  BY <1>1, LeastOf
<1> QED BY <1>2 DEF Min

\* and Max the last.
LEMMA LastOf ==
    ASSUME NEW n \in Nat, NEW I \in SUBSET (1..n), I # {}
    PROVE  Max(I) \in I /\ \A i \in I : i <= Max(I)
<1> DEFINE above == {k \in 0..n : \A y \in I : k >= y}
<1>1. n \in above /\ above \subseteq Nat
  OBVIOUS
<1>2. PICK m \in above : \A k \in above : m <= k
  <2> HIDE DEF above
  <2> QED BY <1>1, LeastOf
<1>3. m \in I
  <2> SUFFICES ASSUME m \notin I PROVE FALSE
    OBVIOUS
  <2>1. PICK y \in I : TRUE
    OBVIOUS
  <2>2. m >= 1
    BY <1>2, <2>1
  <2>3. \A z \in I : m - 1 >= z
    BY <1>2
  <2>4. m - 1 \in above
    BY <1>2, <2>2, <2>3
  <2> QED BY <1>2, <2>4
<1>4. \A i \in I : m >= i
  BY <1>2
<1> QED BY <1>3, <1>4 DEF Max

Sorted(b) == \A i, j \in 1..Len(b) : i < j => b[i].at <= b[j].at

Halving(b, at, search) ==
    search = [r \in (0..Len(b)) \X (0..Len(b)) |->
                LET low == r[1]
                    high == r[2]
                    middle == (low + high) \div 2
                IN  IF low >= high THEN low
                    ELSE IF b[middle + 1].at <= at THEN search[<<middle + 1, high>>]
                    ELSE search[<<low, middle>>]]

Step_(b, at, g, low, high) ==
    LET middle == (low + high) \div 2
    IN  IF low >= high THEN low
        ELSE IF b[middle + 1].at <= at THEN g[<<middle + 1, high>>] ELSE g[<<low, middle>>]

\* Place, in terms of a function that halves.
LEMMA PlaceDef ==
    ASSUME NEW b, NEW at
    PROVE  Place(b, at) = IF b = <<>> \/ Last(b).at <= at THEN Len(b)
                          ELSE (CHOOSE search : Halving(b, at, search))[<<0, Len(b)>>]
BY DEF Place, Halving

\* The range that is searched gets smaller: there is such a function.
LEMMA Halvable ==
    ASSUME NEW b, Len(b) \in Nat, NEW at
    PROVE  \E f : Halving(b, at, f)
<1> DEFINE L == Len(b)
           To(n, g) == \A low, high \in 0..L : high - low <= n =>
                            g[<<low, high>>] = Step_(b, at, g, low, high)
           Of(g) == [r \in (0..L) \X (0..L) |-> Step_(b, at, g, r[1], r[2])]
           G == {n \in 0..L : \E g : To(n, g)}
<1>0. ASSUME NEW low \in 0..L, NEW high \in 0..L, low < high
      PROVE  LET middle == (low + high) \div 2
             IN  middle \in low..(high - 1) /\ middle + 1 \in 0..L /\ middle \in 0..L
  BY <1>0
<1>1. 0 \in G
  <2> DEFINE g == [r \in (0..L) \X (0..L) |-> r[1]]
  <2>1. To(0, g)
    BY DEF Step_
  <2> HIDE DEF g, To
  <2> QED BY <2>1
<1>2. ASSUME NEW n \in 1..L, n - 1 \in G PROVE \E g : To(n - 1, g) /\ To(n, Of(g))
  <2>1. PICK g : To(n - 1, g)
    BY <1>2
  <2> SUFFICES ASSUME NEW low \in 0..L, NEW high \in 0..L, high - low <= n
               PROVE  Of(g)[<<low, high>>] = Step_(b, at, Of(g), low, high)
    BY <2>1
  <2>2. Of(g)[<<low, high>>] = Step_(b, at, g, low, high)
    OBVIOUS
  <2>3. CASE low >= high
    BY <2>2, <2>3 DEF Step_
  <2>4. CASE low < high
    <3> DEFINE middle == (low + high) \div 2
    <3>1. middle \in low..(high - 1) /\ middle + 1 \in 0..L /\ middle \in 0..L
      BY <1>0, <2>4
    <3>2. high - (middle + 1) <= n - 1 /\ middle - low <= n - 1
      BY <3>1
    <3>3. /\ Of(g)[<<middle + 1, high>>] = g[<<middle + 1, high>>]
          /\ Of(g)[<<low, middle>>] = g[<<low, middle>>]
      <4> HIDE DEF middle
      <4>1. /\ g[<<middle + 1, high>>] = Step_(b, at, g, middle + 1, high)
            /\ g[<<low, middle>>] = Step_(b, at, g, low, middle)
        BY <2>1, <3>1, <3>2
      <4>2. /\ Of(g)[<<middle + 1, high>>] = Step_(b, at, g, middle + 1, high)
            /\ Of(g)[<<low, middle>>] = Step_(b, at, g, low, middle)
        BY <3>1
      <4> QED BY <4>1, <4>2
    <3> HIDE DEF Of
    <3> QED BY <2>2, <3>3 DEF Step_
  <2> QED BY <2>3, <2>4
<1>3. ASSUME NEW n \in 1..L, n - 1 \in G PROVE n \in G
  <2> HIDE DEF To, Of
  <2> QED BY <1>2, <1>3
<1>4. L \in G
  <2> HIDE DEF G
  <2>1. 0..L \subseteq G
    BY <1>1, <1>3, UpTo
  <2> QED BY <2>1
<1>5. PICK g : To(L, g)
  BY <1>4
<1>6. \A low, high \in 0..L : g[<<low, high>>] = Step_(b, at, g, low, high)
  <2>1. \A low, high \in 0..L : high - low <= L
    OBVIOUS
  <2> QED BY <1>5, <2>1
<1>7. Of(g) = [r \in (0..L) \X (0..L) |-> Step_(b, at, Of(g), r[1], r[2])]
  <2>1. ASSUME NEW low \in 0..L, NEW high \in 0..L
        PROVE  Step_(b, at, g, low, high) = Step_(b, at, Of(g), low, high)
    <3>1. CASE low >= high
      BY <3>1 DEF Step_
    <3>2. CASE low < high
      <4> DEFINE middle == (low + high) \div 2
      <4>1. middle \in low..(high - 1) /\ middle + 1 \in 0..L /\ middle \in 0..L
        BY <1>0, <3>2
      <4>2. /\ Of(g)[<<middle + 1, high>>] = g[<<middle + 1, high>>]
            /\ Of(g)[<<low, middle>>] = g[<<low, middle>>]
        <5> HIDE DEF middle
        <5> QED BY <1>6, <4>1
      <4> HIDE DEF Of
      <4> QED BY <4>2 DEF Step_
    <3> QED BY <3>1, <3>2
  <2> QED BY <2>1
<1>8. Halving(b, at, Of(g))
  <2> HIDE DEF Of
  <2> QED BY <1>7 DEF Halving, Step_
<1> HIDE DEF Of
<1> QED BY <1>8

\* A place is one in the buffer, and where the buffer is in order it is
\* the one behind all that is not newer.
LEMMA PlaceIs ==
    ASSUME NEW b \in Seq(Entries), NEW at \in Nat
    PROVE  /\ Place(b, at) \in 0..Len(b)
           /\ Place(b, at) > 0 => b[Place(b, at)].at <= at
           /\ Place(b, at) < Len(b) => ~(b[Place(b, at) + 1].at <= at) /\ ~(b[Len(b)].at <= at)
           /\ Sorted(b) => \A i \in 1..Len(b) : b[i].at <= at <=> i <= Place(b, at)
<1> DEFINE L == Len(b)
           f == CHOOSE search : Halving(b, at, search)
<1> HIDE DEF f
<1>0. L \in Nat /\ \A i \in 1..L : b[i].at \in Nat
  <2>1. \A i \in 1..L : b[i] \in Entries
    OBVIOUS
  <2> QED BY <2>1 DEF Entries
<1>1. Halving(b, at, f)
  BY <1>0, Halvable DEF f
<1>2. ASSUME NEW low \in 0..L, NEW high \in 0..L
      PROVE  f[<<low, high>>] = Step_(b, at, f, low, high)
  BY <1>1 DEF Halving, Step_
<1> DEFINE Good(low, high) ==
              /\ f[<<low, high>>] \in low..high
              /\ (/\ low > 0 => b[low].at <= at
                  /\ high < L => ~(b[high + 1].at <= at))
                 => /\ f[<<low, high>>] > 0 => b[f[<<low, high>>]].at <= at
                    /\ f[<<low, high>>] < L => ~(b[f[<<low, high>>] + 1].at <= at)
           G == {n \in 0..L : \A low, high \in 0..L : low <= high /\ high - low <= n => Good(low, high)}
<1>3. 0 \in G
  <2> SUFFICES ASSUME NEW low \in 0..L PROVE Good(low, low)
    BY <1>0
  <2>1. f[<<low, low>>] = low
    <3>1. f[<<low, low>>] = Step_(b, at, f, low, low)
      BY <1>2
    <3>2. low >= low
      BY <1>0
    <3> QED BY <3>1, <3>2 DEF Step_
  <2> QED BY <2>1
<1>4. ASSUME NEW n \in 1..L, n - 1 \in G PROVE n \in G
  <2> SUFFICES ASSUME NEW low \in 0..L, NEW high \in 0..L, low <= high, high - low <= n
               PROVE  Good(low, high)
    <3> HIDE DEF Good
    <3> QED BY <1>0
  <2>1. CASE low = high
    <3>1. high - low <= n - 1
      BY <1>0, <2>1
    <3> HIDE DEF Good
    <3> QED BY <1>4, <3>1
  <2>2. CASE low < high
    <3> DEFINE middle == (low + high) \div 2
    <3>1. middle \in low..(high - 1) /\ middle + 1 \in 0..L /\ middle \in 0..L
      BY <2>2
    <3>2. f[<<low, high>>] = IF b[middle + 1].at <= at THEN f[<<middle + 1, high>>] ELSE f[<<low, middle>>]
      BY <1>2, <2>2 DEF Step_
    <3> HIDE DEF middle
    <3>3. Good(middle + 1, high) /\ Good(low, middle)
      <4>1. high - (middle + 1) <= n - 1 /\ middle - low <= n - 1
        BY <3>1
      <4> HIDE DEF Good
      <4> QED BY <1>4, <3>1, <4>1
    <3>0. /\ middle + 1 > 0 /\ (middle + 1) - 1 = middle /\ middle \in Int
          /\ low \in Int /\ high \in Int
      BY <3>1
    <3>4. CASE b[middle + 1].at <= at
      <4>1. f[<<low, high>>] = f[<<middle + 1, high>>]
        BY <3>2, <3>4
      <4>2. f[<<low, high>>] \in low..high
        BY <3>0, <3>1, <3>3, <4>1
      <4> QED BY <3>0, <3>3, <3>4, <4>1, <4>2
    <3>5. CASE ~(b[middle + 1].at <= at)
      <4>1. f[<<low, high>>] = f[<<low, middle>>]
        BY <3>2, <3>5
      <4>2. f[<<low, high>>] \in low..high
        BY <3>0, <3>1, <3>3, <4>1
      <4> QED BY <3>0, <3>3, <3>5, <4>1, <4>2
    <3> QED BY <3>4, <3>5
  <2> HIDE DEF Good
  <2> QED BY <1>0, <2>1, <2>2
<1>5. Good(0, L)
  <2>1. L \in G
    <3> HIDE DEF G
    <3>1. 0..L \subseteq G
      BY <1>0, <1>3, <1>4, UpTo
    <3> QED BY <1>0, <3>1
  <2> HIDE DEF Good
  <2> QED BY <1>0, <2>1
<1>6. /\ Place(b, at) \in 0..L
      /\ Place(b, at) > 0 => b[Place(b, at)].at <= at
      /\ Place(b, at) < L => ~(b[Place(b, at) + 1].at <= at) /\ ~(b[L].at <= at)
  <2>1. CASE b = <<>> \/ Last(b).at <= at
    <3>1. Place(b, at) = L
      BY <2>1, PlaceDef
    <3>2. L > 0 => b[L].at <= at
      BY <1>0, <2>1 DEF Last
    <3> QED BY <1>0, <3>1, <3>2
  <2>2. CASE ~(b = <<>> \/ Last(b).at <= at)
    <3>1. Place(b, at) = f[<<0, L>>]
      BY <2>2, PlaceDef DEF f
    <3>2. ~(b[L].at <= at)
      BY <2>2 DEF Last
    <3> QED BY <1>0, <1>5, <3>1, <3>2
  <2> QED BY <2>1, <2>2
<1>7. ASSUME Sorted(b), NEW i \in 1..L PROVE b[i].at <= at <=> i <= Place(b, at)
  <2> DEFINE p == Place(b, at)
  <2> HIDE DEF p
  <2>1. /\ p \in 0..L
        /\ p > 0 => b[p].at <= at
        /\ p < L => ~(b[p + 1].at <= at)
    BY <1>6 DEF p
  <2>2. CASE i <= p
    <3>1. p \in 1..L /\ (i = p \/ i < p)
      BY <1>0, <2>1, <2>2
    <3>2. b[i].at <= b[p].at
      BY <1>0, <1>7, <3>1 DEF Sorted
    <3> QED BY <1>0, <2>1, <2>2, <3>1, <3>2 DEF p
  <2>3. CASE ~(i <= p)
    <3>1. p + 1 \in 1..L /\ (i = p + 1 \/ p + 1 < i)
      BY <1>0, <2>1, <2>3
    <3>2. b[p + 1].at <= b[i].at
      BY <1>0, <1>7, <3>1 DEF Sorted
    <3> QED BY <1>0, <2>1, <2>3, <3>1, <3>2 DEF p
  <2> QED BY <2>2, <2>3
<1> QED BY <1>6, <1>7

----------------------------------------------------------------------------
(* What Insert and Reconcile do.                                           *)

\* An entry is the message m or a copy of it.
Same(e, m) == e.at = m.at /\ e.text = m.text

Spliced(b, p, m) == InsertAt(b, p + 1, m)

\* The parts of an entry.
LEMMA EntryFields ==
    ASSUME NEW e \in Entries
    PROVE  e.at \in Nat /\ e.text \in {Other} \cup Texts /\ e.pending \in BOOLEAN
BY DEF Entries

\* The elements of two sequences, one behind the other.
LEMMA Joined ==
    ASSUME NEW S, NEW s \in Seq(S), NEW t \in Seq(S)
    PROVE  /\ s \o t \in Seq(S) /\ Len(s \o t) = Len(s) + Len(t)
           /\ \A i \in 1..Len(s) : (s \o t)[i] = s[i]
           /\ \A i \in 1..Len(t) : (s \o t)[Len(s) + i] = t[i]
<1>1. Len(s) \in Nat /\ Len(t) \in Nat
  OBVIOUS
<1>2. ASSUME NEW i \in 1..Len(t) PROVE (s \o t)[Len(s) + i] = t[i]
  <2>1. Len(s) + i \in 1..(Len(s) + Len(t)) /\ ~(Len(s) + i <= Len(s)) /\ (Len(s) + i) - Len(s) = i
    BY <1>1
  <2> QED BY <2>1
<1> QED BY <1>1, <1>2

\* A buffer with m behind its first p entries.
LEMMA SplicedIs ==
    ASSUME NEW T, NEW b \in Seq(T), NEW m \in T, NEW p \in 0..Len(b)
    PROVE  /\ Spliced(b, p, m) \in Seq(T)
           /\ Len(Spliced(b, p, m)) = Len(b) + 1
           /\ \A k \in 1..p : Spliced(b, p, m)[k] = b[k]
           /\ Spliced(b, p, m)[p + 1] = m
           /\ \A k \in (p + 2)..(Len(b) + 1) : Spliced(b, p, m)[k] = b[k - 1]
<1> DEFINE x == SubSeq(b, 1, (p + 1) - 1)
           y == SubSeq(b, p + 1, Len(b))
           z == x \o <<m>>
<1>0. Len(b) \in Nat /\ p \in Nat
  OBVIOUS
<1>1. x \in Seq(T) /\ Len(x) = p /\ \A k \in 1..p : x[k] = b[k]
  BY <1>0
<1>2. y \in Seq(T) /\ Len(y) = Len(b) - p /\ \A k \in 1..(Len(b) - p) : y[k] = b[k + p]
  BY <1>0
<1> HIDE DEF x, y
<1>3. /\ z \in Seq(T) /\ Len(z) = p + 1
      /\ \A k \in 1..p : z[k] = b[k]
      /\ z[p + 1] = m
  BY <1>0, <1>1
<1>4. Spliced(b, p, m) = z \o y
  BY DEF Spliced, InsertAt, x, y
<1> HIDE DEF z
<1>5. /\ z \o y \in Seq(T) /\ Len(z \o y) = Len(b) + 1
      /\ \A k \in 1..(p + 1) : (z \o y)[k] = z[k]
      /\ \A k \in (p + 2)..(Len(b) + 1) : (z \o y)[k] = y[k - (p + 1)]
  <2>1. /\ z \o y \in Seq(T) /\ Len(z \o y) = Len(z) + Len(y)
        /\ \A k \in 1..Len(z) : (z \o y)[k] = z[k]
        /\ \A k \in 1..Len(y) : (z \o y)[Len(z) + k] = y[k]
    <3> HIDE DEF z
    <3>1. y \in Seq(T) /\ z \in Seq(T)
      BY <1>2, <1>3
    <3> QED BY <3>1, Joined
  <2>2. ASSUME NEW k \in (p + 2)..(Len(b) + 1) PROVE (z \o y)[k] = y[k - (p + 1)]
    <3>1. k - (p + 1) \in 1..Len(y) /\ Len(z) + (k - (p + 1)) = k
      BY <1>0, <1>2, <1>3
    <3> QED BY <2>1, <3>1
  <2>3. Len(z) = p + 1 /\ Len(z) + Len(y) = Len(b) + 1
    BY <1>0, <1>2, <1>3
  <2> QED BY <2>1, <2>2, <2>3
<1>6. ASSUME NEW k \in (p + 2)..(Len(b) + 1) PROVE (z \o y)[k] = b[k - 1]
  <2>1. k - (p + 1) \in 1..(Len(b) - p) /\ (k - (p + 1)) + p = k - 1
    BY <1>0
  <2> QED BY <1>2, <1>5, <2>1
<1>7. \A k \in 1..p : k \in 1..(p + 1)
  BY <1>0
<1>8. p + 1 \in 1..(p + 1)
  BY <1>0
<1> QED BY <1>3, <1>4, <1>5, <1>6, <1>7, <1>8

\* The end of a sequence, all but the first d of it.
EndOf(c, s, d) ==
    /\ d \in 0..Len(s) /\ Len(c) = Len(s) - d
    /\ \A k \in 1..Len(c) : c[k] = s[k + d]

\* What is left when a buffer is trimmed is its end, no longer than Limit.
LEMMA TrimmedIs ==
    ASSUME NEW s \in Seq(Entries)
    PROVE  /\ Trimmed(s) \in Seq(Entries) /\ Len(Trimmed(s)) <= Limit
           /\ \E d \in 0..Len(s) : EndOf(Trimmed(s), s, d)
           /\ Len(s) <= Limit => Trimmed(s) = s
<1> DEFINE n == IF Len(s) > Limit THEN Len(s) - Limit + 1 ELSE 1
<1>0. Len(s) \in Nat /\ Limit \in Nat /\ Limit > 0
  BY BufferAssumption
<1>1. n \in 1..(Len(s) + 1) /\ n - 1 \in 0..Len(s) /\ Len(s) - (n - 1) <= Limit
  BY <1>0
<1>2. Trimmed(s) = SubSeq(s, n, Len(s))
  BY DEF Trimmed
<1>3. Len(s) <= Limit => n = 1
  BY <1>0
<1> HIDE DEF n
<1>4. /\ SubSeq(s, n, Len(s)) \in Seq(Entries)
      /\ Len(SubSeq(s, n, Len(s))) = Len(s) - (n - 1)
      /\ \A k \in 1..(Len(s) - (n - 1)) : SubSeq(s, n, Len(s))[k] = s[k + (n - 1)]
  BY <1>0, <1>1
<1>5. SubSeq(s, 1, Len(s)) = s
  OBVIOUS
<1>6. EndOf(Trimmed(s), s, n - 1)
  BY <1>1, <1>2, <1>4 DEF EndOf
<1> QED BY <1>1, <1>2, <1>3, <1>4, <1>5, <1>6

\* The three things Insert may do.
LEMMA InsertIs ==
    ASSUME NEW b \in Seq(Entries), NEW m \in Entries
    PROVE  \/ \E i \in 1..Len(b) : /\ Same(b[i], m)
                                  /\ \/ m.pending /\ ~b[i].pending /\ Insert(b, m) = b
                                     \/ Insert(b, m) = [b EXCEPT ![i] = Settled(m)]
           \/ /\ \A i \in 1..Len(b) : ~Same(b[i], m)
              /\ Insert(b, m) = Trimmed(Spliced(b, Place(b, m.at), m))
<1> DEFINE I == {i \in 1..Len(b) : b[i].at = m.at /\ b[i].text = m.text}
           s == SelectInSeq(b, LAMBDA e : e.at = m.at /\ e.text = m.text)
<1>1. Len(b) \in Nat /\ I \in SUBSET (1..Len(b))
  OBVIOUS
<1>2. s = IF I # {} THEN Min(I) ELSE 0
  BY DEF SelectInSeq
<1>3. Insert(b, m) = IF s = 0 THEN Trimmed(InsertAt(b, Place(b, m.at) + 1, m))
                     ELSE IF m.pending /\ ~b[s].pending THEN b
                     ELSE [b EXCEPT ![s] = Settled(m)]
  BY DEF Insert
<1> HIDE DEF s
<1>4. CASE I = {}
  <2>1. s = 0
    BY <1>2, <1>4
  <2>2. \A i \in 1..Len(b) : ~Same(b[i], m)
    BY <1>4 DEF Same
  <2> QED BY <1>3, <2>1, <2>2 DEF Spliced
<1>5. CASE I # {}
  <2>1. s \in I
    <3> HIDE DEF I
    <3> QED BY <1>1, <1>2, <1>5, FirstOf
  <2>2. s \in 1..Len(b) /\ s # 0 /\ Same(b[s], m)
    BY <1>1, <2>1 DEF Same
  <2> QED BY <1>3, <2>2
<1> QED BY <1>4, <1>5

\* ... and Reconcile: a line that waits is replaced, or it is Insert.
LEMMA ReconcileIs ==
    ASSUME NEW b \in Seq(Entries), NEW m \in Entries
    PROVE  \/ \E i \in 1..Len(b) : /\ b[i].pending /\ b[i].text = m.text
                                  /\ \A j \in 1..Len(b) : b[j] # m
                                  /\ Reconcile(b, m) = [b EXCEPT ![i] = m]
           \/ /\ \/ \A i \in 1..Len(b) : ~(b[i].pending /\ b[i].text = m.text)
                 \/ \E i \in 1..Len(b) : b[i] = m
              /\ Reconcile(b, m) = Insert(b, m)
<1> DEFINE I == {i \in 1..Len(b) : b[i].pending /\ b[i].text = m.text}
           s == SelectLastInSeq(b, LAMBDA e : e.pending /\ e.text = m.text)
<1>1. Len(b) \in Nat /\ I \in SUBSET (1..Len(b))
  OBVIOUS
<1>2. s = IF I # {} THEN Max(I) ELSE 0
  BY DEF SelectLastInSeq
<1>3. Reconcile(b, m) = IF s = 0 \/ m \in ToSet(b) THEN Insert(b, m) ELSE [b EXCEPT ![s] = m]
  BY DEF Reconcile
<1>4. ToSet(b) = {b[i] : i \in 1..Len(b)}
  BY DEF ToSet
<1> HIDE DEF s
<1>5. CASE I = {}
  <2>1. s = 0
    BY <1>2, <1>5
  <2> QED BY <1>3, <1>5, <2>1
<1>6. CASE I # {}
  <2>1. s \in I
    <3> HIDE DEF I
    <3> QED BY <1>1, <1>2, <1>6, LastOf
  <2>2. s \in 1..Len(b) /\ s # 0 /\ b[s].pending /\ b[s].text = m.text
    BY <1>1, <2>1
  <2>3. CASE m \in ToSet(b)
    BY <1>3, <1>4, <2>3
  <2>4. CASE m \notin ToSet(b)
    BY <1>3, <1>4, <2>2, <2>4
  <2> QED BY <2>3, <2>4
<1> QED BY <1>5, <1>6

\* The entry FromServer finds, if there is one.
LEMMA FromServerIs ==
    ASSUME NEW b \in Seq(Entries)
    PROVE  /\ FromServer(b) \in 0..Len(b)
           /\ FromServer(b) # 0 => b[FromServer(b)].at % 2 = 0
<1> DEFINE I == {i \in 1..Len(b) : b[i].at % 2 = 0}
<1>1. Len(b) \in Nat /\ I \in SUBSET (1..Len(b))
  OBVIOUS
<1>2. FromServer(b) = IF I # {} THEN Min(I) ELSE 0
  BY DEF FromServer, SelectInSeq
<1>3. I # {} => Min(I) \in I
  <2> HIDE DEF I
  <2> QED BY <1>1, FirstOf
<1> QED BY <1>1, <1>2, <1>3

----------------------------------------------------------------------------
(* What is so of the entries of a buffer, and stays so.                    *)

TrueEntry(e, l) ==
    /\ e.pending => e.at % 2 = 1 /\ e.text \in Texts
    /\ e.at % 2 = 0 => \E p \in 1..Len(l) : e.at = 2 * p /\ e.text = l[p]

Sound(b, l) == \A i \in 1..Len(b) : TrueEntry(b[i], l)
Keys(b) == \A i, j \in 1..Len(b) : Same(b[i], b[j]) => i = j
Alone(b) == \A i, j \in 1..Len(b) : b[i].pending /\ b[i].text = b[j].text => i = j
Delivered(b) == \A i \in 1..Len(b) : b[i].pending \/ b[i].at % 2 = 0
Even(b) == \A i \in 1..Len(b) : b[i].at % 2 = 0
ShownIn(b, l) == {p \in 1..Len(l) : \E i \in 1..Len(b) : b[i].at = 2 * p /\ ~b[i].pending}

\* Dropping the oldest breaks nothing that is so of every entry or pair.
LEMMA EndKeeps ==
    ASSUME NEW s \in Seq(Entries), NEW c \in Seq(Entries), NEW d, EndOf(c, s, d), NEW l
    PROVE  /\ Sound(s, l) => Sound(c, l)
           /\ Keys(s) => Keys(c)
           /\ Alone(s) => Alone(c)
           /\ Delivered(s) => Delivered(c)
           /\ Even(s) => Even(c)
           /\ Sorted(s) => Sorted(c)
           /\ \A i \in 1..Len(c) : \E j \in 1..Len(s) : c[i] = s[j]
<1>1. Len(s) \in Nat /\ Len(c) \in Nat /\ d \in Nat /\ Len(c) + d = Len(s)
  BY DEF EndOf
<1>2. \A i \in 1..Len(c) : i + d \in 1..Len(s) /\ c[i] = s[i + d]
  BY <1>1 DEF EndOf
<1>3. \A i, j \in 1..Len(c) : /\ i + d = j + d => i = j
                              /\ i < j => i + d < j + d
  BY <1>1
<1>4. Sound(s, l) => Sound(c, l)
  BY <1>2 DEF Sound
<1>5. Keys(s) => Keys(c)
  BY <1>2, <1>3 DEF Keys
<1>6. Alone(s) => Alone(c)
  BY <1>2, <1>3 DEF Alone
<1>7. Sorted(s) => Sorted(c)
  BY <1>2, <1>3 DEF Sorted
<1>8. Delivered(s) => Delivered(c)
  BY <1>2 DEF Delivered
<1>9. Even(s) => Even(c)
  BY <1>2 DEF Even
<1> QED BY <1>2, <1>4, <1>5, <1>6, <1>7, <1>8, <1>9

\* Where the entries of s come from: m, behind the first p of b.
TakenIn(b, p, m, s) ==
    /\ s \in Seq(Entries) /\ Len(s) = Len(b) + 1
    /\ p + 1 \in 1..Len(s) /\ s[p + 1] = m
    /\ \A k \in 1..Len(s) : k # p + 1 =>
          LET j == IF k <= p THEN k ELSE k - 1
          IN  j \in 1..Len(b) /\ s[k] = b[j]
    /\ \A j \in 1..Len(b) : \E k \in 1..Len(s) : k # p + 1 /\ s[k] = b[j]

\* ... which is what a splice is.
LEMMA SplicedFrom ==
    ASSUME NEW b \in Seq(Entries), NEW m \in Entries, NEW p \in 0..Len(b),
           NEW s, s = Spliced(b, p, m)
    PROVE  TakenIn(b, p, m, s)
<1>0. Len(b) \in Nat /\ p \in Nat /\ p <= Len(b)
  OBVIOUS
<1>1. /\ s \in Seq(Entries)
      /\ Len(s) = Len(b) + 1
      /\ \A k \in 1..p : s[k] = b[k]
      /\ s[p + 1] = m
      /\ \A k \in (p + 2)..(Len(b) + 1) : s[k] = b[k - 1]
  <2> DEFINE c == Spliced(b, p, m)
  <2>1. c \in Seq(Entries) /\ Len(c) = Len(b) + 1
    BY SplicedIs
  <2>3. \A k \in 1..p : c[k] = b[k]
    BY SplicedIs
  <2>4. c[p + 1] = m
    BY SplicedIs
  <2>5. \A k \in (p + 2)..(Len(b) + 1) : c[k] = b[k - 1]
    BY SplicedIs
  <2>2. s = c
    BY s = Spliced(b, p, m)
  <2> HIDE DEF c
  <2> QED BY <2>1, <2>2, <2>3, <2>4, <2>5
<1>2. ASSUME NEW k \in 1..Len(s), k # p + 1
      PROVE  LET j == IF k <= p THEN k ELSE k - 1 IN j \in 1..Len(b) /\ s[k] = b[j]
  <2>1. CASE k <= p
    BY <1>0, <1>1, <2>1
  <2>2. CASE ~(k <= p)
    <3>1. k \in (p + 2)..(Len(b) + 1) /\ k - 1 \in 1..Len(b)
      BY <1>0, <1>1, <1>2, <2>2
    <3> QED BY <1>1, <2>2, <3>1
  <2> QED BY <2>1, <2>2
<1>3. ASSUME NEW j \in 1..Len(b) PROVE \E k \in 1..Len(s) : k # p + 1 /\ s[k] = b[j]
  <2>1. CASE j <= p
    BY <1>0, <1>1, <2>1
  <2>2. CASE ~(j <= p)
    <3>1. /\ j + 1 \in (p + 2)..(Len(b) + 1) /\ j + 1 \in 1..Len(s)
          /\ j + 1 # p + 1 /\ (j + 1) - 1 = j
      BY <1>0, <1>1, <2>2
    <3>2. s[j + 1] = b[j]
      BY <1>1, <3>1
    <3> QED BY <3>1, <3>2
  <2> QED BY <2>1, <2>2
<1>4. p + 1 \in 1..Len(s)
  BY <1>0, <1>1
<1> QED BY <1>1, <1>2, <1>3, <1>4 DEF TakenIn

\* Nor does taking in an entry that was not there.
LEMMA SplicedKeeps ==
    ASSUME NEW b \in Seq(Entries), NEW m \in Entries, NEW p \in 0..Len(b),
           NEW s, s = Spliced(b, p, m),
           NEW l, TrueEntry(m, l),
           \A i \in 1..Len(b) : ~Same(b[i], m)
    PROVE  /\ Sound(b, l) => Sound(s, l)
           /\ Keys(b) => Keys(s)
           /\ Alone(b) /\ (\A i \in 1..Len(b) : b[i].text = m.text => ~m.pending /\ ~b[i].pending)
                 => Alone(s)
           /\ Delivered(b) /\ (m.pending \/ m.at % 2 = 0) => Delivered(s)
           /\ Even(b) /\ m.at % 2 = 0 => Even(s)
           /\ ShownIn(s, l) = ShownIn(b, l) \cup {q \in 1..Len(l) : m.at = 2 * q /\ ~m.pending}
<1> DEFINE from(k) == IF k <= p THEN k ELSE k - 1
<1>0. /\ s \in Seq(Entries) /\ Len(s) = Len(b) + 1 /\ Len(b) \in Nat /\ p \in Nat
      /\ p + 1 \in 1..Len(s) /\ s[p + 1] = m
      /\ \A k \in 1..Len(s) : k # p + 1 => from(k) \in 1..Len(b) /\ s[k] = b[from(k)]
      /\ \A j \in 1..Len(b) : \E k \in 1..Len(s) : k # p + 1 /\ s[k] = b[j]
  <2>1. Len(b) \in Nat /\ p \in Nat
    OBVIOUS
  <2>2. TakenIn(b, p, m, s)
    BY SplicedFrom, s = Spliced(b, p, m)
  <2> QED BY <2>1, <2>2 DEF TakenIn
<1>1. \A k, n \in 1..Len(s) : k # p + 1 /\ n # p + 1 /\ from(k) = from(n) => k = n
  <2>1. p \in Int /\ Len(s) \in Int
    BY <1>0
  <2>2. \A k, n \in Int : k # p + 1 /\ n # p + 1 /\ from(k) = from(n) => k = n
    BY <2>1
  <2> HIDE DEF from
  <2> QED BY <2>1, <2>2
<1> HIDE DEF from
<1>9. \A k \in 1..Len(s) : k # p + 1 => from(k) \in 1..Len(b) /\ s[k] = b[from(k)]
  BY <1>0
<1>2. Sound(b, l) => Sound(s, l)
  BY <1>0 DEF Sound
<1>3. Keys(b) => Keys(s)
  <2> SUFFICES ASSUME Keys(b), NEW k \in 1..Len(s), NEW n \in 1..Len(s), Same(s[k], s[n]) PROVE k = n
    BY DEF Keys
  <2>1. CASE k # p + 1 /\ n # p + 1
    <3>1. from(k) \in 1..Len(b) /\ from(n) \in 1..Len(b) /\ Same(b[from(k)], b[from(n)])
      BY <1>9, <2>1
    <3>2. from(k) = from(n)
      BY <3>1 DEF Keys
    <3> QED BY <1>1, <2>1, <3>2
  <2>2. CASE k = p + 1 /\ n # p + 1
    <3>1. from(n) \in 1..Len(b) /\ Same(m, b[from(n)])
      BY <1>0, <1>9, <2>2
    <3> QED BY <3>1 DEF Same
  <2>3. CASE n = p + 1 /\ k # p + 1
    <3>1. from(k) \in 1..Len(b) /\ Same(b[from(k)], m)
      BY <1>0, <1>9, <2>3
    <3> QED BY <3>1
  <2> QED BY <2>1, <2>2, <2>3
<1>4. Alone(b) /\ (\A i \in 1..Len(b) : b[i].text = m.text => ~m.pending /\ ~b[i].pending) => Alone(s)
  <2> SUFFICES ASSUME Alone(b), \A i \in 1..Len(b) : b[i].text = m.text => ~m.pending /\ ~b[i].pending,
                      NEW k \in 1..Len(s), NEW n \in 1..Len(s), s[k].pending, s[k].text = s[n].text
               PROVE  k = n
    BY DEF Alone
  <2>1. CASE k # p + 1 /\ n # p + 1
    <3>1. /\ from(k) \in 1..Len(b) /\ from(n) \in 1..Len(b)
          /\ b[from(k)].pending /\ b[from(k)].text = b[from(n)].text
      BY <1>9, <2>1
    <3>2. from(k) = from(n)
      BY <3>1 DEF Alone
    <3> QED BY <1>1, <2>1, <3>2
  <2>2. CASE k = p + 1 /\ n # p + 1
    <3>1. from(n) \in 1..Len(b) /\ m.pending /\ m.text = b[from(n)].text
      BY <1>0, <1>9, <2>2
    <3> QED BY <3>1
  <2>3. CASE n = p + 1 /\ k # p + 1
    <3>1. from(k) \in 1..Len(b) /\ b[from(k)].pending /\ b[from(k)].text = m.text
      BY <1>0, <1>9, <2>3
    <3> QED BY <3>1
  <2> QED BY <2>1, <2>2, <2>3
<1>5. Delivered(b) /\ (m.pending \/ m.at % 2 = 0) => Delivered(s)
  <2> SUFFICES ASSUME Delivered(b), m.pending \/ m.at % 2 = 0, NEW k \in 1..Len(s) PROVE s[k].pending \/ s[k].at % 2 = 0
    BY DEF Delivered
  <2>1. CASE k = p + 1
    BY <1>0, <2>1
  <2>2. CASE k # p + 1
    <3>1. from(k) \in 1..Len(b) /\ s[k] = b[from(k)]
      BY <1>9, <2>2
    <3> QED BY <3>1 DEF Delivered
  <2> QED BY <2>1, <2>2
<1>6. Even(b) /\ m.at % 2 = 0 => Even(s)
  <2> SUFFICES ASSUME Even(b), m.at % 2 = 0, NEW k \in 1..Len(s) PROVE s[k].at % 2 = 0
    BY DEF Even
  <2>1. CASE k = p + 1
    BY <1>0, <2>1
  <2>2. CASE k # p + 1
    <3>1. from(k) \in 1..Len(b) /\ s[k] = b[from(k)]
      BY <1>9, <2>2
    <3> QED BY <3>1 DEF Even
  <2> QED BY <2>1, <2>2
<1>7. ASSUME NEW q \in 1..Len(l)
      PROVE  (\E k \in 1..Len(s) : s[k].at = 2 * q /\ ~s[k].pending)
                <=> \/ \E j \in 1..Len(b) : b[j].at = 2 * q /\ ~b[j].pending
                    \/ m.at = 2 * q /\ ~m.pending
  <2>1. ASSUME NEW k \in 1..Len(s), s[k].at = 2 * q, ~s[k].pending
        PROVE  \/ \E j \in 1..Len(b) : b[j].at = 2 * q /\ ~b[j].pending
               \/ m.at = 2 * q /\ ~m.pending
    <3>1. CASE k = p + 1
      BY <1>0, <2>1, <3>1
    <3>2. CASE k # p + 1
      BY <1>9, <2>1, <3>2
    <3> QED BY <3>1, <3>2
  <2>2. ASSUME NEW j \in 1..Len(b), b[j].at = 2 * q, ~b[j].pending
        PROVE  \E k \in 1..Len(s) : s[k].at = 2 * q /\ ~s[k].pending
    <3>1. PICK k \in 1..Len(s) : k # p + 1 /\ s[k] = b[j]
      BY <1>0
    <3> QED BY <2>2, <3>1
  <2>3. m.at = 2 * q /\ ~m.pending => \E k \in 1..Len(s) : s[k].at = 2 * q /\ ~s[k].pending
    BY <1>0
  <2> QED BY <2>1, <2>2, <2>3
<1>8. ShownIn(s, l) = ShownIn(b, l) \cup {q \in 1..Len(l) : m.at = 2 * q /\ ~m.pending}
  BY <1>7 DEF ShownIn
<1> QED BY <1>2, <1>3, <1>4, <1>5, <1>6, <1>8

\* Taken in at its place, it leaves the buffer in order.
LEMMA SplicedSorted ==
    ASSUME NEW b \in Seq(Entries), NEW m \in Entries, Sorted(b)
    PROVE  Sorted(Spliced(b, Place(b, m.at), m))
<1> DEFINE p == Place(b, m.at)
           s == Spliced(b, p, m)
           from(k) == IF k <= p THEN k ELSE k - 1
<1>1. m.at \in Nat /\ Len(b) \in Nat /\ \A i \in 1..Len(b) : b[i].at \in Nat
  <2>1. \A i \in 1..Len(b) : b[i] \in Entries
    OBVIOUS
  <2> QED BY <2>1, EntryFields
<1>2. p \in 0..Len(b) /\ \A i \in 1..Len(b) : b[i].at <= m.at <=> i <= p
  BY <1>1, PlaceIs
<1> HIDE DEF p
<1>3. /\ s \in Seq(Entries) /\ Len(s) = Len(b) + 1
      /\ p + 1 \in 1..Len(s) /\ s[p + 1] = m
      /\ \A k \in 1..Len(s) : k # p + 1 => from(k) \in 1..Len(b) /\ s[k] = b[from(k)]
  <2>1. TakenIn(b, p, m, s)
    BY <1>2, SplicedFrom
  <2> HIDE DEF s
  <2> QED BY <2>1 DEF TakenIn
<1> HIDE DEF s
<1> SUFFICES ASSUME NEW k \in 1..Len(s), NEW n \in 1..Len(s), k < n PROVE s[k].at <= s[n].at
  BY DEF Sorted, s, p
<1>4. CASE k # p + 1 /\ n # p + 1
  <2>1. from(k) < from(n)
    BY <1>2, <1>3, <1>4
  <2> HIDE DEF from
  <2> QED BY <1>3, <1>4, <2>1 DEF Sorted
<1>5. CASE k = p + 1
  <2>1. n # p + 1 /\ ~(from(n) <= p)
    BY <1>2, <1>3, <1>5
  <2>2. s[n] = b[from(n)] /\ from(n) \in 1..Len(b)
    BY <1>3, <2>1
  <2> HIDE DEF from
  <2> QED BY <1>1, <1>2, <1>3, <1>5, <2>1, <2>2
<1>6. CASE n = p + 1
  <2>1. k # p + 1 /\ from(k) <= p
    BY <1>2, <1>3, <1>6
  <2>2. s[k] = b[from(k)] /\ from(k) \in 1..Len(b)
    BY <1>3, <2>1
  <2> HIDE DEF from
  <2> QED BY <1>1, <1>2, <1>3, <1>6, <2>1, <2>2
<1> QED BY <1>4, <1>5, <1>6

----------------------------------------------------------------------------
(* A buffer into which a message is read, or a line said.                  *)

\* Two that are confirmed are equal when they have time and text in common.
LEMMA SameEntry ==
    ASSUME NEW e \in Entries, NEW m \in Entries, Same(e, m), ~e.pending, ~m.pending
    PROVE  e = m
<1>1. e = [at |-> e.at, text |-> e.text, pending |-> FALSE]
  BY DEF Entries
<1>2. m = [at |-> m.at, text |-> m.text, pending |-> FALSE]
  BY DEF Entries
<1> QED BY <1>1, <1>2 DEF Same

\* A settled message is an entry.
LEMMA SettledIs ==
    ASSUME NEW m, m.at \in Nat, m.text \in {Other} \cup Texts
    PROVE  /\ Settled(m) \in Entries
           /\ Settled(m).at = m.at /\ Settled(m).text = m.text /\ Settled(m).pending = FALSE
BY DEF Settled, Entries

\* Merging an entry with its second copy.
LEMMA SetSettled ==
    ASSUME NEW b \in Seq(Entries), NEW i \in 1..Len(b), NEW m \in Entries, Same(b[i], m),
           NEW s, s = [b EXCEPT ![i] = Settled(m)]
    PROVE  /\ s \in Seq(Entries) /\ Len(s) = Len(b)
           /\ \A k \in 1..Len(b) : /\ s[k].at = b[k].at /\ s[k].text = b[k].text
                                   /\ s[k].pending => b[k].pending
           /\ ~b[i].pending => s = b
<1> DEFINE e == Settled(m)
<1>0. b[i] \in Entries
  OBVIOUS
<1>1. e \in Entries /\ e.at = b[i].at /\ e.text = b[i].text /\ e.pending = FALSE
  BY EntryFields, SettledIs, Same(b[i], m) DEF Same
<1>2. s = [b EXCEPT ![i] = e]
  BY s = [b EXCEPT ![i] = Settled(m)]
<1> HIDE DEF e
<1>3. ~b[i].pending => e = b[i]
  BY <1>0, <1>1, SameEntry DEF Same
<1>4. /\ s \in Seq(Entries) /\ Len(s) = Len(b) /\ s[i] = e
      /\ \A k \in 1..Len(b) : k # i => s[k] = b[k]
  BY <1>1, <1>2
<1>5. e = b[i] => s = b
  BY <1>2
<1> QED BY <1>1, <1>3, <1>4, <1>5

\* A place is one in the buffer.
LEMMA PlaceOk ==
    ASSUME NEW b \in Seq(Entries), NEW m \in Entries
    PROVE  Place(b, m.at) \in 0..Len(b)
BY PlaceIs, EntryFields

\* What a buffer becomes that a logged message is read into, untrimmed.
TakenUp(b, l, m, s) ==
    /\ s \in Seq(Entries) /\ Sound(s, l) /\ Keys(s)
    /\ Alone(b) => /\ Alone(s)
                   /\ \A i \in 1..Len(s) : s[i].pending =>
                        s[i].text # m.text /\ \E j \in 1..Len(b) : b[j] = s[i]
    /\ Delivered(b) => Delivered(s)
    /\ Even(b) /\ Sorted(b) => Even(s) /\ Sorted(s)
    /\ ShownIn(s, l) = ShownIn(b, l) \cup {q \in 1..Len(l) : m.at = 2 * q}

\* An echo that replaces the line that waited for it.
LEMMA ReadReplaces ==
    ASSUME NEW b \in Seq(Entries), Len(b) <= Limit, NEW l, Sound(b, l), Keys(b),
           NEW m \in Entries, TrueEntry(m, l), m.at % 2 = 0, ~m.pending,
           NEW i \in 1..Len(b), b[i].pending, b[i].text = m.text,
           \A j \in 1..Len(b) : b[j] # m,
           NEW s, s = [b EXCEPT ![i] = m]
    PROVE  TakenUp(b, l, m, s) /\ Trimmed(s) = s
<1>1. s \in Seq(Entries) /\ Len(s) = Len(b) /\ s[i] = m
      /\ \A k \in 1..Len(b) : k # i => s[k] = b[k]
  BY s = [b EXCEPT ![i] = m]
<1>2. b[i].at % 2 = 1 /\ Len(b) \in Nat
  BY DEF Sound, TrueEntry
<1>3. Sound(s, l)
  BY <1>1 DEF Sound
<1>4. ASSUME NEW k \in 1..Len(b), Same(b[k], m) PROVE FALSE
  <2>1. b[k] \in Entries /\ ~b[k].pending
    BY <1>4, m.at % 2 = 0 DEF Sound, TrueEntry, Same
  <2>2. b[k] = m
    BY <1>4, <2>1, ~m.pending, SameEntry
  <2> QED BY <2>2
<1>5. Keys(s)
  <2> SUFFICES ASSUME NEW k \in 1..Len(b), NEW n \in 1..Len(b), Same(s[k], s[n]) PROVE k = n
    BY <1>1 DEF Keys
  <2>1. CASE k # i /\ n # i
    BY <1>1, <2>1 DEF Keys
  <2>2. CASE k = i /\ n # i
    <3>1. Same(b[n], m)
      BY <1>1, <2>2 DEF Same
    <3> QED BY <1>4, <3>1
  <2>3. CASE k # i /\ n = i
    <3>1. Same(b[k], m)
      BY <1>1, <2>3 DEF Same
    <3> QED BY <1>4, <3>1
  <2> QED BY <2>1, <2>2, <2>3
<1>6. ASSUME Alone(b)
      PROVE  /\ Alone(s)
             /\ \A k \in 1..Len(s) : s[k].pending =>
                   s[k].text # m.text /\ \E j \in 1..Len(b) : b[j] = s[k]
  <2>1. \A k \in 1..Len(b) : b[k].text = m.text => k = i
    BY <1>6 DEF Alone
  <2>2. ASSUME NEW k \in 1..Len(b), s[k].pending PROVE k # i /\ s[k] = b[k] /\ s[k].text # m.text
    BY <1>1, <2>1, <2>2
  <2>3. Alone(s)
    <3> SUFFICES ASSUME NEW k \in 1..Len(b), NEW n \in 1..Len(b), s[k].pending, s[k].text = s[n].text
                 PROVE  k = n
      BY <1>1 DEF Alone
    <3>1. k # i /\ n # i /\ s[k] = b[k] /\ s[n] = b[n]
      BY <1>1, <2>2
    <3> QED BY <1>6, <3>1 DEF Alone
  <2> QED BY <1>1, <2>2, <2>3
<1>7. Delivered(b) => Delivered(s)
  BY <1>1, m.at % 2 = 0 DEF Delivered
<1>8. ~Even(b)
  <2>1. b[i].at % 2 # 0
    BY <1>2
  <2> QED BY <2>1 DEF Even
<1>9. ShownIn(s, l) = ShownIn(b, l) \cup {q \in 1..Len(l) : m.at = 2 * q}
  BY <1>1 DEF ShownIn
<1>10. Trimmed(s) = s
  BY <1>1, TrimmedIs
<1> QED BY <1>1, <1>3, <1>5, <1>6, <1>7, <1>8, <1>9, <1>10 DEF TakenUp

\* A message the log has, read into a buffer, is taken up.
LEMMA ReadInto ==
    ASSUME NEW b \in Seq(Entries), Len(b) <= Limit, NEW l, Sound(b, l), Keys(b),
           NEW m \in Entries, TrueEntry(m, l), m.at % 2 = 0, ~m.pending,
           NEW c, c = IF m.text \in Texts THEN Reconcile(b, m) ELSE Insert(b, m)
    PROVE  \E s : TakenUp(b, l, m, s) /\ c = Trimmed(s)
<1>0. Len(b) \in Nat /\ m.at \in Nat /\ m.text \in {Other} \cup Texts
  BY EntryFields
<1>1. ASSUME NEW i \in 1..Len(b), Same(b[i], m)
      PROVE  b[i] = m /\ [b EXCEPT ![i] = Settled(m)] = b
  <2>1. b[i] \in Entries /\ ~b[i].pending
    BY <1>1, m.at % 2 = 0 DEF Sound, TrueEntry, Same
  <2>2. b[i] = m
    BY <1>1, <2>1, ~m.pending, SameEntry
  <2> DEFINE s == [b EXCEPT ![i] = Settled(m)]
  <2>3. s = [b EXCEPT ![i] = Settled(m)]
    OBVIOUS
  <2> HIDE DEF s
  <2>4. s = b
    BY <1>1, <2>1, <2>3, SetSettled
  <2> QED BY <2>2, <2>4 DEF s
<1>2. CASE \E i \in 1..Len(b) : /\ b[i].pending /\ b[i].text = m.text
                                /\ \A j \in 1..Len(b) : b[j] # m
                                /\ c = [b EXCEPT ![i] = m]
  <2>1. PICK i \in 1..Len(b) : /\ b[i].pending /\ b[i].text = m.text
                              /\ \A j \in 1..Len(b) : b[j] # m
                              /\ c = [b EXCEPT ![i] = m]
    BY <1>2
  <2>2. TakenUp(b, l, m, c) /\ Trimmed(c) = c
    BY <2>1, ReadReplaces, m.at % 2 = 0, ~m.pending
  <2> QED BY <2>2
<1>3. CASE /\ c = Insert(b, m)
           /\ \/ \A i \in 1..Len(b) : ~(b[i].pending /\ b[i].text = m.text)
              \/ \E i \in 1..Len(b) : b[i] = m
  <2>1. CASE \E i \in 1..Len(b) : Same(b[i], m) /\ c = b
    <3>1. PICK i \in 1..Len(b) : b[i] = m
      BY <1>1, <2>1
    <3>2. Alone(b) => \A k \in 1..Len(b) : b[k].pending => b[k].text # m.text
      BY <3>1, ~m.pending DEF Alone
    <3>3. ShownIn(b, l) = ShownIn(b, l) \cup {q \in 1..Len(l) : m.at = 2 * q}
      BY <3>1, ~m.pending DEF ShownIn
    <3>4. TakenUp(b, l, m, b)
      BY <3>2, <3>3 DEF TakenUp
    <3> QED BY <2>1, <3>4, TrimmedIs
  <2>2. CASE (\A i \in 1..Len(b) : ~Same(b[i], m)) /\ c = Trimmed(Spliced(b, Place(b, m.at), m))
    <3> DEFINE p == Place(b, m.at)
               s == Spliced(b, p, m)
    <3>1. p \in 0..Len(b)
      BY PlaceOk
    <3>2. \A i \in 1..Len(b) : ~(b[i].pending /\ b[i].text = m.text)
      <4>1. \A i \in 1..Len(b) : b[i] # m
        BY <2>2 DEF Same
      <4> QED BY <1>3, <4>1
    <3>3. Even(b) /\ Sorted(b) => Sorted(s)
      BY SplicedSorted
    <3> HIDE DEF p
    <3>4. /\ s \in Seq(Entries) /\ Len(s) = Len(b) + 1
          /\ p + 1 \in 1..Len(s) /\ s[p + 1] = m
          /\ \A k \in 1..Len(s) : k # p + 1 => \E j \in 1..Len(b) : s[k] = b[j]
      <4>1. TakenIn(b, p, m, s)
        BY <3>1, SplicedFrom
      <4> HIDE DEF s
      <4> QED BY <4>1 DEF TakenIn
    <3>5. /\ Sound(s, l) /\ Keys(s)
          /\ Alone(b) => Alone(s)
          /\ Delivered(b) => Delivered(s)
          /\ Even(b) => Even(s)
          /\ ShownIn(s, l) = ShownIn(b, l) \cup {q \in 1..Len(l) : m.at = 2 * q /\ ~m.pending}
      BY <2>2, <3>1, <3>2, SplicedKeeps, m.at % 2 = 0, ~m.pending
    <3> HIDE DEF s
    <3>6. ASSUME NEW i \in 1..Len(s), s[i].pending
          PROVE  s[i].text # m.text /\ \E j \in 1..Len(b) : b[j] = s[i]
      BY <3>2, <3>4, <3>6, ~m.pending
    <3>7. TakenUp(b, l, m, s)
      BY <3>3, <3>4, <3>5, <3>6, ~m.pending DEF TakenUp
    <3> QED BY <2>2, <3>7 DEF s, p
  <2>3. \/ \E i \in 1..Len(b) : /\ Same(b[i], m)
                                /\ \/ m.pending /\ ~b[i].pending /\ Insert(b, m) = b
                                   \/ Insert(b, m) = [b EXCEPT ![i] = Settled(m)]
        \/ /\ \A i \in 1..Len(b) : ~Same(b[i], m)
           /\ Insert(b, m) = Trimmed(Spliced(b, Place(b, m.at), m))
    BY InsertIs
  <2> QED BY <1>1, <1>3, <2>1, <2>2, <2>3
<1>4. \/ \E i \in 1..Len(b) : /\ b[i].pending /\ b[i].text = m.text
                              /\ \A j \in 1..Len(b) : b[j] # m
                              /\ c = [b EXCEPT ![i] = m]
      \/ /\ c = Insert(b, m)
         /\ \/ \A i \in 1..Len(b) : ~(b[i].pending /\ b[i].text = m.text)
            \/ \E i \in 1..Len(b) : b[i] = m
  <2>1. CASE m.text \in Texts
    BY <2>1, ReconcileIs
  <2>2. CASE m.text \notin Texts
    <3>1. \A i \in 1..Len(b) : b[i].pending => b[i].text \in Texts
      BY DEF Sound, TrueEntry
    <3> QED BY <2>2, <3>1
  <2> QED BY <2>1, <2>2
<1> QED BY <1>2, <1>3, <1>4

\* Our line, shown ahead of the server.
LEMMA SayInto ==
    ASSUME NEW b \in Seq(Entries), Len(b) <= Limit, NEW l, Sound(b, l), Keys(b),
           NEW m \in Entries, TrueEntry(m, l), m.at % 2 = 1, m.pending
    PROVE  \E s : /\ Insert(b, m) = Trimmed(s)
                  /\ s \in Seq(Entries) /\ Sound(s, l) /\ Keys(s)
                  /\ (\A i \in 1..Len(b) : b[i].text # m.text) =>
                        /\ Alone(b) => Alone(s)
                        /\ Delivered(b) => Delivered(s)
                        /\ \A i \in 1..Len(s) : s[i] = m \/ \E j \in 1..Len(b) : b[j] = s[i]
                        /\ ShownIn(s, l) = ShownIn(b, l)
<1>0. Len(b) \in Nat /\ m.at \in Nat
  BY EntryFields
<1>1. CASE \E i \in 1..Len(b) : Same(b[i], m)
  <2>0. ~\A i \in 1..Len(b) : b[i].text # m.text
    BY <1>1 DEF Same
  <2>1. CASE Insert(b, m) = b
    BY <2>0, <2>1, TrimmedIs
  <2>2. CASE \E i \in 1..Len(b) : Same(b[i], m) /\ Insert(b, m) = [b EXCEPT ![i] = Settled(m)]
    <3> DEFINE s == Insert(b, m)
    <3>1. PICK i \in 1..Len(b) : Same(b[i], m) /\ s = [b EXCEPT ![i] = Settled(m)]
      BY <2>2
    <3> HIDE DEF s
    <3>4. /\ s \in Seq(Entries) /\ Len(s) = Len(b)
          /\ \A k \in 1..Len(b) : /\ s[k].at = b[k].at /\ s[k].text = b[k].text
                                  /\ s[k].pending => b[k].pending
      BY <3>1, SetSettled
    <3>6. Sound(s, l)
      BY <3>4 DEF Sound, TrueEntry
    <3>8. Keys(s)
      BY <3>4 DEF Keys, Same
    <3>9. Trimmed(s) = s
      BY <3>4, TrimmedIs
    <3> QED BY <2>0, <3>4, <3>6, <3>8, <3>9 DEF s
  <2> QED BY <1>1, <2>1, <2>2, InsertIs
<1>2. CASE (\A i \in 1..Len(b) : ~Same(b[i], m)) /\ Insert(b, m) = Trimmed(Spliced(b, Place(b, m.at), m))
  <2> DEFINE p == Place(b, m.at)
             s == Spliced(b, p, m)
  <2>1. p \in 0..Len(b)
    BY PlaceOk
  <2> HIDE DEF p
  <2>4. /\ s \in Seq(Entries)
        /\ \A k \in 1..Len(s) : s[k] = m \/ \E j \in 1..Len(b) : b[j] = s[k]
    <3>1. TakenIn(b, p, m, s)
      BY <2>1, SplicedFrom
    <3> HIDE DEF s
    <3> QED BY <3>1 DEF TakenIn
  <2>5. /\ Sound(s, l) /\ Keys(s)
        /\ Alone(b) /\ (\A i \in 1..Len(b) : b[i].text # m.text) => Alone(s)
        /\ Delivered(b) => Delivered(s)
        /\ ShownIn(s, l) = ShownIn(b, l) \cup {q \in 1..Len(l) : m.at = 2 * q /\ ~m.pending}
    BY <1>2, <2>1, SplicedKeeps, m.pending
  <2>6. ShownIn(s, l) = ShownIn(b, l)
    BY <2>5, m.pending
  <2> HIDE DEF s
  <2> QED BY <1>2, <2>4, <2>5, <2>6 DEF s, p
<1> QED BY <1>1, <1>2, InsertIs

----------------------------------------------------------------------------
(* Room: how many entries there can be.                                    *)

\* Lines the client sends, and lines it is told.
Asks == [cmd : {"LATEST"}] \cup [cmd : {"BEFORE"}, at : Nat] \cup [cmd : {"SAY"}, text : Texts]
Tells == [cmd : {"OPEN", "CLOSE", "FAIL"}]
            \cup [cmd : {"MSG"}, at : Nat, text : {Other} \cup Texts, batched : BOOLEAN]

\* The messages under way are those of the log, and pages are asked for by them.
ToldTrue(tc, l) ==
    \A i \in 1..Len(tc) : tc[i].cmd = "MSG" => \E p \in 1..Len(l) : tc[i].at = 2 * p /\ tc[i].text = l[p]
AskedTrue(ts, l) ==
    \A i \in 1..Len(ts) : ts[i].cmd = "BEFORE" => \E p \in 1..Len(l) : ts[i].at = 2 * p

\* A line that is not confirmed is on its way, there or back.
AwaitedIn(b, ts, tc) ==
    \A i \in 1..Len(b) : b[i].pending =>
       \/ \E k \in 1..Len(ts) : ts[k].cmd = "SAY" /\ ts[k].text = b[i].text
       \/ \E k \in 1..Len(tc) : tc[k].cmd = "MSG" /\ tc[k].text = b[i].text

SaysIn(ts) == {k \in 1..Len(ts) : ts[k].cmd = "SAY"}

\* The positions of the log, and those of what is on its way to it.
Units(l, ts) == (1..Len(l)) \cup {Len(l) + k : k \in SaysIn(ts)}

\* There are n numbers up to n.
LEMMA UpToCard ==
    ASSUME NEW n \in Nat
    PROVE  IsFiniteSet(1..n) /\ Cardinality(1..n) = n
<1>1. 1 \in Int /\ n \in Int
  OBVIOUS
<1>2. IsFiniteSet(1..n) /\ Cardinality(1..n) = IF 1 > n THEN 0 ELSE n - 1 + 1
  BY <1>1, FS_Interval
<1> QED BY <1>2

\* There is a number of units.
LEMMA UnitsFinite ==
    ASSUME NEW l, Len(l) \in Nat, NEW ts, Len(ts) \in Nat
    PROVE  IsFiniteSet(Units(l, ts)) /\ Cardinality(Units(l, ts)) \in Nat /\ Units(l, ts) \subseteq Nat
<1>1. Units(l, ts) \subseteq 1..(Len(l) + Len(ts))
  BY DEF Units, SaysIn
<1>2. IsFiniteSet(1..(Len(l) + Len(ts)))
  BY FS_Interval
<1>3. IsFiniteSet(Units(l, ts))
  BY <1>1, <1>2, FS_Subset
<1> QED BY <1>1, <1>3, FS_CardinalityType

\* An entry stands for a unit, and no two for the same.
LEMMA Fits ==
    ASSUME NEW s \in Seq(Entries), NEW l, Len(l) \in Nat, NEW ts, Len(ts) \in Nat, NEW tc,
           Sound(s, l), Keys(s), Alone(s), Delivered(s), AwaitedIn(s, ts, tc), ToldTrue(tc, l)
    PROVE  Len(s) <= Cardinality(Units(l, ts))
<1> DEFINE what(u) == IF u <= Len(l) THEN l[u] ELSE ts[u - Len(l)].text
           Is(i, u) == /\ u \in Units(l, ts) /\ what(u) = s[i].text
                       /\ ~s[i].pending => s[i].at = 2 * u
           f == [i \in 1..Len(s) |-> CHOOSE u : Is(i, u)]
<1>0. Len(s) \in Nat
  OBVIOUS
<1>1. ASSUME NEW i \in 1..Len(s) PROVE \E u : Is(i, u)
  <2>1. CASE ~s[i].pending
    <3>1. s[i].at % 2 = 0
      BY <2>1 DEF Delivered
    <3>2. PICK p \in 1..Len(l) : s[i].at = 2 * p /\ s[i].text = l[p]
      BY <3>1 DEF Sound, TrueEntry
    <3>3. Is(i, p)
      BY <3>2 DEF Units
    <3> QED BY <3>3
  <2>2. CASE s[i].pending /\ \E k \in 1..Len(ts) : ts[k].cmd = "SAY" /\ ts[k].text = s[i].text
    <3>1. PICK k \in 1..Len(ts) : ts[k].cmd = "SAY" /\ ts[k].text = s[i].text
      BY <2>2
    <3>2. Len(l) + k \in Units(l, ts) /\ ~(Len(l) + k <= Len(l)) /\ (Len(l) + k) - Len(l) = k
      BY <3>1 DEF Units, SaysIn
    <3>3. Is(i, Len(l) + k)
      BY <2>2, <3>1, <3>2
    <3> QED BY <3>3
  <2>3. CASE s[i].pending /\ \E k \in 1..Len(tc) : tc[k].cmd = "MSG" /\ tc[k].text = s[i].text
    <3>1. PICK p \in 1..Len(l) : l[p] = s[i].text
      BY <2>3 DEF ToldTrue
    <3>2. Is(i, p)
      BY <2>3, <3>1 DEF Units
    <3> QED BY <3>2
  <2> QED BY <2>1, <2>2, <2>3 DEF AwaitedIn
<1>2. \A i \in 1..Len(s) : Is(i, f[i])
  <2> HIDE DEF Is
  <2> QED BY <1>1
<1>3. f \in [1..Len(s) -> Units(l, ts)]
  <2>1. \A i \in 1..Len(s) : f[i] \in Units(l, ts)
    BY <1>2
  <2> HIDE DEF Is
  <2> QED BY <2>1
<1> HIDE DEF f
<1>4. ASSUME NEW i \in 1..Len(s), NEW j \in 1..Len(s), f[i] = f[j] PROVE i = j
  <2>1. s[i].text = s[j].text
    BY <1>2, <1>4
  <2>2. CASE s[i].pending \/ s[j].pending
    BY <2>1, <2>2 DEF Alone
  <2>3. CASE ~s[i].pending /\ ~s[j].pending
    <3>1. s[i].at = s[j].at
      BY <1>2, <1>4, <2>3
    <3> QED BY <2>1, <3>1 DEF Keys, Same
  <2> QED BY <2>2, <2>3
<1>5. f \in Injection(1..Len(s), Units(l, ts))
  <2> HIDE DEF Is
  <2> QED BY <1>3, <1>4 DEF Injection, IsInjective
<1>6. IsFiniteSet(1..Len(s)) /\ Cardinality(1..Len(s)) = Len(s)
  BY <1>0, UpToCard
<1>7. IsFiniteSet(Units(l, ts))
  BY UnitsFinite
<1>8. Cardinality(1..Len(s)) <= Cardinality(Units(l, ts))
  BY <1>5, <1>7, FS_Injection
<1> QED BY <1>6, <1>8

\* A unit more, a unit said, or the same ones further on.
LEMMA UnitsMore ==
    ASSUME NEW l, Len(l) \in Nat, NEW ts \in Seq(Asks), NEW x \in Asks
    PROVE  Cardinality(Units(l, ts)) <= Cardinality(Units(l, Append(ts, x)))
<1>1. /\ Len(Append(ts, x)) = Len(ts) + 1 /\ Len(ts) \in Nat
      /\ \A k \in 1..Len(ts) : Append(ts, x)[k] = ts[k]
  OBVIOUS
<1>2. SaysIn(ts) \subseteq SaysIn(Append(ts, x))
  BY <1>1 DEF SaysIn
<1>3. Units(l, ts) \subseteq Units(l, Append(ts, x))
  BY <1>2 DEF Units
<1>4. IsFiniteSet(Units(l, Append(ts, x)))
  <2>1. Len(Append(ts, x)) \in Nat
    BY <1>1
  <2> QED BY <2>1, UnitsFinite
<1> QED BY <1>3, <1>4, FS_Subset

\* A line that is said is the same unit as when it was on its way.
LEMMA UnitSaid ==
    ASSUME NEW T, NEW l \in Seq(T), NEW x \in T, NEW ts \in Seq(Asks), ts # <<>>, Head(ts).cmd = "SAY"
    PROVE  Units(Append(l, x), Tail(ts)) = Units(l, ts)
<1>1. /\ Len(Append(l, x)) = Len(l) + 1 /\ Len(l) \in Nat
      /\ Len(Tail(ts)) = Len(ts) - 1 /\ Len(ts) \in Nat /\ Len(ts) > 0
      /\ \A k \in 1..(Len(ts) - 1) : Tail(ts)[k] = ts[k + 1]
      /\ ts[1].cmd = "SAY"
  OBVIOUS
<1>2. ASSUME NEW u \in Units(Append(l, x), Tail(ts)) PROVE u \in Units(l, ts)
  <2>1. CASE u \in 1..(Len(l) + 1)
    <3>1. CASE u = Len(l) + 1
      BY <1>1, <3>1 DEF Units, SaysIn
    <3>2. CASE u # Len(l) + 1
      BY <1>1, <2>1, <3>2 DEF Units
    <3> QED BY <3>1, <3>2
  <2>2. CASE u \notin 1..(Len(l) + 1)
    <3>1. PICK k \in SaysIn(Tail(ts)) : u = Len(l) + 1 + k
      BY <1>1, <1>2, <2>2 DEF Units
    <3>2. k \in 1..(Len(ts) - 1) /\ ts[k + 1].cmd = "SAY" /\ k + 1 \in 1..Len(ts)
      BY <1>1, <3>1 DEF SaysIn
    <3>3. k + 1 \in SaysIn(ts) /\ u = Len(l) + (k + 1)
      BY <1>1, <3>1, <3>2 DEF SaysIn
    <3> QED BY <3>3 DEF Units
  <2> QED BY <2>1, <2>2
<1>3. ASSUME NEW u \in Units(l, ts) PROVE u \in Units(Append(l, x), Tail(ts))
  <2>1. CASE u \in 1..Len(l)
    BY <1>1, <2>1 DEF Units
  <2>2. CASE u \notin 1..Len(l)
    <3>1. PICK k \in SaysIn(ts) : u = Len(l) + k
      BY <1>3, <2>2 DEF Units
    <3>2. CASE k = 1
      BY <1>1, <3>1, <3>2 DEF Units
    <3>3. CASE k # 1
      <4>1. k \in 1..Len(ts) /\ ts[k].cmd = "SAY"
        BY <3>1 DEF SaysIn
      <4>2. k - 1 \in 1..(Len(ts) - 1) /\ (k - 1) + 1 = k
        BY <1>1, <3>3, <4>1
      <4>3. k - 1 \in SaysIn(Tail(ts)) /\ u = Len(l) + 1 + (k - 1)
        BY <1>1, <3>1, <4>1, <4>2 DEF SaysIn
      <4> QED BY <1>1, <4>3 DEF Units
    <3> QED BY <3>2, <3>3
  <2> QED BY <2>1, <2>2
<1> QED BY <1>2, <1>3

\* Units that are moved on are no fewer.
LEMMA UnitsShift ==
    ASSUME NEW l, Len(l) \in Nat, NEW ts, Len(ts) \in Nat, NEW l2, Len(l2) \in Nat, NEW ts2, Len(ts2) \in Nat,
           NEW d \in Int, Len(l) <= Len(l2),
           \A k \in SaysIn(ts) : Len(l) + k + d > Len(l) /\ Len(l) + k + d \in Units(l2, ts2)
    PROVE  Cardinality(Units(l, ts)) <= Cardinality(Units(l2, ts2))
<1> DEFINE f == [u \in Units(l, ts) |-> IF u <= Len(l) THEN u ELSE u + d]
<1>1. ASSUME NEW u \in Units(l, ts), ~(u <= Len(l)) PROVE u + d > Len(l) /\ u + d \in Units(l2, ts2)
  BY <1>1 DEF Units
<1>2. ASSUME NEW u \in Units(l, ts), u <= Len(l) PROVE u \in Units(l2, ts2)
  BY <1>2 DEF Units, SaysIn
<1>3. f \in [Units(l, ts) -> Units(l2, ts2)]
  BY <1>1, <1>2
<1>4. ASSUME NEW u \in Units(l, ts), NEW v \in Units(l, ts), f[u] = f[v] PROVE u = v
  <2>1. u \in Nat /\ v \in Nat
    BY UnitsFinite
  <2> QED BY <1>1, <1>4, <2>1
<1> HIDE DEF f
<1>5. f \in Injection(Units(l, ts), Units(l2, ts2))
  BY <1>3, <1>4 DEF Injection, IsInjective
<1> QED BY <1>5, UnitsFinite, FS_Injection

----------------------------------------------------------------------------
(* Batches.                                                                *)

\* Between j and k the lines are messages of a batch.
IsPage(tc, k, j) == \A i \in (j + 1)..(k - 1) : tc[i].cmd = "MSG" /\ tc[i].batched

\* Each batch that is closed was opened, is being received or will be, with
\* nothing between but its messages, as many as N allows.
BracketedIn(tc, bt, N) ==
    \A k \in 1..Len(tc) : tc[k].cmd = "CLOSE" =>
       \/ \E j \in 1..(k - 1) : tc[j].cmd = "OPEN" /\ IsPage(tc, k, j) /\ k - j - 1 \in N
       \/ bt.open /\ IsPage(tc, k, 0) /\ bt.count + k - 1 \in N

\* A batch is bracketed still when more follows.
LEMMA BracketedOn ==
    ASSUME NEW tc, Len(tc) \in Nat, NEW tc2, Len(tc2) \in Nat, Len(tc) <= Len(tc2),
           \A i \in 1..Len(tc) : tc2[i] = tc[i],
           NEW bt, NEW N, NEW N2, N \subseteq N2, BracketedIn(tc, bt, N),
           NEW k \in 1..Len(tc), tc2[k].cmd = "CLOSE"
    PROVE  \/ \E j \in 1..(k - 1) : tc2[j].cmd = "OPEN" /\ IsPage(tc2, k, j) /\ k - j - 1 \in N2
           \/ bt.open /\ IsPage(tc2, k, 0) /\ bt.count + k - 1 \in N2
<1>1. tc[k].cmd = "CLOSE" /\ \A j \in 1..(k - 1) : tc2[j] = tc[j] /\ j \in 1..Len(tc)
  OBVIOUS
<1>2. \A j \in 0..(k - 1) : IsPage(tc, k, j) => IsPage(tc2, k, j)
  BY <1>1 DEF IsPage
<1>3. CASE \E j \in 1..(k - 1) : tc[j].cmd = "OPEN" /\ IsPage(tc, k, j) /\ k - j - 1 \in N
  <2>1. PICK j \in 1..(k - 1) : tc[j].cmd = "OPEN" /\ IsPage(tc, k, j) /\ k - j - 1 \in N
    BY <1>3
  <2>2. tc2[j].cmd = "OPEN" /\ IsPage(tc2, k, j)
    BY <1>1, <1>2, <2>1
  <2> QED BY <2>1, <2>2
<1>4. CASE bt.open /\ IsPage(tc, k, 0) /\ bt.count + k - 1 \in N
  <2>1. 0 \in 0..(k - 1)
    OBVIOUS
  <2> QED BY <1>2, <1>4, <2>1
<1> QED BY <1>1, <1>3, <1>4 DEF BracketedIn

\* A line behind it, and ...
LEMMA BracketedAppend ==
    ASSUME NEW tc \in Seq(Tells), NEW x \in Tells, x.cmd # "CLOSE",
           NEW bt, NEW N, NEW N2, N \subseteq N2, BracketedIn(tc, bt, N)
    PROVE  BracketedIn(Append(tc, x), bt, N2)
<1> DEFINE tc2 == Append(tc, x)
<1>1. /\ Len(tc) \in Nat /\ Len(tc2) = Len(tc) + 1 /\ tc2[Len(tc) + 1] = x
      /\ \A i \in 1..Len(tc) : tc2[i] = tc[i]
  OBVIOUS
<1> HIDE DEF tc2
<1>2. SUFFICES ASSUME NEW k \in 1..Len(tc2), tc2[k].cmd = "CLOSE"
               PROVE  \/ \E j \in 1..(k - 1) : tc2[j].cmd = "OPEN" /\ IsPage(tc2, k, j) /\ k - j - 1 \in N2
                      \/ bt.open /\ IsPage(tc2, k, 0) /\ bt.count + k - 1 \in N2
  BY DEF BracketedIn, tc2
<1>3. k \in 1..Len(tc)
  BY <1>1, <1>2, x.cmd # "CLOSE"
<1>4. Len(tc2) \in Nat /\ Len(tc) <= Len(tc2)
  BY <1>1
<1> QED BY <1>1, <1>2, <1>3, <1>4, BracketedOn, N \subseteq N2

\* A function from 1..n is a sequence.
LEMMA SequenceIs ==
    ASSUME NEW S, NEW n \in Nat, NEW m \in [1..n -> S]
    PROVE  m \in Seq(S) /\ Len(m) = n
OBVIOUS

\* A sequence is one over whatever its elements are in.
LEMMA Retyped ==
    ASSUME NEW S, NEW s \in Seq(S), NEW T, \A i \in 1..Len(s) : s[i] \in T
    PROVE  s \in Seq(T)
<1>1. s \in [1..Len(s) -> T] /\ Len(s) \in Nat
  OBVIOUS
<1> QED BY <1>1, SequenceIs

\* The parts of a message.
LEMMA MessageIs ==
    ASSUME NEW l, NEW p, NEW batched
    PROVE  /\ Message(l, p, batched).cmd = "MSG" /\ Message(l, p, batched).at = 2 * p
           /\ Message(l, p, batched).text = l[p] /\ Message(l, p, batched).batched = batched
BY DEF Message

\* What an answer consists of.
LEMMA AnswerIs ==
    ASSUME NEW asked, Len(asked) \in Nat
    PROVE  /\ \E S : Answer(asked) \in Seq(S)
           /\ Len(Answer(asked)) = Len(asked) + 2
           /\ Answer(asked)[1] = [cmd |-> "OPEN"]
           /\ \A i \in 1..Len(asked) : Answer(asked)[i + 1] = Message(log, asked[i], TRUE)
           /\ Answer(asked)[Len(asked) + 2] = [cmd |-> "CLOSE"]
<1> DEFINE n == Len(asked)
           S == {Message(log, asked[i], TRUE) : i \in 1..n} \cup {[cmd |-> "OPEN"], [cmd |-> "CLOSE"]}
           a == <<[cmd |-> "OPEN"]>>
           m == [i \in 1..n |-> Message(log, asked[i], TRUE)]
           z == <<[cmd |-> "CLOSE"]>>
<1>1. a \in Seq(S) /\ Len(a) = 1 /\ a[1] = [cmd |-> "OPEN"]
  OBVIOUS
<1>2. m \in Seq(S) /\ Len(m) = n /\ \A i \in 1..n : m[i] = Message(log, asked[i], TRUE)
  <2>1. \A i \in 1..n : Message(log, asked[i], TRUE) \in S
    <3> TAKE i \in 1..n
    <3> QED OBVIOUS
  <2> HIDE DEF S
  <2>5. m \in [1..n -> S] /\ n \in Nat
    BY <2>1
  <2>2. m \in Seq(S)
    <3> HIDE DEF m
    <3> QED BY <2>5, SequenceIs
  <2>3. Len(m) = n
    OBVIOUS
  <2>4. \A i \in 1..n : m[i] = Message(log, asked[i], TRUE)
    OBVIOUS
  <2> QED BY <2>2, <2>3, <2>4
<1>3. z \in Seq(S) /\ Len(z) = 1 /\ z[1] = [cmd |-> "CLOSE"]
  OBVIOUS
<1>4. Answer(asked) = (a \o m) \o z
  BY DEF Answer
<1> HIDE DEF a, m, z, S
<1>5. /\ a \o m \in Seq(S) /\ Len(a \o m) = n + 1 /\ (a \o m)[1] = a[1]
      /\ \A i \in 1..n : (a \o m)[i + 1] = m[i]
  <2>0. a \in Seq(S) /\ m \in Seq(S)
    BY <1>1, <1>2
  <2>1. /\ a \o m \in Seq(S) /\ Len(a \o m) = Len(a) + Len(m)
        /\ \A i \in 1..Len(a) : (a \o m)[i] = a[i]
        /\ \A i \in 1..Len(m) : (a \o m)[Len(a) + i] = m[i]
    BY <2>0, Joined
  <2> QED BY <1>1, <1>2, <2>1
<1> DEFINE am == a \o m
<1> HIDE DEF am
<1>6. /\ am \o z \in Seq(S)
      /\ Len(am \o z) = n + 2
      /\ \A i \in 1..(n + 1) : (am \o z)[i] = am[i]
      /\ (am \o z)[n + 2] = z[1]
  <2>0. am \in Seq(S) /\ Len(am) = n + 1
    BY <1>5 DEF am
  <2>4. am \in Seq(S) /\ z \in Seq(S)
    BY <1>3, <2>0
  <2>1. /\ am \o z \in Seq(S) /\ Len(am \o z) = Len(am) + Len(z)
        /\ \A i \in 1..Len(am) : (am \o z)[i] = am[i]
        /\ \A i \in 1..Len(z) : (am \o z)[Len(am) + i] = z[i]
    BY <2>4, Joined
  <2>2. (n + 1) + 1 = n + 2 /\ 1 \in 1..Len(z)
    BY <1>3
  <2>3. (am \o z)[Len(am) + 1] = z[1]
    BY <2>1, <2>2
  <2> QED BY <1>3, <2>0, <2>1, <2>2, <2>3
<1>7. \A i \in 1..n : i + 1 \in 1..(n + 1)
  OBVIOUS
<1>8. 1 \in 1..(n + 1)
  OBVIOUS
<1> QED BY <1>1, <1>2, <1>3, <1>4, <1>5, <1>6, <1>7, <1>8 DEF am

\* ... an answer, which is a batch of its own.
LEMMA BracketedAnswer ==
    ASSUME NEW tc \in Seq(Tells), NEW asked, Len(asked) \in Nat, Answer(asked) \in Seq(Tells),
           NEW bt, NEW N, NEW N2, N \subseteq N2, BracketedIn(tc, bt, N),
           Len(asked) \in N2
    PROVE  BracketedIn(tc \o Answer(asked), bt, N2)
<1> DEFINE n == Len(asked)
           a == Answer(asked)
           tc2 == tc \o a
<1>0. /\ Len(a) = n + 2 /\ n \in Nat
      /\ a[1] = [cmd |-> "OPEN"]
      /\ \A i \in 1..n : a[i + 1] = Message(log, asked[i], TRUE)
      /\ a[n + 2] = [cmd |-> "CLOSE"]
  BY AnswerIs
<1>00. a \in Seq(Tells)
  OBVIOUS
<1> HIDE DEF a
<1>1. /\ Len(tc) \in Nat /\ Len(tc2) = Len(tc) + n + 2
      /\ \A i \in 1..Len(tc) : tc2[i] = tc[i]
      /\ \A i \in 1..(n + 2) : tc2[Len(tc) + i] = a[i]
  <2>1. /\ Len(tc \o a) = Len(tc) + Len(a)
        /\ \A i \in 1..Len(tc) : (tc \o a)[i] = tc[i]
        /\ \A i \in 1..Len(a) : (tc \o a)[Len(tc) + i] = a[i]
    BY <1>00, Joined
  <2> QED BY <1>0, <2>1
<1> HIDE DEF tc2
<1> SUFFICES ASSUME NEW k \in 1..Len(tc2), tc2[k].cmd = "CLOSE"
             PROVE  \/ \E j \in 1..(k - 1) : tc2[j].cmd = "OPEN" /\ IsPage(tc2, k, j) /\ k - j - 1 \in N2
                    \/ bt.open /\ IsPage(tc2, k, 0) /\ bt.count + k - 1 \in N2
  BY DEF BracketedIn, tc2, a
<1>2. CASE k \in 1..Len(tc)
  <2>1. Len(tc2) \in Nat /\ Len(tc) <= Len(tc2)
    BY <1>0, <1>1
  <2> QED BY <1>1, <1>2, <2>1, BracketedOn, N \subseteq N2
<1>3. CASE k \notin 1..Len(tc)
  <2>1. \A i \in 2..(n + 1) : a[i].cmd = "MSG" /\ a[i].batched
    <3> SUFFICES ASSUME NEW i \in 2..(n + 1) PROVE a[i].cmd = "MSG" /\ a[i].batched
      OBVIOUS
    <3>1. i - 1 \in 1..n /\ (i - 1) + 1 = i
      BY <1>0
    <3>2. a[i] = Message(log, asked[i - 1], TRUE)
      BY <1>0, <3>1
    <3>3. a[i].cmd = "MSG" /\ a[i].batched = TRUE
      <4> DEFINE p == asked[i - 1]
      <4> HIDE DEF p
      <4>1. a[i] = Message(log, p, TRUE)
        BY <3>2 DEF p
      <4> QED BY <4>1 DEF Message
    <3> QED BY <3>3
  <2>2. a[1].cmd # "CLOSE"
    BY <1>0
  <2>3. \A i \in 1..(n + 1) : a[i].cmd # "CLOSE"
    BY <1>0, <2>1, <2>2
  <2>4. k = Len(tc) + n + 2
    <3>1. k - Len(tc) \in 1..(n + 2) /\ tc2[k] = a[k - Len(tc)]
      <4>1. k - Len(tc) \in 1..(n + 2) /\ Len(tc) + (k - Len(tc)) = k
        BY <1>0, <1>1, <1>3
      <4> QED BY <1>1, <4>1
    <3>2. k - Len(tc) \notin 1..(n + 1)
      BY <2>3, <3>1
    <3> HIDE DEF n
    <3>3. n \in Nat /\ Len(tc) \in Nat /\ k \in Int
      BY <1>0, <1>1
    <3> QED BY <3>1, <3>2, <3>3
  <2>5. Len(tc) + 1 \in 1..(k - 1) /\ tc2[Len(tc) + 1].cmd = "OPEN" /\ k - (Len(tc) + 1) - 1 = n
    BY <1>0, <1>1, <2>4
  <2>6. IsPage(tc2, k, Len(tc) + 1)
    <3> SUFFICES ASSUME NEW i \in (Len(tc) + 2)..(k - 1) PROVE tc2[i].cmd = "MSG" /\ tc2[i].batched
      BY <1>1 DEF IsPage
    <3>1. i - Len(tc) \in 2..(n + 1) /\ i - Len(tc) \in 1..(n + 2) /\ Len(tc) + (i - Len(tc)) = i
      BY <1>0, <1>1, <2>4
    <3> QED BY <1>1, <2>1, <3>1
  <2> QED BY <2>5, <2>6
<1> QED BY <1>2, <1>3

\* Reading a line of a batch moves it from what is told to what is counted.
LEMMA BracketedTail ==
    ASSUME NEW tc \in Seq(Tells), tc # <<>>, NEW bt, bt.count \in Nat, NEW N, NEW N2, N \subseteq N2,
           BracketedIn(tc, bt, N), NEW bt2,
           Head(tc).cmd = "MSG" /\ Head(tc).batched /\ bt.open => bt2.open /\ bt2.count = bt.count + 1,
           Head(tc).cmd = "OPEN" => bt2.open /\ bt2.count = 0
    PROVE  BracketedIn(Tail(tc), bt2, N2)
<1> DEFINE t == Tail(tc)
<1>1. /\ Len(tc) \in Nat /\ Len(tc) > 0 /\ Len(t) = Len(tc) - 1 /\ Head(tc) = tc[1]
      /\ \A k \in 1..(Len(tc) - 1) : t[k] = tc[k + 1]
  OBVIOUS
<1> HIDE DEF t
<1> SUFFICES ASSUME NEW k \in 1..(Len(tc) - 1), t[k].cmd = "CLOSE"
             PROVE  \/ \E j \in 1..(k - 1) : t[j].cmd = "OPEN" /\ IsPage(t, k, j) /\ k - j - 1 \in N2
                    \/ bt2.open /\ IsPage(t, k, 0) /\ bt2.count + k - 1 \in N2
  BY <1>1 DEF BracketedIn, t
<1>2. k + 1 \in 1..Len(tc) /\ tc[k + 1].cmd = "CLOSE" /\ (k + 1) - 1 = k
  BY <1>1
<1>3. ASSUME NEW j \in 0..k, IsPage(tc, k + 1, j), NEW n \in Nat, n + 1 >= j
      PROVE  IsPage(t, k, n)
  <2> SUFFICES ASSUME NEW i \in (n + 1)..(k - 1) PROVE t[i].cmd = "MSG" /\ t[i].batched
    BY DEF IsPage
  <2>1. i + 1 \in (j + 1)..((k + 1) - 1) /\ i \in 1..(Len(tc) - 1)
    BY <1>1, <1>3
  <2> QED BY <1>1, <1>3, <2>1 DEF IsPage
<1>4. CASE \E j \in 1..((k + 1) - 1) : /\ tc[j].cmd = "OPEN" /\ IsPage(tc, k + 1, j)
                                       /\ (k + 1) - j - 1 \in N
  <2>1. PICK j \in 1..k : /\ tc[j].cmd = "OPEN" /\ IsPage(tc, k + 1, j)
                          /\ (k + 1) - j - 1 \in N
    BY <1>2, <1>4
  <2>2. CASE j = 1
    <3>1. IsPage(t, k, 0)
      BY <1>3, <2>1, <2>2
    <3>2. bt2.open /\ bt2.count = 0
      BY <1>1, <2>1, <2>2
    <3>3. k - 1 \in N2
      BY <2>1, <2>2
    <3> QED BY <3>1, <3>2, <3>3
  <2>3. CASE j # 1
    <3>1. j - 1 \in 1..(k - 1) /\ j - 1 \in 1..(Len(tc) - 1) /\ (j - 1) + 1 = j
      BY <1>1, <2>3
    <3>2. t[j - 1].cmd = "OPEN"
      BY <1>1, <2>1, <3>1
    <3>3. IsPage(t, k, j - 1)
      BY <1>3, <2>1, <3>1
    <3>4. k - (j - 1) - 1 \in N2
      BY <2>1
    <3> QED BY <3>1, <3>2, <3>3, <3>4
  <2> QED BY <2>2, <2>3
<1>5. CASE bt.open /\ IsPage(tc, k + 1, 0) /\ bt.count + (k + 1) - 1 \in N
  <2>1. tc[1].cmd = "MSG" /\ tc[1].batched
    <3>1. 1 \in (0 + 1)..((k + 1) - 1)
      OBVIOUS
    <3> QED BY <1>5, <3>1 DEF IsPage
  <2>2. bt2.open /\ bt2.count = bt.count + 1
    BY <1>1, <1>5, <2>1
  <2>3. IsPage(t, k, 0)
    BY <1>3, <1>5
  <2>4. bt2.count + k - 1 \in N2
    BY <1>5, <2>2, bt.count \in Nat
  <2> QED BY <2>2, <2>3, <2>4
<1> QED BY <1>2, <1>4, <1>5 DEF BracketedIn

----------------------------------------------------------------------------
(* What is known of the log.                                               *)

ToldIn(tc, l) == {p \in 1..Len(l) : \E i \in 1..Len(tc) : tc[i].cmd = "MSG" /\ tc[i].at = 2 * p}
KnownIn(b, l, tc) == ShownIn(b, l) \cup ToldIn(tc, l)

\* The elements of a sequence and one more,
LEMMA AppendIs ==
    ASSUME NEW S, NEW s \in Seq(S), NEW x \in S
    PROVE  /\ Append(s, x) \in Seq(S) /\ Len(Append(s, x)) = Len(s) + 1 /\ Len(s) \in Nat
           /\ \A i \in 1..Len(s) : Append(s, x)[i] = s[i] /\ i \in 1..(Len(s) + 1)
           /\ Append(s, x)[Len(s) + 1] = x /\ Len(s) + 1 \in 1..(Len(s) + 1)
           /\ \A i \in 1..(Len(s) + 1) : i \in 1..Len(s) \/ i = Len(s) + 1
OBVIOUS

\* and of one fewer.
LEMMA TailIs ==
    ASSUME NEW S, NEW s \in Seq(S), s # <<>>
    PROVE  /\ Tail(s) \in Seq(S) /\ Len(Tail(s)) = Len(s) - 1 /\ Len(s) \in Nat /\ Len(s) > 0
           /\ Head(s) = s[1] /\ Head(s) \in S
           /\ \A i \in 1..Len(Tail(s)) : Tail(s)[i] = s[i + 1] /\ i + 1 \in 1..Len(s)
           /\ \A i \in 1..Len(s) : i = 1 \/ (i - 1 \in 1..Len(Tail(s)) /\ Tail(s)[i - 1] = s[i])
<1>1. /\ Tail(s) \in Seq(S) /\ Len(Tail(s)) = Len(s) - 1 /\ Len(s) \in Nat /\ Len(s) > 0
      /\ Head(s) = s[1] /\ Head(s) \in S
      /\ \A i \in 1..Len(Tail(s)) : Tail(s)[i] = s[i + 1] /\ i + 1 \in 1..Len(s)
  OBVIOUS
<1>2. ASSUME NEW i \in 1..Len(s), i # 1 PROVE i - 1 \in 1..Len(Tail(s)) /\ Tail(s)[i - 1] = s[i]
  <2>1. i - 1 \in 1..Len(Tail(s)) /\ (i - 1) + 1 = i
    BY <1>1, <1>2
  <2> QED BY <1>1, <2>1
<1> QED BY <1>1, <1>2

----------------------------------------------------------------------------
(* One line fewer from the server.                                         *)

\* What is known loses what was read,
LEMMA ToldTail ==
    ASSUME NEW tc \in Seq(Tells), tc # <<>>, NEW l
    PROVE  /\ ToldTrue(tc, l) => ToldTrue(Tail(tc), l)
           /\ ToldIn(tc, l) = ToldIn(Tail(tc), l)
                 \cup {p \in 1..Len(l) : Head(tc).cmd = "MSG" /\ Head(tc).at = 2 * p}
<1>1. ToldTrue(tc, l) => ToldTrue(Tail(tc), l)
  <2> SUFFICES ASSUME ToldTrue(tc, l), NEW i \in 1..Len(Tail(tc)), Tail(tc)[i].cmd = "MSG"
               PROVE  \E p \in 1..Len(l) : Tail(tc)[i].at = 2 * p /\ Tail(tc)[i].text = l[p]
    BY DEF ToldTrue
  <2>1. Tail(tc)[i] = tc[i + 1] /\ i + 1 \in 1..Len(tc)
    BY TailIs
  <2> QED BY <2>1 DEF ToldTrue
<1>2. ASSUME NEW p \in 1..Len(l)
      PROVE  (\E i \in 1..Len(tc) : tc[i].cmd = "MSG" /\ tc[i].at = 2 * p)
                <=> \/ \E i \in 1..Len(Tail(tc)) : Tail(tc)[i].cmd = "MSG" /\ Tail(tc)[i].at = 2 * p
                    \/ Head(tc).cmd = "MSG" /\ Head(tc).at = 2 * p
  <2>1. /\ Head(tc) = tc[1] /\ 1 \in 1..Len(tc)
        /\ \A i \in 1..Len(Tail(tc)) : Tail(tc)[i] = tc[i + 1] /\ i + 1 \in 1..Len(tc)
        /\ \A i \in 1..Len(tc) : i = 1 \/ (i - 1 \in 1..Len(Tail(tc)) /\ Tail(tc)[i - 1] = tc[i])
    BY TailIs
  <2>2. ASSUME NEW i \in 1..Len(tc), tc[i].cmd = "MSG" /\ tc[i].at = 2 * p
        PROVE  \/ \E j \in 1..Len(Tail(tc)) : Tail(tc)[j].cmd = "MSG" /\ Tail(tc)[j].at = 2 * p
               \/ Head(tc).cmd = "MSG" /\ Head(tc).at = 2 * p
    <3>1. CASE i = 1
      BY <2>1, <2>2, <3>1
    <3>2. CASE i # 1
      BY <2>1, <2>2, <3>2
    <3> QED BY <3>1, <3>2
  <2>3. ASSUME NEW i \in 1..Len(Tail(tc)), Tail(tc)[i].cmd = "MSG" /\ Tail(tc)[i].at = 2 * p
        PROVE  \E j \in 1..Len(tc) : tc[j].cmd = "MSG" /\ tc[j].at = 2 * p
    <3>1. i + 1 \in 1..Len(tc) /\ tc[i + 1].cmd = "MSG" /\ tc[i + 1].at = 2 * p
      BY <2>1, <2>3
    <3> QED BY <3>1
  <2> QED BY <2>1, <2>2, <2>3
<1> QED BY <1>1, <1>2 DEF ToldIn

\* and no line waits for what was read, once it has been taken up.
LEMMA AwaitedTail ==
    ASSUME NEW b, NEW ts, NEW tc \in Seq(Tells), tc # <<>>, AwaitedIn(b, ts, tc),
           Head(tc).cmd = "MSG" => \A i \in 1..Len(b) : b[i].pending => b[i].text # Head(tc).text
    PROVE  AwaitedIn(b, ts, Tail(tc))
<1> SUFFICES ASSUME NEW i \in 1..Len(b), b[i].pending
             PROVE  \/ \E k \in 1..Len(ts) : ts[k].cmd = "SAY" /\ ts[k].text = b[i].text
                    \/ \E k \in 1..Len(Tail(tc)) : Tail(tc)[k].cmd = "MSG" /\ Tail(tc)[k].text = b[i].text
  BY DEF AwaitedIn
<1>1. CASE \E k \in 1..Len(tc) : tc[k].cmd = "MSG" /\ tc[k].text = b[i].text
  <2>1. PICK k \in 1..Len(tc) : tc[k].cmd = "MSG" /\ tc[k].text = b[i].text
    BY <1>1
  <2>2. Head(tc) = tc[1] /\ (k = 1 \/ (k - 1 \in 1..Len(Tail(tc)) /\ Tail(tc)[k - 1] = tc[k]))
    BY TailIs
  <2> QED BY <2>1, <2>2
<1> QED BY <1>1 DEF AwaitedIn

\* Entries that were there already, in another buffer.
LEMMA AwaitedAmong ==
    ASSUME NEW b, NEW s, NEW ts, NEW tc, AwaitedIn(b, ts, tc),
           \A i \in 1..Len(s) : s[i].pending => \E j \in 1..Len(b) : b[j] = s[i]
    PROVE  AwaitedIn(s, ts, tc)
BY DEF AwaitedIn

----------------------------------------------------------------------------
(* One line more for the server, or one fewer.                             *)

\* Lines wait still when more is asked for.
LEMMA AwaitedAsk ==
    ASSUME NEW b, NEW ts \in Seq(Asks), NEW x \in Asks, NEW tc, AwaitedIn(b, ts, tc)
    PROVE  AwaitedIn(b, Append(ts, x), tc)
<1> SUFFICES ASSUME NEW i \in 1..Len(b), b[i].pending
             PROVE  \/ \E k \in 1..Len(Append(ts, x)) : Append(ts, x)[k].cmd = "SAY" /\ Append(ts, x)[k].text = b[i].text
                    \/ \E k \in 1..Len(tc) : tc[k].cmd = "MSG" /\ tc[k].text = b[i].text
  BY DEF AwaitedIn
<1>1. \A k \in 1..Len(ts) : Append(ts, x)[k] = ts[k] /\ k \in 1..Len(Append(ts, x))
  BY AppendIs
<1> QED BY <1>1 DEF AwaitedIn

\* Another page asked for,
LEMMA AskedMore ==
    ASSUME NEW ts \in Seq(Asks), NEW x \in Asks, NEW l, AskedTrue(ts, l),
           x.cmd = "BEFORE" => \E p \in 1..Len(l) : x.at = 2 * p
    PROVE  AskedTrue(Append(ts, x), l)
<1>1. /\ \A k \in 1..Len(ts) : Append(ts, x)[k] = ts[k]
      /\ Append(ts, x)[Len(ts) + 1] = x
      /\ \A k \in 1..Len(Append(ts, x)) : k \in 1..Len(ts) \/ k = Len(ts) + 1
  BY AppendIs
<1> QED BY <1>1 DEF AskedTrue

\* and one served.
LEMMA AskedTail ==
    ASSUME NEW ts \in Seq(Asks), ts # <<>>, NEW l, AskedTrue(ts, l)
    PROVE  AskedTrue(Tail(ts), l)
<1>1. \A i \in 1..Len(Tail(ts)) : Tail(ts)[i] = ts[i + 1] /\ i + 1 \in 1..Len(ts)
  BY TailIs
<1> QED BY <1>1 DEF AskedTrue

\* A line that is served and answered with the messages of more.
LEMMA AwaitedServed ==
    ASSUME NEW b, NEW ts \in Seq(Asks), ts # <<>>, NEW tc, NEW tc2, Len(tc) \in Nat, Len(tc2) \in Nat,
           Len(tc) <= Len(tc2), \A k \in 1..Len(tc) : tc2[k] = tc[k],
           AwaitedIn(b, ts, tc),
           Head(ts).cmd = "SAY" =>
              \E k \in 1..Len(tc2) : tc2[k].cmd = "MSG" /\ tc2[k].text = Head(ts).text
    PROVE  AwaitedIn(b, Tail(ts), tc2)
<1> SUFFICES ASSUME NEW i \in 1..Len(b), b[i].pending
             PROVE  \/ \E k \in 1..Len(Tail(ts)) : Tail(ts)[k].cmd = "SAY" /\ Tail(ts)[k].text = b[i].text
                    \/ \E k \in 1..Len(tc2) : tc2[k].cmd = "MSG" /\ tc2[k].text = b[i].text
  BY DEF AwaitedIn
<1>1. CASE \E k \in 1..Len(ts) : ts[k].cmd = "SAY" /\ ts[k].text = b[i].text
  <2>1. PICK k \in 1..Len(ts) : ts[k].cmd = "SAY" /\ ts[k].text = b[i].text
    BY <1>1
  <2>2. Head(ts) = ts[1] /\ (k = 1 \/ (k - 1 \in 1..Len(Tail(ts)) /\ Tail(ts)[k - 1] = ts[k]))
    BY TailIs
  <2> QED BY <2>1, <2>2
<1>2. CASE \E k \in 1..Len(tc) : tc[k].cmd = "MSG" /\ tc[k].text = b[i].text
  <2>1. PICK k \in 1..Len(tc) : tc[k].cmd = "MSG" /\ tc[k].text = b[i].text
    BY <1>2
  <2>2. k \in 1..Len(tc2) /\ tc2[k] = tc[k]
    OBVIOUS
  <2> QED BY <2>1, <2>2
<1> QED BY <1>1, <1>2 DEF AwaitedIn

----------------------------------------------------------------------------
(* The log, one message longer.                                            *)

\* What is so of the log stays so.
LEMMA LogGrows ==
    ASSUME NEW T, NEW l \in Seq(T), NEW x \in T
    PROVE  /\ \A b : Sound(b, l) => Sound(b, Append(l, x))
           /\ \A tc : ToldTrue(tc, l) => ToldTrue(tc, Append(l, x))
           /\ \A ts : AskedTrue(ts, l) => AskedTrue(ts, Append(l, x))
<1>1. /\ Len(Append(l, x)) = Len(l) + 1 /\ Len(l) \in Nat
      /\ \A p \in 1..Len(l) : p \in 1..(Len(l) + 1) /\ Append(l, x)[p] = l[p]
  BY AppendIs
<1>2. ASSUME NEW b, Sound(b, l) PROVE Sound(b, Append(l, x))
  BY <1>1, <1>2 DEF Sound, TrueEntry
<1>3. ASSUME NEW tc, ToldTrue(tc, l) PROVE ToldTrue(tc, Append(l, x))
  BY <1>1, <1>3 DEF ToldTrue
<1>4. ASSUME NEW ts, AskedTrue(ts, l) PROVE AskedTrue(ts, Append(l, x))
  BY <1>1, <1>4 DEF AskedTrue
<1> QED BY <1>2, <1>3, <1>4

\* Another message told.
LEMMA ToldMore ==
    ASSUME NEW tc \in Seq(Tells), NEW x \in Tells, NEW l, ToldTrue(tc, l),
           x.cmd = "MSG" => \E p \in 1..Len(l) : x.at = 2 * p /\ x.text = l[p]
    PROVE  /\ ToldTrue(Append(tc, x), l)
           /\ ToldIn(Append(tc, x), l) = ToldIn(tc, l) \cup {p \in 1..Len(l) : x.cmd = "MSG" /\ x.at = 2 * p}
<1>1. /\ \A k \in 1..Len(tc) : Append(tc, x)[k] = tc[k] /\ k \in 1..Len(Append(tc, x))
      /\ Append(tc, x)[Len(tc) + 1] = x /\ Len(tc) + 1 \in 1..Len(Append(tc, x))
      /\ \A k \in 1..Len(Append(tc, x)) : k \in 1..Len(tc) \/ k = Len(tc) + 1
  BY AppendIs
<1>2. ToldTrue(Append(tc, x), l)
  BY <1>1 DEF ToldTrue
<1>3. ASSUME NEW p \in 1..Len(l)
      PROVE  (\E i \in 1..Len(Append(tc, x)) : Append(tc, x)[i].cmd = "MSG" /\ Append(tc, x)[i].at = 2 * p)
                <=> \/ \E i \in 1..Len(tc) : tc[i].cmd = "MSG" /\ tc[i].at = 2 * p
                    \/ x.cmd = "MSG" /\ x.at = 2 * p
  BY <1>1
<1> QED BY <1>2, <1>3 DEF ToldIn

\* What is known of the log does not change with it.
LEMMA KnownGrows ==
    ASSUME NEW T, NEW l \in Seq(T), NEW x \in T, NEW b \in Seq(Entries), NEW tc,
           Sound(b, l), ToldTrue(tc, l)
    PROVE  /\ Delivered(b) => ShownIn(b, Append(l, x)) = ShownIn(b, l)
           /\ ToldIn(tc, Append(l, x)) = ToldIn(tc, l)
<1>1. /\ Len(Append(l, x)) = Len(l) + 1 /\ Len(l) \in Nat
      /\ \A p \in 1..(Len(l) + 1) : p \in 1..Len(l) \/ p = Len(l) + 1
      /\ \A p \in 1..Len(l) : p \in 1..(Len(l) + 1)
  BY AppendIs
<1>2. ASSUME Delivered(b), NEW i \in 1..Len(b), b[i].at = 2 * (Len(l) + 1), ~b[i].pending PROVE FALSE
  <2>1. b[i].at % 2 = 0
    BY <1>2 DEF Delivered
  <2>2. PICK p \in 1..Len(l) : b[i].at = 2 * p
    BY <2>1 DEF Sound, TrueEntry
  <2> QED BY <1>1, <1>2, <2>2
<1>3. ASSUME NEW i \in 1..Len(tc), tc[i].cmd = "MSG", tc[i].at = 2 * (Len(l) + 1) PROVE FALSE
  <2>1. PICK p \in 1..Len(l) : tc[i].at = 2 * p
    BY <1>3 DEF ToldTrue
  <2> QED BY <1>1, <1>3, <2>1
<1>4. Delivered(b) => ShownIn(b, Append(l, x)) = ShownIn(b, l)
  BY <1>1, <1>2 DEF ShownIn
<1>5. ToldIn(tc, Append(l, x)) = ToldIn(tc, l)
  BY <1>1, <1>3 DEF ToldIn
<1> QED BY <1>4, <1>5

----------------------------------------------------------------------------
(* A asked.                                                                 *)

\* The positions of a page are those before p, without a hole.
LEMMA PageIs ==
    ASSUME NEW p \in Nat \ {0}
    PROVE  LET first == IF p > Page THEN p - Page ELSE 1
           IN  /\ Len(PageBefore(p)) = p - first /\ Len(PageBefore(p)) \in Nat
               /\ \A i \in 1..Len(PageBefore(p)) : PageBefore(p)[i] = first + i - 1 /\ PageBefore(p)[i] \in 1..(p - 1)
               /\ \A q \in first..(p - 1) : \E i \in 1..Len(PageBefore(p)) : PageBefore(p)[i] = q
<1> DEFINE first == IF p > Page THEN p - Page ELSE 1
           asked == [i \in 1..(p - first) |-> first + i - 1]
<1>1. Page \in Nat /\ Page > 0 /\ first \in 1..p /\ p - first \in Nat
  BY BufferAssumption
<1>2. PageBefore(p) = asked
  BY DEF PageBefore
<1> HIDE DEF first
<1>3. Len(asked) = p - first
  BY <1>1
<1>4. \A i \in 1..(p - first) : asked[i] = first + i - 1 /\ asked[i] \in 1..(p - 1)
  BY <1>1
<1>5. ASSUME NEW q \in first..(p - 1) PROVE \E i \in 1..(p - first) : asked[i] = q
  <2>1. q - first + 1 \in 1..(p - first) /\ first + (q - first + 1) - 1 = q
    BY <1>1
  <2> QED BY <1>4, <2>1
<1> HIDE DEF asked
<1> QED BY <1>1, <1>2, <1>3, <1>4, <1>5 DEF first

\* The messages of a asked, told: those of the log from the asked on.
LEMMA ToldAnswer ==
    ASSUME NEW tc \in Seq(Tells), log \in Seq({Other} \cup Texts), ToldTrue(tc, log), NEW p \in 1..(Len(log) + 1),
           NEW a, a = Answer(PageBefore(p))
    PROVE  LET first == IF p > Page THEN p - Page ELSE 1
           IN  /\ a \in Seq(Tells) /\ tc \o a \in Seq(Tells)
               /\ ToldTrue(tc \o a, log)
               /\ ToldIn(tc \o a, log) = ToldIn(tc, log) \cup (first..(p - 1))
<1> DEFINE first == IF p > Page THEN p - Page ELSE 1
           asked == PageBefore(p)
           n == Len(asked)
<1>0. p \in Nat \ {0} /\ Len(log) \in Nat /\ p - 1 <= Len(log) /\ Page \in Nat /\ Page > 0 /\ first \in 1..p
  BY BufferAssumption
<1>1. /\ n = p - first /\ n \in Nat
      /\ \A i \in 1..n : asked[i] = first + i - 1 /\ asked[i] \in 1..(p - 1)
      /\ \A q \in first..(p - 1) : \E i \in 1..n : asked[i] = q
  BY <1>0, PageIs
<1> HIDE DEF asked, first
<1>2. \A i \in 1..n : asked[i] \in 1..Len(log) /\ asked[i] \in first..(p - 1)
  BY <1>0, <1>1
<1>3. /\ Len(a) = n + 2
      /\ a[1] = [cmd |-> "OPEN"]
      /\ \A i \in 1..n : a[i + 1] = Message(log, asked[i], TRUE)
      /\ a[n + 2] = [cmd |-> "CLOSE"]
  BY <1>1, AnswerIs, a = Answer(PageBefore(p)) DEF asked
<1>4. \A i \in 1..n : Message(log, asked[i], TRUE) \in Tells
  <2> SUFFICES ASSUME NEW i \in 1..n PROVE Message(log, asked[i], TRUE) \in Tells
    OBVIOUS
  <2>1. asked[i] \in Nat /\ log[asked[i]] \in {Other} \cup Texts
    BY <1>2
  <2> QED BY <2>1 DEF Message, Tells
<1>5. a \in Seq(Tells)
  <2>1. PICK S : a \in Seq(S)
    BY <1>1, AnswerIs, a = Answer(PageBefore(p)) DEF asked
  <2>2. ASSUME NEW i \in 1..(n + 2) PROVE a[i] \in Tells
    <3>1. CASE i = 1 \/ i = n + 2
      BY <1>3, <3>1 DEF Tells
    <3>2. CASE i # 1 /\ i # n + 2
      <4>1. i - 1 \in 1..n /\ (i - 1) + 1 = i
        BY <1>1, <3>2
      <4>2. a[i] = Message(log, asked[i - 1], TRUE)
        BY <1>3, <4>1
      <4> QED BY <1>4, <4>1, <4>2
    <3> QED BY <3>1, <3>2
  <2> QED BY <1>3, <2>1, <2>2, Retyped
<1>6. /\ tc \o a \in Seq(Tells) /\ Len(tc \o a) = Len(tc) + (n + 2)
      /\ \A i \in 1..Len(tc) : (tc \o a)[i] = tc[i]
      /\ \A i \in 1..(n + 2) : (tc \o a)[Len(tc) + i] = a[i]
  <2>1. /\ tc \o a \in Seq(Tells) /\ Len(tc \o a) = Len(tc) + Len(a)
        /\ \A i \in 1..Len(tc) : (tc \o a)[i] = tc[i]
        /\ \A i \in 1..Len(a) : (tc \o a)[Len(tc) + i] = a[i]
    BY <1>5, Joined
  <2> QED BY <1>3, <2>1
<1> DEFINE tc2 == tc \o a
<1> HIDE DEF tc2
<1>7. /\ tc2 \in Seq(Tells) /\ Len(tc2) = Len(tc) + (n + 2)
      /\ \A i \in 1..Len(tc) : tc2[i] = tc[i]
      /\ \A i \in 1..(n + 2) : tc2[Len(tc) + i] = a[i]
  BY <1>6 DEF tc2
<1> HIDE DEF n
\* What a message of tc2 is.
<1>8. ASSUME NEW k \in 1..Len(tc2), tc2[k].cmd = "MSG"
      PROVE  \/ k \in 1..Len(tc) /\ tc2[k] = tc[k]
             \/ \E i \in 1..n : tc2[k].at = 2 * asked[i] /\ tc2[k].text = log[asked[i]]
  <2>0. n \in Nat /\ Len(tc) \in Nat
    BY <1>1
  <2>1. CASE k \in 1..Len(tc)
    BY <1>7, <2>1
  <2>2. CASE k \notin 1..Len(tc)
    <3>1. k - Len(tc) \in 1..(n + 2) /\ Len(tc) + (k - Len(tc)) = k
      BY <1>7, <2>0, <2>2
    <3>2. tc2[k] = a[k - Len(tc)]
      BY <1>7, <3>1
    <3>3. k - Len(tc) # 1 /\ k - Len(tc) # n + 2
      BY <1>3, <1>8, <3>2
    <3>4. k - Len(tc) - 1 \in 1..n /\ (k - Len(tc) - 1) + 1 = k - Len(tc)
      BY <2>0, <3>1, <3>3
    <3>5. tc2[k] = Message(log, asked[k - Len(tc) - 1], TRUE)
      BY <1>3, <3>2, <3>4
    <3> DEFINE i == k - Len(tc) - 1
    <3> HIDE DEF i
    <3>6. i \in 1..n /\ tc2[k] = Message(log, asked[i], TRUE)
      BY <3>4, <3>5 DEF i
    <3> QED BY <3>6 DEF Message
  <2> QED BY <2>1, <2>2
<1>9. ASSUME NEW i \in 1..n
      PROVE  \E k \in 1..Len(tc2) : tc2[k].cmd = "MSG" /\ tc2[k].at = 2 * asked[i]
  <2>1. i + 1 \in 1..(n + 2) /\ Len(tc) + (i + 1) \in 1..Len(tc2)
    BY <1>1, <1>7
  <2>2. tc2[Len(tc) + (i + 1)] = Message(log, asked[i], TRUE)
    BY <1>3, <1>7, <2>1
  <2> QED BY <2>1, <2>2 DEF Message
<1>10. ToldTrue(tc2, log)
  BY <1>2, <1>8 DEF ToldTrue
<1>11. ASSUME NEW q \in 1..Len(log)
       PROVE  (\E k \in 1..Len(tc2) : tc2[k].cmd = "MSG" /\ tc2[k].at = 2 * q)
                 <=> \/ \E k \in 1..Len(tc) : tc[k].cmd = "MSG" /\ tc[k].at = 2 * q
                     \/ q \in first..(p - 1)
  <2>1. ASSUME NEW k \in 1..Len(tc2), tc2[k].cmd = "MSG", tc2[k].at = 2 * q, q \notin first..(p - 1)
        PROVE  \E j \in 1..Len(tc) : tc[j].cmd = "MSG" /\ tc[j].at = 2 * q
    <3>1. \A i \in 1..n : tc2[k].at # 2 * asked[i]
      <4> SUFFICES ASSUME NEW i \in 1..n, 2 * q = 2 * asked[i] PROVE FALSE
        BY <2>1
      <4>1. asked[i] \in Nat /\ asked[i] \in first..(p - 1)
        BY <1>2
      <4> QED BY <2>1, <4>1
    <3> QED BY <1>8, <2>1, <3>1
  <2>2. ASSUME NEW j \in 1..Len(tc), tc[j].cmd = "MSG", tc[j].at = 2 * q
        PROVE  \E k \in 1..Len(tc2) : tc2[k].cmd = "MSG" /\ tc2[k].at = 2 * q
    <3>1. j \in 1..Len(tc2) /\ tc2[j] = tc[j]
      BY <1>1, <1>7
    <3> QED BY <2>2, <3>1
  <2>3. ASSUME q \in first..(p - 1)
        PROVE  \E k \in 1..Len(tc2) : tc2[k].cmd = "MSG" /\ tc2[k].at = 2 * q
    <3>1. PICK i \in 1..n : asked[i] = q
      BY <1>1, <2>3
    <3> QED BY <1>9, <3>1
  <2> QED BY <2>1, <2>2, <2>3
<1>12. first..(p - 1) \subseteq 1..Len(log)
  BY <1>0
<1>13. ToldIn(tc2, log) = ToldIn(tc, log) \cup (first..(p - 1))
  BY <1>11, <1>12 DEF ToldIn
<1> QED BY <1>5, <1>7, <1>10, <1>13 DEF tc2, first

----------------------------------------------------------------------------
(* The invariant.                                                          *)

\* The first connection, while the buffer has room for all there is.
First == /\ ~Repeats /\ connected /\ connection = 1
         /\ Cardinality(Units(log, toServer)) <= Limit

Known == KnownIn(buffer, log, toClient)
FromStart == log = <<>> \/ 1 \in Known

\* How many messages a page may have: fewer than were asked for only if it
\* goes back to the start.
Lengths == {n \in Nat : n >= Page \/ (First => FromStart)}

TypeInv == HistoryTypeOK /\ toServer \in Seq(Asks) /\ toClient \in Seq(Tells)
BufferInv == /\ Sound(buffer, log) /\ Keys(buffer)
             /\ sent = 0 => Even(buffer) /\ Sorted(buffer)
WireInv == ToldTrue(toClient, log) /\ AskedTrue(toServer, log)
OursInv == ~Repeats => /\ Alone(buffer) /\ Delivered(buffer)
                       /\ connected /\ connection = 1 => AwaitedIn(buffer, toServer, toClient)
LinkInv ==
    /\ ~connected => toServer = <<>> /\ toClient = <<>> /\ (mishap \/ historyPending = "none")
    /\ connection = 0 => ~connected /\ buffer = <<>> /\ historyPending = "none" /\ ~historyComplete
Bracketed == BracketedIn(toClient, batch, Lengths)
Whole ==
    First => /\ \A p \in Known : p..Len(log) \subseteq Known
             /\ \A k \in 1..Len(toServer) : toServer[k].cmd = "BEFORE" => \E p \in Known : toServer[k].at = 2 * p
             /\ historyComplete => FromStart

HistoryInv ==
    TypeInv /\ BufferInv /\ WireInv /\ OursInv /\ LinkInv /\ Bracketed /\ InFlight /\ Whole

\* With more lengths allowed, a batch is bracketed still.
LEMMA BracketedMore ==
    ASSUME NEW tc, NEW bt, NEW N, NEW N2, N \subseteq N2, BracketedIn(tc, bt, N)
    PROVE  BracketedIn(tc, bt, N2)
BY DEF BracketedIn

\* The start, once known, stays known: no length stops being allowed.
LEMMA LengthsGrow ==
    ASSUME First' => First /\ (FromStart => FromStart')
    PROVE  Lengths \subseteq Lengths'
BY DEF Lengths

\* What keeps buffer, log and link keeps what is said of them.
LEMMA HistoryInitInv == HistoryInit => HistoryInv
<1> SUFFICES ASSUME HistoryInit PROVE HistoryInv
  OBVIOUS
<1>0. /\ connected = FALSE /\ connection = 0 /\ buffer = <<>>
      /\ historyPending = "none" /\ historyComplete = FALSE /\ historyGap = FALSE
      /\ batch = NoBatch /\ sent = 0
      /\ toServer = <<>> /\ toClient = <<>> /\ mishap = FALSE
      /\ \E n \in 0..Earlier : log \in [1..n -> {Other} \cup Texts]
  BY DEF HistoryInit
<1>1. TypeInv
  <2>1. PICK n \in 0..Earlier : log \in [1..n -> {Other} \cup Texts]
    BY <1>0
  <2>2. n \in Nat
    BY HistoryAssumption
  <2>3. log \in Seq({Other} \cup Texts)
    BY <2>1, <2>2, SequenceIs
  <2>4. buffer \in Seq(Entries) /\ Len(buffer) <= Limit /\ toServer \in Seq(Asks) /\ toClient \in Seq(Tells)
    BY <1>0, BufferAssumption
  <2>5. batch \in [open : BOOLEAN, count : Nat, newest : Nat, liveOldest : Nat]
    BY <1>0 DEF NoBatch
  <2>6. connection \in 0..Connections /\ sent \in 0..Sends
    BY <1>0, HistoryAssumption
  <2> QED BY <1>0, <2>3, <2>4, <2>5, <2>6 DEF TypeInv, HistoryTypeOK
<1>2. BufferInv
  BY <1>0 DEF BufferInv, Sound, Keys, Even, Sorted
<1>3. WireInv
  BY <1>0 DEF WireInv, ToldTrue, AskedTrue
<1>4. OursInv
  BY <1>0 DEF OursInv, Alone, Delivered, AwaitedIn
<1>5. LinkInv
  BY <1>0 DEF LinkInv
<1>6. Bracketed
  BY <1>0 DEF Bracketed, BracketedIn
<1>7. InFlight /\ Whole
  BY <1>0 DEF InFlight, Whole, First
<1> QED BY <1>1, <1>2, <1>3, <1>4, <1>5, <1>6, <1>7 DEF HistoryInv

\* A connection made starts with nothing under way.
LEMMA RegistersKeeps ==
    ASSUME HistoryInv, Registers
    PROVE  HistoryInv'
<1>0. /\ ~connected /\ connection < Connections
      /\ connected' = TRUE /\ connection' = connection + 1
      /\ \/ connection = 0 /\ historyPending' = historyPending /\ toServer' = toServer
         \/ connection > 0 /\ Backfill(<<>>)
      /\ UNCHANGED <<buffer, historyComplete, historyGap, batch, sent, toClient, log, mishap>>
  BY DEF Registers
<1>1. /\ TypeInv /\ BufferInv /\ WireInv /\ OursInv /\ LinkInv
      /\ connection \in 0..Connections /\ Connections \in Nat
  BY HistoryAssumption DEF HistoryInv, TypeInv, HistoryTypeOK
<1>2. /\ toServer = <<>> /\ toClient = <<>> /\ (mishap \/ historyPending = "none")
      /\ connection = 0 => buffer = <<>> /\ historyPending = "none" /\ ~historyComplete
  BY <1>0, <1>1 DEF LinkInv
<1>3. /\ \/ toServer' = <<>> /\ historyPending' = historyPending
         \/ toServer' = <<Latest>> /\ historyPending' = "latest"
      /\ connection = 0 => toServer' = <<>>
      /\ historyPending' # "none" /\ toServer' = <<>> => mishap
  BY <1>0, <1>1, <1>2 DEF Backfill
<1>4. TypeInv'
  <2>1. connection' \in 0..Connections
    BY <1>0, <1>1
  <2>2. Latest \in Asks
    BY DEF Latest, Asks
  <2>3. toServer' \in Seq(Asks)
    <3>1. <<>> \in Seq(Asks) /\ <<Latest>> \in Seq(Asks)
      BY <2>2
    <3> QED BY <1>3, <3>1
  <2>4. historyPending' \in {"none", "latest", "older"}
    BY <1>1, <1>3 DEF TypeInv, HistoryTypeOK
  <2> QED BY <1>0, <1>1, <2>1, <2>3, <2>4 DEF TypeInv, HistoryTypeOK
<1>5. BufferInv'
  BY <1>0, <1>1 DEF BufferInv
<1>6. WireInv'
  <2>1. AskedTrue(toServer', log')
    BY <1>3 DEF AskedTrue, Latest
  <2> QED BY <1>0, <1>1, <2>1 DEF WireInv
<1>7. OursInv'
  <2>1. connection' = 1 => AwaitedIn(buffer', toServer', toClient')
    BY <1>0, <1>1, <1>2 DEF AwaitedIn
  <2> QED BY <1>0, <1>1, <2>1 DEF OursInv
<1>8. LinkInv'
  BY <1>0, <1>1 DEF LinkInv
<1>9. Bracketed'
  BY <1>0, <1>2 DEF Bracketed, BracketedIn
<1>10. InFlight'
  <2>1. CASE toServer' = <<>>
    BY <1>0, <1>3, <2>1 DEF InFlight
  <2>2. CASE toServer' = <<Latest>>
    <3>1. 1 \in 1..Len(toServer') /\ toServer'[1].cmd = "LATEST"
      BY <2>2 DEF Latest
    <3> QED BY <3>1 DEF InFlight
  <2> QED BY <1>3, <2>1, <2>2
<1>11. Whole'
  <2> SUFFICES ASSUME First' PROVE Whole'
    BY DEF Whole
  <2>1. connection = 0
    BY <1>0, <1>1 DEF First
  <2>2. buffer' = <<>> /\ toClient' = <<>> /\ toServer' = <<>> /\ ~historyComplete'
    BY <1>0, <1>2, <1>3, <2>1
  <2>3. Known' = {}
    BY <2>2 DEF Known, KnownIn, ShownIn, ToldIn
  <2> QED BY <2>2, <2>3 DEF Whole
<1> QED BY <1>4, <1>5, <1>6, <1>7, <1>8, <1>9, <1>10, <1>11 DEF HistoryInv

\* What is asked for is the page before something that is shown.
LEMMA LoadsOlderKeeps ==
    ASSUME HistoryInv, LoadsOlder
    PROVE  HistoryInv'
<1>0. /\ connected /\ historyPending = "none" /\ ~historyComplete
      /\ \/ FromServer(buffer) = 0 /\ Backfill(toServer)
         \/ /\ FromServer(buffer) # 0
            /\ historyPending' = "older"
            /\ toServer' = Append(toServer, Before(OldestRef(buffer)))
      /\ UNCHANGED <<connected, connection>>
      /\ UNCHANGED <<buffer, historyComplete, historyGap, batch, sent, toClient, log, mishap>>
  BY DEF LoadsOlder, link
<1>1. /\ TypeInv /\ BufferInv /\ WireInv /\ OursInv /\ LinkInv /\ Bracketed /\ Whole
      /\ buffer \in Seq(Entries) /\ log \in Seq({Other} \cup Texts)
      /\ toServer \in Seq(Asks) /\ toClient \in Seq(Tells)
  BY DEF HistoryInv, TypeInv, HistoryTypeOK
<1>2. PICK x \in Asks : /\ toServer' = Append(toServer, x) /\ historyPending' \in {"latest", "older"}
                        /\ x.cmd \in {"LATEST", "BEFORE"}
                        /\ x.cmd = "BEFORE" => \E p \in 1..Len(log) :
                              x.at = 2 * p /\ (~Repeats => p \in ShownIn(buffer, log))
  <2>1. CASE FromServer(buffer) = 0 /\ Backfill(toServer)
    <3>1. toServer' = toServer \o <<Latest>> /\ historyPending' = "latest"
      BY <1>0, <2>1 DEF Backfill
    <3>2. toServer' = Append(toServer, Latest)
      BY <1>1, <3>1
    <3>3. Latest \in Asks /\ Latest.cmd = "LATEST"
      BY DEF Latest, Asks
    <3> QED BY <3>1, <3>2, <3>3
  <2>2. CASE /\ FromServer(buffer) # 0
             /\ historyPending' = "older"
             /\ toServer' = Append(toServer, Before(OldestRef(buffer)))
    <3> DEFINE i == FromServer(buffer)
    <3>1. i \in 1..Len(buffer) /\ buffer[i].at % 2 = 0
      BY <1>1, <2>2, FromServerIs
    <3>2. OldestRef(buffer) = buffer[i].at
      BY DEF OldestRef
    <3> HIDE DEF i
    <3>3. PICK p \in 1..Len(log) : buffer[i].at = 2 * p
      BY <1>1, <3>1 DEF BufferInv, Sound, TrueEntry
    <3>4. ~Repeats => p \in ShownIn(buffer, log)
      <4>1. ~buffer[i].pending
        BY <1>1, <3>1 DEF BufferInv, Sound, TrueEntry
      <4> QED BY <3>1, <3>3, <4>1 DEF ShownIn
    <3>5. buffer[i].at \in Nat
      BY <1>1, <3>1, EntryFields
    <3>6. Before(buffer[i].at) \in Asks /\ Before(buffer[i].at).cmd = "BEFORE" /\ Before(buffer[i].at).at = buffer[i].at
      BY <3>5 DEF Before, Asks
    <3> QED BY <2>2, <3>2, <3>3, <3>4, <3>6
  <2> QED BY <1>0, <2>1, <2>2
<1>3. First' => First
  <2>1. Cardinality(Units(log, toServer)) <= Cardinality(Units(log, Append(toServer, x)))
    BY <1>1, UnitsMore
  <2>2. /\ Cardinality(Units(log, toServer)) \in Nat /\ Cardinality(Units(log, Append(toServer, x))) \in Nat
        /\ Limit \in Nat
    <3>1. Len(log) \in Nat /\ Len(toServer) \in Nat /\ Len(Append(toServer, x)) \in Nat
      BY <1>1
    <3> QED BY <3>1, UnitsFinite, BufferAssumption
  <2> QED BY <1>0, <1>2, <2>1, <2>2 DEF First
<1>4. Known' = Known /\ FromStart' = FromStart
  BY <1>0 DEF Known, FromStart
<1>5. TypeInv'
  <2>1. toServer' \in Seq(Asks)
    BY <1>1, <1>2, AppendIs
  <2> QED BY <1>0, <1>1, <1>2, <2>1 DEF TypeInv, HistoryTypeOK
<1>6. BufferInv' /\ LinkInv'
  BY <1>0, <1>1 DEF BufferInv, LinkInv
<1>7. WireInv'
  <2>1. AskedTrue(toServer', log)
    BY <1>1, <1>2, AskedMore DEF WireInv
  <2> QED BY <1>0, <1>1, <2>1 DEF WireInv
<1>8. OursInv'
  BY <1>0, <1>1, <1>2, AwaitedAsk DEF OursInv
<1>9. Bracketed'
  <2>1. Lengths \subseteq Lengths'
    BY <1>3, <1>4, LengthsGrow
  <2> QED BY <1>0, <1>1, <2>1, BracketedMore DEF Bracketed
<1>10. InFlight'
  <2>1. /\ Len(toServer) + 1 \in 1..Len(toServer') /\ toServer'[Len(toServer) + 1] = x
    BY <1>1, <1>2, AppendIs
  <2> QED BY <1>2, <2>1 DEF InFlight
<1>11. Whole'
  <2> SUFFICES ASSUME First' PROVE Whole'
    BY DEF Whole
  <2>1. First /\ ~Repeats
    BY <1>3 DEF First
  <2>2. \A k \in 1..Len(toServer') : toServer'[k].cmd = "BEFORE" => \E p \in Known : toServer'[k].at = 2 * p
    <3>1. /\ \A k \in 1..Len(toServer) : toServer'[k] = toServer[k]
          /\ toServer'[Len(toServer) + 1] = x
          /\ \A k \in 1..Len(toServer') : k \in 1..Len(toServer) \/ k = Len(toServer) + 1
      BY <1>1, <1>2, AppendIs
    <3>2. x.cmd = "BEFORE" => \E p \in Known : x.at = 2 * p
      BY <1>2, <2>1 DEF Known, KnownIn
    <3> QED BY <1>1, <2>1, <3>1, <3>2 DEF Whole
  <2> QED BY <1>0, <1>1, <1>4, <2>1, <2>2 DEF Whole
<1> QED BY <1>5, <1>6, <1>7, <1>8, <1>9, <1>10, <1>11 DEF HistoryInv

----------------------------------------------------------------------------
(* Each action keeps it: lines said.                                       *)

\* A buffer with no more units than Limit is not trimmed.
LEMMA HasRoom ==
    ASSUME TypeInv, NEW s \in Seq(Entries), NEW l, Len(l) \in Nat, NEW ts, Len(ts) \in Nat, NEW tc,
           Sound(s, l), Keys(s), Alone(s), Delivered(s), AwaitedIn(s, ts, tc), ToldTrue(tc, l),
           Cardinality(Units(l, ts)) <= Limit
    PROVE  Trimmed(s) = s
<1>1. Len(s) <= Cardinality(Units(l, ts))
  BY Fits
<1>2. Len(s) \in Nat /\ Cardinality(Units(l, ts)) \in Nat /\ Limit \in Nat
  BY UnitsFinite, BufferAssumption
<1>3. Len(s) <= Limit
  BY <1>1, <1>2
<1> QED BY <1>3, TrimmedIs

\* A line is shown ahead, with words no other entry waits with.
LEMMA SaysKeeps ==
    ASSUME HistoryInv, NEW t \in Texts, Says(t)
    PROVE  HistoryInv'
<1> DEFINE m == Optimistic(t)
           x == [cmd |-> "SAY", text |-> t]
<1>0. /\ connected /\ sent < Sends
      /\ Repeats \/ t \notin {e.text : e \in ToSet(buffer)}
      /\ sent' = sent + 1
      /\ buffer' = Insert(buffer, m)
      /\ toServer' = Append(toServer, x)
      /\ UNCHANGED <<connected, connection, historyPending, historyComplete, historyGap>>
      /\ UNCHANGED <<batch, toClient, log, mishap>>
  BY DEF Says, link, history
<1>1. /\ TypeInv /\ BufferInv /\ WireInv /\ OursInv /\ LinkInv /\ Bracketed /\ Whole /\ InFlight
      /\ buffer \in Seq(Entries) /\ Len(buffer) <= Limit /\ log \in Seq({Other} \cup Texts)
      /\ toServer \in Seq(Asks) /\ toClient \in Seq(Tells) /\ sent \in 0..Sends /\ Sends \in Nat
  BY HistoryAssumption DEF HistoryInv, TypeInv, HistoryTypeOK
<1>2. Len(log) \in Nat /\ Len(toServer) \in Nat
  BY <1>1
<1>3. m \in Entries /\ TrueEntry(m, log) /\ m.at % 2 = 1 /\ m.pending /\ m.text = t
  BY <1>2 DEF Optimistic, Entries, TrueEntry
<1>4. x \in Asks /\ x.cmd = "SAY" /\ x.text = t
  BY DEF Asks
<1> HIDE DEF m, x
<1>5. PICK s : /\ Insert(buffer, m) = Trimmed(s)
               /\ s \in Seq(Entries) /\ Sound(s, log) /\ Keys(s)
               /\ (\A i \in 1..Len(buffer) : buffer[i].text # m.text) =>
                     /\ Alone(buffer) => Alone(s)
                     /\ Delivered(buffer) => Delivered(s)
                     /\ \A i \in 1..Len(s) : s[i] = m \/ \E j \in 1..Len(buffer) : buffer[j] = s[i]
                     /\ ShownIn(s, log) = ShownIn(buffer, log)
  BY <1>1, <1>3, SayInto DEF BufferInv
<1>6. ~Repeats => \A i \in 1..Len(buffer) : buffer[i].text # m.text
  BY <1>0, <1>3 DEF ToSet
<1>7. PICK d : EndOf(buffer', s, d)
  BY <1>0, <1>5, TrimmedIs
<1>8. buffer' \in Seq(Entries) /\ Len(buffer') <= Limit
  BY <1>0, <1>5, TrimmedIs
<1>9. /\ Sound(buffer', log) /\ Keys(buffer')
      /\ Alone(s) => Alone(buffer')
      /\ Delivered(s) => Delivered(buffer')
      /\ \A i \in 1..Len(buffer') : \E j \in 1..Len(s) : buffer'[i] = s[j]
  BY <1>5, <1>7, <1>8, EndKeeps
<1>10. ASSUME ~Repeats, connection = 1 PROVE AwaitedIn(s, toServer', toClient)
  <2>1. AwaitedIn(buffer, toServer', toClient)
    BY <1>0, <1>1, <1>4, <1>10, AwaitedAsk DEF OursInv
  <2>2. Len(toServer) + 1 \in 1..Len(toServer') /\ toServer'[Len(toServer) + 1] = x
    BY <1>0, <1>1, <1>4, AppendIs
  <2> SUFFICES ASSUME NEW i \in 1..Len(s), s[i].pending
               PROVE  \/ \E k \in 1..Len(toServer') : toServer'[k].cmd = "SAY" /\ toServer'[k].text = s[i].text
                      \/ \E k \in 1..Len(toClient) : toClient[k].cmd = "MSG" /\ toClient[k].text = s[i].text
    BY DEF AwaitedIn
  <2>3. CASE s[i] = m
    BY <1>3, <1>4, <2>2, <2>3
  <2>4. CASE \E j \in 1..Len(buffer) : buffer[j] = s[i]
    BY <2>1, <2>4 DEF AwaitedIn
  <2> QED BY <1>5, <1>6, <1>10, <2>3, <2>4
<1>11. First' => First
  <2>1. Cardinality(Units(log, toServer)) <= Cardinality(Units(log, Append(toServer, x)))
    BY <1>1, <1>2, <1>4, UnitsMore
  <2>2. /\ Cardinality(Units(log, toServer)) \in Nat /\ Cardinality(Units(log, Append(toServer, x))) \in Nat
        /\ Limit \in Nat
    <3>1. Len(Append(toServer, x)) \in Nat
      BY <1>1, <1>4
    <3> QED BY <1>2, <3>1, UnitsFinite, BufferAssumption
  <2> QED BY <1>0, <2>1, <2>2 DEF First
<1>12. First' => Known' = Known /\ FromStart' = FromStart
  <2> SUFFICES ASSUME First' PROVE Known' = Known /\ FromStart' = FromStart
    OBVIOUS
  <2>1. ~Repeats /\ connection = 1 /\ Cardinality(Units(log, toServer')) <= Limit /\ connected
    BY <1>0, <1>11 DEF First
  <2>2. Alone(s) /\ Delivered(s) /\ ShownIn(s, log) = ShownIn(buffer, log)
    BY <1>1, <1>5, <1>6, <2>1 DEF OursInv
  <2>3. AwaitedIn(s, toServer', toClient)
    BY <1>10, <2>1
  <2>4. Len(toServer') \in Nat
    BY <1>0, <1>1, <1>4
  <2>5. buffer' = s
    BY <1>0, <1>1, <1>2, <1>5, <2>1, <2>2, <2>3, <2>4, HasRoom DEF WireInv
  <2>6. ShownIn(buffer', log) = ShownIn(buffer, log)
    BY <2>2, <2>5
  <2>7. Known' = Known
    BY <1>0, <2>6 DEF Known, KnownIn
  <2> QED BY <1>0, <2>7 DEF FromStart
<1>13. TypeInv'
  <2>1. sent' \in 0..Sends
    BY <1>0, <1>1
  <2>2. toServer' \in Seq(Asks)
    BY <1>0, <1>1, <1>4, AppendIs
  <2> QED BY <1>0, <1>1, <1>8, <2>1, <2>2 DEF TypeInv, HistoryTypeOK
<1>14. BufferInv'
  <2>1. sent' # 0
    BY <1>0, <1>1
  <2> QED BY <1>0, <1>9, <2>1 DEF BufferInv
<1>15. WireInv'
  <2>1. AskedTrue(toServer', log)
    BY <1>0, <1>1, <1>4, AskedMore DEF WireInv
  <2> QED BY <1>0, <1>1, <2>1 DEF WireInv
<1>16. OursInv'
  <2> SUFFICES ASSUME ~Repeats
               PROVE  /\ Alone(buffer') /\ Delivered(buffer')
                      /\ connection = 1 => AwaitedIn(buffer', toServer', toClient)
    BY <1>0 DEF OursInv
  <2>1. Alone(buffer') /\ Delivered(buffer')
    BY <1>1, <1>5, <1>6, <1>9 DEF OursInv
  <2>2. connection = 1 => AwaitedIn(buffer', toServer', toClient)
    BY <1>9, <1>10, AwaitedAmong
  <2> QED BY <2>1, <2>2
<1>17. LinkInv'
  BY <1>0, <1>1 DEF LinkInv
<1>18. Bracketed'
  <2>1. Lengths \subseteq Lengths'
    BY <1>11, <1>12, LengthsGrow
  <2> QED BY <1>0, <1>1, <2>1, BracketedMore DEF Bracketed
<1>19. InFlight'
  <2>1. \A i \in 1..Len(toServer) : toServer'[i] = toServer[i] /\ i \in 1..Len(toServer')
    BY <1>0, <1>1, <1>4, AppendIs
  <2> QED BY <1>0, <1>1, <2>1 DEF InFlight
<1>20. Whole'
  <2> SUFFICES ASSUME First' PROVE Whole'
    BY DEF Whole
  <2>1. First /\ Known' = Known /\ FromStart' = FromStart
    BY <1>11, <1>12
  <2>2. \A k \in 1..Len(toServer') : toServer'[k].cmd = "BEFORE" => \E p \in Known : toServer'[k].at = 2 * p
    <3>1. /\ \A k \in 1..Len(toServer) : toServer'[k] = toServer[k]
          /\ toServer'[Len(toServer) + 1] = x
          /\ \A k \in 1..Len(toServer') : k \in 1..Len(toServer) \/ k = Len(toServer) + 1
      BY <1>0, <1>1, <1>4, AppendIs
    <3> QED BY <1>1, <1>4, <2>1, <3>1 DEF Whole
  <2> QED BY <1>0, <1>1, <2>1, <2>2 DEF Whole
<1> QED BY <1>13, <1>14, <1>15, <1>16, <1>17, <1>18, <1>19, <1>20 DEF HistoryInv

----------------------------------------------------------------------------
(* Lines read.                                                             *)

\* A message read is one the log has.
LEMMA HeardMessage ==
    ASSUME TypeInv, WireInv, toClient # <<>>, Heard.cmd = "MSG"
    PROVE  /\ Heard.at \in Nat /\ Heard.text \in {Other} \cup Texts /\ Heard.batched \in BOOLEAN
           /\ Heard.at % 2 = 0
           /\ \E p \in 1..Len(log) : Heard.at = 2 * p /\ Heard.text = log[p]
<1>1. Heard \in Tells /\ Heard = toClient[1] /\ 1 \in 1..Len(toClient)
  BY TailIs DEF TypeInv, Heard
<1>2. Heard.at \in Nat /\ Heard.text \in {Other} \cup Texts /\ Heard.batched \in BOOLEAN
  BY <1>1, Heard.cmd = "MSG" DEF Tells
<1>3. PICK p \in 1..Len(log) : Heard.at = 2 * p /\ Heard.text = log[p]
  BY <1>1 DEF WireInv, ToldTrue
<1>4. Len(log) \in Nat /\ p \in Nat
  BY DEF TypeInv, HistoryTypeOK
<1> QED BY <1>2, <1>3, <1>4

\* Reading a line that is no message leaves what is known as it is.
LEMMA ReadsKeeps ==
    ASSUME HistoryInv, NEW cmd \in {"OPEN", "CLOSE", "FAIL"}, Reads(cmd), UNCHANGED buffer,
           historyPending' \in {"none", "latest", "older"}, historyComplete' \in BOOLEAN, historyGap' \in BOOLEAN,
           batch' \in [open : BOOLEAN, count : Nat, newest : Nat, liveOldest : Nat],
           cmd = "OPEN" => batch'.open /\ batch'.count = 0,
           InFlight',
           historyComplete' => historyComplete \/ (First => FromStart)
    PROVE  HistoryInv'
<1>0. /\ connected /\ toClient # <<>> /\ Head(toClient).cmd = cmd /\ toClient' = Tail(toClient)
      /\ UNCHANGED <<connected, connection, sent, toServer, log, mishap>>
  BY DEF Reads, link
<1>1. /\ TypeInv /\ BufferInv /\ WireInv /\ OursInv /\ LinkInv /\ Bracketed /\ Whole
      /\ buffer \in Seq(Entries) /\ log \in Seq({Other} \cup Texts)
      /\ toServer \in Seq(Asks) /\ toClient \in Seq(Tells)
      /\ batch.count \in Nat
  BY DEF HistoryInv, TypeInv, HistoryTypeOK
<1>2. First' = First /\ Known' = Known /\ FromStart' = FromStart
  <2>1. First' = First
    BY <1>0 DEF First
  <2>2. ToldIn(toClient', log) = ToldIn(toClient, log)
    <3>1. {p \in 1..Len(log) : Head(toClient).cmd = "MSG" /\ Head(toClient).at = 2 * p} = {}
      BY <1>0
    <3>2. ToldIn(toClient, log) = ToldIn(Tail(toClient), log)
             \cup {p \in 1..Len(log) : Head(toClient).cmd = "MSG" /\ Head(toClient).at = 2 * p}
      BY <1>0, <1>1, ToldTail
    <3>3. ToldIn(toClient, log) = ToldIn(Tail(toClient), log)
      BY <3>1, <3>2
    <3> QED BY <1>0, <3>3
  <2>3. Known' = Known
    BY <1>0, <2>2 DEF Known, KnownIn
  <2> QED BY <1>0, <2>1, <2>3 DEF FromStart
<1>3. TypeInv'
  <2>1. toClient' \in Seq(Tells)
    BY <1>0, <1>1, TailIs
  <2> QED BY <1>0, <1>1, <2>1 DEF TypeInv, HistoryTypeOK
<1>4. BufferInv' /\ LinkInv'
  BY <1>0, <1>1 DEF BufferInv, LinkInv
<1>5. WireInv'
  <2>1. ToldTrue(toClient', log)
    BY <1>0, <1>1, ToldTail DEF WireInv
  <2> QED BY <1>0, <1>1, <2>1 DEF WireInv
<1>6. OursInv'
  <2>1. AwaitedIn(buffer, toServer, toClient) => AwaitedIn(buffer, toServer, toClient')
    BY <1>0, <1>1, AwaitedTail
  <2> QED BY <1>0, <1>1, <2>1 DEF OursInv
<1>7. Bracketed'
  <2>1. Lengths \subseteq Lengths'
    BY <1>2, LengthsGrow
  <2>2. BracketedIn(Tail(toClient), batch', Lengths')
    BY <1>0, <1>1, <2>1, BracketedTail DEF Bracketed
  <2> QED BY <1>0, <2>2 DEF Bracketed
<1>8. Whole'
  BY <1>0, <1>1, <1>2 DEF Whole
<1> QED BY <1>3, <1>4, <1>5, <1>6, <1>7, <1>8 DEF HistoryInv

\* The close that is waited for does not go by the reading of another line.
LEMMA StillInFlight ==
    ASSUME InFlight, toClient \in Seq(Tells), toClient # <<>>, Head(toClient).cmd # "CLOSE",
           toClient' = Tail(toClient), UNCHANGED <<connected, mishap, historyPending, toServer>>
    PROVE  InFlight'
<1>1. /\ Head(toClient) = toClient[1]
      /\ \A i \in 1..Len(toClient) : i = 1 \/ (i - 1 \in 1..Len(Tail(toClient)) /\ Tail(toClient)[i - 1] = toClient[i])
  BY TailIs
<1> SUFFICES ASSUME connected', ~mishap', historyPending' # "none"
             PROVE  \/ \E i \in 1..Len(toServer') : toServer'[i].cmd \in {"LATEST", "BEFORE"}
                    \/ \E i \in 1..Len(toClient') : toClient'[i].cmd = "CLOSE"
  BY DEF InFlight
<1>2. CASE \E i \in 1..Len(toClient) : toClient[i].cmd = "CLOSE"
  BY <1>1, <1>2
<1> QED BY <1>2 DEF InFlight

\* A batch begins,
LEMMA OpensBatchKeeps ==
    ASSUME HistoryInv, OpensBatch
    PROVE  HistoryInv'
<1>0. /\ Reads("OPEN")
      /\ batch' = [NoBatch EXCEPT !.open = TRUE,
                       !.liveOldest = IF FromServer(buffer) = 0 THEN 0 ELSE OldestRef(buffer)]
      /\ UNCHANGED <<buffer, historyPending, historyComplete, historyGap>>
  BY DEF OpensBatch, history
<1>1. TypeInv /\ InFlight /\ buffer \in Seq(Entries)
  BY DEF HistoryInv, TypeInv, HistoryTypeOK
<1>2. (IF FromServer(buffer) = 0 THEN 0 ELSE OldestRef(buffer)) \in Nat
  BY <1>1, FromServerIs, EntryFields DEF OldestRef
<1>3. /\ batch' \in [open : BOOLEAN, count : Nat, newest : Nat, liveOldest : Nat]
      /\ batch'.open /\ batch'.count = 0
  BY <1>0, <1>2 DEF NoBatch
<1>4. InFlight'
  BY <1>0, <1>1, StillInFlight DEF Reads, TypeInv, link
<1>5. /\ historyPending' \in {"none", "latest", "older"} /\ historyComplete' \in BOOLEAN
      /\ historyGap' \in BOOLEAN
      /\ historyComplete' => historyComplete \/ (First => FromStart)
  BY <1>0, <1>1 DEF TypeInv, HistoryTypeOK
<1>6. UNCHANGED buffer /\ "OPEN" \in {"OPEN", "CLOSE", "FAIL"} /\ HistoryInv
  BY <1>0
<1> QED BY <1>0, <1>3, <1>4, <1>5, <1>6, ReadsKeeps

\* a request fails,
LEMMA ReadsFailKeeps ==
    ASSUME HistoryInv, ReadsFail
    PROVE  HistoryInv'
<1>0. Reads("FAIL") /\ UNCHANGED <<buffer, historyPending, historyComplete, historyGap, batch>>
  BY DEF ReadsFail, history
<1>1. TypeInv /\ InFlight
  BY DEF HistoryInv
<1>4. InFlight'
  BY <1>0, <1>1, StillInFlight DEF Reads, TypeInv, link
<1>5. /\ historyPending' \in {"none", "latest", "older"} /\ historyComplete' \in BOOLEAN
      /\ historyGap' \in BOOLEAN
      /\ historyComplete' => historyComplete \/ (First => FromStart)
      /\ batch' \in [open : BOOLEAN, count : Nat, newest : Nat, liveOldest : Nat]
  BY <1>0, <1>1 DEF TypeInv, HistoryTypeOK
<1>6. UNCHANGED buffer /\ "FAIL" \in {"OPEN", "CLOSE", "FAIL"} /\ "FAIL" # "OPEN" /\ HistoryInv
  BY <1>0
<1> QED BY <1>0, <1>4, <1>5, <1>6, ReadsKeeps

\* a batch ends: a short one only if it went back to the start.
LEMMA ClosesBatchKeeps ==
    ASSUME HistoryInv, ClosesBatch
    PROVE  HistoryInv'
<1>0. /\ Reads("CLOSE")
      /\ batch' = IF batch.open THEN NoBatch ELSE batch
      /\ \/ /\ batch.open /\ historyPending # "none"
            /\ historyPending' = "none"
            /\ historyComplete' = (historyComplete \/ Short)
            /\ historyGap' = (/\ ~Short /\ historyPending = "latest"
                              /\ batch.newest # 0 /\ batch.newest < batch.liveOldest)
         \/ /\ ~batch.open \/ historyPending = "none"
            /\ UNCHANGED <<historyPending, historyComplete, historyGap>>
      /\ UNCHANGED buffer
  BY DEF ClosesBatch, history
<1>1. TypeInv /\ InFlight /\ Bracketed /\ toClient \in Seq(Tells) /\ batch.count \in Nat
  BY DEF HistoryInv, TypeInv, HistoryTypeOK
<1>2. connected /\ toClient # <<>> /\ Head(toClient).cmd = "CLOSE" /\ UNCHANGED <<mishap, connected>>
  BY <1>0 DEF Reads, link
<1>3. batch.open /\ batch.count \in Lengths
  <2>1. toClient[1].cmd = "CLOSE" /\ 1 \in 1..Len(toClient)
    BY <1>1, <1>2, TailIs
  <2>2. /\ ~\E j \in 1..(1 - 1) : TRUE
        /\ batch.count + 1 - 1 = batch.count
    BY <1>1
  <2> QED BY <1>1, <2>1, <2>2 DEF Bracketed, BracketedIn
<1>4. historyPending' = "none"
  BY <1>0, <1>3
<1>5. InFlight'
  BY <1>4 DEF InFlight
<1>6. /\ historyPending' \in {"none", "latest", "older"} /\ historyComplete' \in BOOLEAN
      /\ historyGap' \in BOOLEAN
      /\ batch' \in [open : BOOLEAN, count : Nat, newest : Nat, liveOldest : Nat]
  <2>1. historyComplete \in BOOLEAN /\ historyGap \in BOOLEAN /\ Short \in BOOLEAN
    BY <1>1 DEF TypeInv, HistoryTypeOK, Short
  <2>2. NoBatch \in [open : BOOLEAN, count : Nat, newest : Nat, liveOldest : Nat]
    BY DEF NoBatch
  <2>3. batch \in [open : BOOLEAN, count : Nat, newest : Nat, liveOldest : Nat]
    BY <1>1 DEF TypeInv, HistoryTypeOK
  <2>4. historyComplete' \in BOOLEAN /\ historyGap' \in BOOLEAN
    BY <1>0, <2>1
  <2>5. batch' \in [open : BOOLEAN, count : Nat, newest : Nat, liveOldest : Nat]
    BY <1>0, <2>2, <2>3
  <2> QED BY <1>4, <2>4, <2>5
<1>7. historyComplete' => historyComplete \/ (First => FromStart)
  <2>1. Short => (First => FromStart)
    <3>1. Page \in Nat
      BY BufferAssumption
    <3> QED BY <1>1, <1>3, <3>1 DEF Short, Lengths
  <2> QED BY <1>0, <2>1
<1> QED BY <1>0, <1>5, <1>6, <1>7, ReadsKeeps

\* A connection that goes takes what was under way with it.
LEMMA EndsKeeps ==
    ASSUME HistoryInv, Loses \/ Stops
    PROVE  HistoryInv'
<1>0. /\ connected' = FALSE /\ toServer' = <<>> /\ toClient' = <<>> /\ connected
      /\ UNCHANGED <<connection, buffer, historyComplete, historyGap, sent, log>>
      /\ mishap' \in BOOLEAN
      /\ \/ mishap' = TRUE /\ UNCHANGED <<historyPending, batch>>
         \/ historyPending' = "none" /\ batch' = NoBatch
  BY DEF Loses, Stops, Ends, HistoryInv, TypeInv, HistoryTypeOK
<1>1. TypeInv /\ BufferInv /\ WireInv /\ OursInv /\ LinkInv
  BY DEF HistoryInv
<1>2. TypeInv'
  <2>1. NoBatch \in [open : BOOLEAN, count : Nat, newest : Nat, liveOldest : Nat]
    BY DEF NoBatch
  <2>2. toServer' \in Seq(Asks) /\ toClient' \in Seq(Tells)
    BY <1>0
  <2>3. batch' \in [open : BOOLEAN, count : Nat, newest : Nat, liveOldest : Nat]
    BY <1>0, <1>1, <2>1 DEF TypeInv, HistoryTypeOK
  <2> QED BY <1>0, <1>1, <2>2, <2>3 DEF TypeInv, HistoryTypeOK
<1>3. BufferInv'
  BY <1>0, <1>1 DEF BufferInv
<1>4. WireInv'
  BY <1>0 DEF WireInv, ToldTrue, AskedTrue
<1>5. OursInv'
  BY <1>0, <1>1 DEF OursInv
<1>6. LinkInv'
  BY <1>0, <1>1 DEF LinkInv
<1>7. Bracketed' /\ InFlight' /\ Whole'
  BY <1>0 DEF Bracketed, BracketedIn, InFlight, Whole, First
<1> QED BY <1>2, <1>3, <1>4, <1>5, <1>6, <1>7 DEF HistoryInv

\* What a message adds to what is shown, it takes from what is told.
LEMMA ReadsMessageKeeps ==
    ASSUME HistoryInv, ReadsMessage
    PROVE  HistoryInv'
<1> DEFINE m == Settled(Heard)
<1>0. /\ connected /\ toClient # <<>> /\ Heard.cmd = "MSG" /\ Head(toClient).cmd = "MSG"
      /\ toClient' = Tail(toClient)
      /\ UNCHANGED <<connected, connection, sent, toServer, log, mishap>>
      /\ buffer' = IF Heard.text \in Texts THEN Reconcile(buffer, m) ELSE Insert(buffer, m)
      /\ batch' = IF Heard.batched /\ batch.open
                     THEN [batch EXCEPT !.count = @ + 1,
                                        !.newest = IF Heard.at > @ THEN Heard.at ELSE @]
                     ELSE batch
      /\ UNCHANGED <<historyPending, historyComplete, historyGap>>
  BY DEF ReadsMessage, Reads, link, history, Heard
<1>1. /\ TypeInv /\ BufferInv /\ WireInv /\ OursInv /\ LinkInv /\ Bracketed /\ Whole /\ InFlight
      /\ buffer \in Seq(Entries) /\ Len(buffer) <= Limit /\ log \in Seq({Other} \cup Texts)
      /\ toServer \in Seq(Asks) /\ toClient \in Seq(Tells)
      /\ batch \in [open : BOOLEAN, count : Nat, newest : Nat, liveOldest : Nat]
  BY DEF HistoryInv, TypeInv, HistoryTypeOK
<1>2. /\ Heard.at \in Nat /\ Heard.text \in {Other} \cup Texts
      /\ Heard.at % 2 = 0
      /\ \E p \in 1..Len(log) : Heard.at = 2 * p /\ Heard.text = log[p]
  BY <1>0, <1>1, HeardMessage
<1>3. /\ m \in Entries /\ TrueEntry(m, log) /\ m.at % 2 = 0 /\ ~m.pending
      /\ m.at = Heard.at /\ m.text = Heard.text
  <2>1. m \in Entries /\ m.at = Heard.at /\ m.text = Heard.text /\ m.pending = FALSE
    BY <1>2, SettledIs
  <2> HIDE DEF m
  <2> QED BY <1>2, <2>1 DEF TrueEntry
<1> HIDE DEF m
<1>4. PICK s : TakenUp(buffer, log, m, s) /\ buffer' = Trimmed(s)
  <2>1. buffer' = IF m.text \in Texts THEN Reconcile(buffer, m) ELSE Insert(buffer, m)
    BY <1>0, <1>3
  <2> QED BY <1>1, <1>3, <2>1, ReadInto DEF BufferInv
<1>5. /\ s \in Seq(Entries) /\ Sound(s, log) /\ Keys(s)
      /\ Alone(buffer) => /\ Alone(s)
                          /\ \A i \in 1..Len(s) : s[i].pending =>
                               s[i].text # m.text /\ \E j \in 1..Len(buffer) : buffer[j] = s[i]
      /\ Delivered(buffer) => Delivered(s)
      /\ Even(buffer) /\ Sorted(buffer) => Even(s) /\ Sorted(s)
      /\ ShownIn(s, log) = ShownIn(buffer, log) \cup {q \in 1..Len(log) : m.at = 2 * q}
  BY <1>4 DEF TakenUp
<1>6. PICK d : EndOf(buffer', s, d)
  BY <1>4, <1>5, TrimmedIs
<1>7. buffer' \in Seq(Entries) /\ Len(buffer') <= Limit
  BY <1>4, <1>5, TrimmedIs
<1>8. /\ Sound(buffer', log) /\ Keys(buffer')
      /\ Alone(s) => Alone(buffer')
      /\ Delivered(s) => Delivered(buffer')
      /\ Even(s) => Even(buffer')
      /\ Sorted(s) => Sorted(buffer')
      /\ \A i \in 1..Len(buffer') : \E j \in 1..Len(s) : buffer'[i] = s[j]
  BY <1>5, <1>6, <1>7, EndKeeps
<1>9. ASSUME ~Repeats, connection = 1 PROVE AwaitedIn(s, toServer, Tail(toClient))
  <2>1. AwaitedIn(buffer, toServer, toClient) /\ Alone(buffer)
    BY <1>0, <1>1, <1>9 DEF OursInv
  <2>2. AwaitedIn(s, toServer, toClient)
    BY <1>5, <2>1, AwaitedAmong
  <2>3. \A i \in 1..Len(s) : s[i].pending => s[i].text # Head(toClient).text
    BY <1>3, <1>5, <2>1 DEF Heard
  <2> QED BY <1>0, <1>1, <2>2, <2>3, AwaitedTail
<1>10. First' = First
  BY <1>0 DEF First
<1>11. ToldTrue(toClient', log) /\ toClient' \in Seq(Tells)
  BY <1>0, <1>1, ToldTail, TailIs DEF WireInv
<1>12. First' => Known' = Known /\ FromStart' = FromStart
  <2> SUFFICES ASSUME First' PROVE Known' = Known /\ FromStart' = FromStart
    OBVIOUS
  <2>1. ~Repeats /\ connection = 1 /\ Cardinality(Units(log, toServer)) <= Limit /\ connected
    BY <1>0, <1>10 DEF First
  <2>2. Alone(s) /\ Delivered(s)
    BY <1>1, <1>5, <2>1 DEF OursInv
  <2>3. AwaitedIn(s, toServer, toClient')
    BY <1>0, <1>9, <2>1
  <2>4. Len(toServer) \in Nat /\ Len(log) \in Nat
    BY <1>1
  <2>5. buffer' = s
    BY <1>1, <1>4, <1>5, <1>11, <2>1, <2>2, <2>3, <2>4, HasRoom
  <2>6. ToldIn(toClient, log) = ToldIn(toClient', log)
             \cup {q \in 1..Len(log) : Head(toClient).cmd = "MSG" /\ Head(toClient).at = 2 * q}
    BY <1>0, <1>1, ToldTail
  <2>7. {q \in 1..Len(log) : Head(toClient).cmd = "MSG" /\ Head(toClient).at = 2 * q}
           = {q \in 1..Len(log) : m.at = 2 * q}
    BY <1>0, <1>3 DEF Heard
  <2>8. KnownIn(buffer', log, toClient') = KnownIn(buffer, log, toClient)
    BY <1>5, <2>5, <2>6, <2>7 DEF KnownIn
  <2>9. Known' = Known
    BY <1>0, <2>8 DEF Known
  <2> QED BY <1>0, <2>9 DEF FromStart
<1>13. /\ batch' \in [open : BOOLEAN, count : Nat, newest : Nat, liveOldest : Nat]
       /\ Heard.batched /\ batch.open => batch'.open /\ batch'.count = batch.count + 1
       /\ batch.count \in Nat
  <2>1. batch.count \in Nat /\ batch.newest \in Nat /\ batch.count + 1 \in Nat
    BY <1>1
  <2>2. CASE Heard.batched /\ batch.open
    <3> DEFINE top == IF Heard.at > batch.newest THEN Heard.at ELSE batch.newest
               more == batch.count + 1
    <3>1. batch' = [batch EXCEPT !.count = more, !.newest = top]
      BY <1>0, <2>2
    <3>2. top \in Nat /\ more \in Nat
      BY <1>2, <2>1
    <3> HIDE DEF top
    <3>3. more = batch.count + 1
      OBVIOUS
    <3> HIDE DEF more
    <3> QED BY <1>1, <2>1, <2>2, <3>1, <3>2, <3>3
  <2>3. CASE ~(Heard.batched /\ batch.open)
    BY <1>0, <1>1, <2>1, <2>3
  <2> QED BY <2>1, <2>2, <2>3
<1>14. TypeInv'
  BY <1>0, <1>1, <1>7, <1>11, <1>13 DEF TypeInv, HistoryTypeOK
<1>15. BufferInv'
  BY <1>0, <1>1, <1>5, <1>8 DEF BufferInv
<1>16. WireInv'
  BY <1>0, <1>1, <1>11 DEF WireInv
<1>17. OursInv'
  <2> SUFFICES ASSUME ~Repeats
               PROVE  /\ Alone(buffer') /\ Delivered(buffer')
                      /\ connection = 1 => AwaitedIn(buffer', toServer, toClient')
    BY <1>0 DEF OursInv
  <2>1. Alone(buffer') /\ Delivered(buffer')
    BY <1>1, <1>5, <1>8 DEF OursInv
  <2>2. connection = 1 => AwaitedIn(buffer', toServer, toClient')
    BY <1>0, <1>8, <1>9, AwaitedAmong
  <2> QED BY <2>1, <2>2
<1>18. LinkInv'
  BY <1>0, <1>1 DEF LinkInv
<1>19. Bracketed'
  <2>1. Lengths \subseteq Lengths'
    BY <1>10, <1>12, LengthsGrow
  <2>2. Head(toClient).cmd # "OPEN" /\ Head(toClient) = Heard
    BY <1>0 DEF Heard
  <2>3. BracketedIn(Tail(toClient), batch', Lengths')
    BY <1>0, <1>1, <1>13, <2>1, <2>2, BracketedTail DEF Bracketed
  <2> QED BY <1>0, <2>3 DEF Bracketed
<1>20. InFlight'
  <2>1. Head(toClient).cmd # "CLOSE"
    BY <1>0
  <2> QED BY <1>0, <1>1, <2>1, StillInFlight
<1>21. Whole'
  BY <1>0, <1>1, <1>10, <1>12 DEF Whole
<1> QED BY <1>14, <1>15, <1>16, <1>17, <1>18, <1>19, <1>20, <1>21 DEF HistoryInv

----------------------------------------------------------------------------
(* What the server does.                                                   *)

\* Something is said: the log and what is told of it are one longer.
LEMMA SaidKeeps ==
    ASSUME HistoryInv, NEW t \in {Other} \cup Texts, log' = Append(log, t),
           connected => toClient' = Append(toClient, Message(log', Len(log'), FALSE)),
           ~connected => toClient' = toClient,
           \/ toServer' = toServer
           \/ connected /\ toServer # <<>> /\ toServer' = Tail(toServer) /\ Head(toServer).cmd = "SAY" /\ Head(toServer).text = t,
           UNCHANGED <<link, buffer, history, batch, sent, mishap>>
    PROVE  HistoryInv'
<1>0. /\ UNCHANGED <<connected, connection, buffer, historyPending, historyComplete, historyGap>>
      /\ UNCHANGED <<batch, sent, mishap>>
  BY DEF link, history
<1>1. /\ TypeInv /\ BufferInv /\ WireInv /\ OursInv /\ LinkInv /\ Bracketed /\ Whole /\ InFlight
      /\ buffer \in Seq(Entries) /\ Len(buffer) <= Limit /\ log \in Seq({Other} \cup Texts)
      /\ toServer \in Seq(Asks) /\ toClient \in Seq(Tells)
      /\ Sound(buffer, log) /\ ToldTrue(toClient, log) /\ AskedTrue(toServer, log)
  BY DEF HistoryInv, TypeInv, HistoryTypeOK, BufferInv, WireInv
<1> DEFINE n == Len(log)
           x == Message(log', n + 1, FALSE)
<1>2. /\ log' \in Seq({Other} \cup Texts) /\ Len(log') = n + 1 /\ n \in Nat
      /\ \A p \in 1..n : log'[p] = log[p]
      /\ log'[n + 1] = t
  BY <1>1, AppendIs
<1>3. x \in Tells /\ x.cmd = "MSG" /\ x.at = 2 * (n + 1) /\ x.text = t /\ x.cmd # "CLOSE"
  BY <1>2 DEF Message, Tells
<1>4. connected => toClient' = Append(toClient, x)
  BY <1>2
<1> HIDE DEF x
<1>5. Sound(buffer, log') /\ ToldTrue(toClient, log') /\ AskedTrue(toServer, log')
  BY <1>1, LogGrows
<1>6. /\ toClient' \in Seq(Tells) /\ ToldTrue(toClient', log')
      /\ connected => ToldIn(toClient', log') = ToldIn(toClient, log) \cup {n + 1}
  <2>1. CASE ~connected
    BY <1>1, <1>5, <2>1
  <2>2. CASE connected
    <3>1. \E p \in 1..Len(log') : x.at = 2 * p /\ x.text = log'[p]
      BY <1>2, <1>3
    <3>2. /\ ToldTrue(Append(toClient, x), log')
          /\ ToldIn(Append(toClient, x), log')
                = ToldIn(toClient, log') \cup {p \in 1..Len(log') : x.cmd = "MSG" /\ x.at = 2 * p}
      BY <1>1, <1>3, <1>5, <3>1, ToldMore
    <3>3. {p \in 1..Len(log') : x.cmd = "MSG" /\ x.at = 2 * p} = {n + 1}
      BY <1>2, <1>3
    <3>4. ToldIn(toClient, log') = ToldIn(toClient, log)
      BY <1>1, KnownGrows
    <3>5. Append(toClient, x) \in Seq(Tells)
      BY <1>1, <1>3, AppendIs
    <3> QED BY <1>4, <2>2, <3>2, <3>3, <3>4, <3>5
  <2> QED BY <2>1, <2>2
<1>7. toServer' \in Seq(Asks) /\ AskedTrue(toServer', log')
  <2>1. CASE toServer' = toServer
    BY <1>1, <1>5, <2>1
  <2>2. CASE toServer # <<>> /\ toServer' = Tail(toServer)
    BY <1>1, <1>5, <2>2, AskedTail, TailIs
  <2> QED BY <2>1, <2>2
<1>8. ~Repeats => (connected => Known' = Known \cup {n + 1})
  <2> SUFFICES ASSUME ~Repeats, connected PROVE Known' = Known \cup {n + 1}
    OBVIOUS
  <2>1. Delivered(buffer)
    BY <1>1 DEF OursInv
  <2>2. ShownIn(buffer, log') = ShownIn(buffer, log)
    BY <1>1, <2>1, KnownGrows
  <2>3. KnownIn(buffer, log', toClient') = KnownIn(buffer, log, toClient) \cup {n + 1}
    BY <1>6, <2>2 DEF KnownIn
  <2> QED BY <1>0, <2>3 DEF Known
<1>9. First' => First /\ connected
  <2>1. Cardinality(Units(log, toServer)) <= Cardinality(Units(log', toServer'))
    <3>0. Len(toServer) \in Nat /\ Len(log') \in Nat /\ Len(toServer') \in Nat
      BY <1>1, <1>2, <1>7
    <3>1. CASE toServer' = toServer
      <4>1. \A k \in SaysIn(toServer) : n + k + 1 > n /\ n + k + 1 \in Units(log', toServer')
        <5> SUFFICES ASSUME NEW k \in SaysIn(toServer) PROVE n + k + 1 > n /\ n + k + 1 \in Units(log', toServer')
          OBVIOUS
        <5>1. k \in Nat /\ Len(log') + k = n + k + 1
          BY <1>2, <3>0 DEF SaysIn
        <5>2. Len(log') + k \in Units(log', toServer')
          <6>1. k \in SaysIn(toServer')
            BY <3>1
          <6> QED BY <6>1 DEF Units
        <5> QED BY <1>2, <5>1, <5>2
      <4>2. n <= Len(log') /\ 1 \in Int
        BY <1>2
      <4> QED BY <1>2, <3>0, <4>1, <4>2, UnitsShift
    <3>2. CASE toServer # <<>> /\ toServer' = Tail(toServer) /\ Head(toServer).cmd = "SAY"
      <4>1. Units(log', toServer') = Units(log, toServer)
        BY <1>1, <3>2, UnitSaid
      <4>2. Cardinality(Units(log, toServer)) \in Nat
        BY <1>2, <3>0, UnitsFinite
      <4> QED BY <4>1, <4>2
    <3> QED BY <3>1, <3>2
  <2>2. /\ Cardinality(Units(log, toServer)) \in Nat /\ Cardinality(Units(log', toServer')) \in Nat
        /\ Limit \in Nat
    <3>0. Len(toServer) \in Nat /\ Len(log') \in Nat /\ Len(toServer') \in Nat
      BY <1>1, <1>2, <1>7
    <3> QED BY <1>2, <3>0, UnitsFinite, BufferAssumption
  <2> QED BY <1>0, <2>1, <2>2 DEF First
<1>10. First' => Known' = Known \cup {n + 1} /\ (FromStart => FromStart')
  <2> SUFFICES ASSUME First' PROVE Known' = Known \cup {n + 1} /\ (FromStart => FromStart')
    OBVIOUS
  <2>1. Known' = Known \cup {n + 1}
    BY <1>8, <1>9 DEF First
  <2>2. ASSUME FromStart PROVE 1 \in Known'
    <3>1. CASE log = <<>>
      BY <1>2, <2>1, <3>1
    <3> QED BY <2>1, <2>2, <3>1 DEF FromStart
  <2> QED BY <2>1, <2>2 DEF FromStart
<1>11. connected => /\ Len(toClient') = Len(toClient) + 1 /\ Len(toClient) \in Nat
                    /\ \A k \in 1..Len(toClient) : toClient'[k] = toClient[k] /\ k \in 1..Len(toClient')
                    /\ toClient'[Len(toClient) + 1] = x /\ Len(toClient) + 1 \in 1..Len(toClient')
  <2> DEFINE c == Append(toClient, x)
  <2>1. /\ Len(c) = Len(toClient) + 1 /\ Len(toClient) \in Nat
        /\ \A k \in 1..Len(toClient) : c[k] = toClient[k]
        /\ c[Len(toClient) + 1] = x
    BY <1>1, <1>3, AppendIs
  <2>2. connected => toClient' = c
    BY <1>4
  <2> HIDE DEF c
  <2> QED BY <2>1, <2>2
<1>12. \/ toServer' = toServer
       \/ /\ connected /\ toServer # <<>> /\ toServer' = Tail(toServer)
          /\ Head(toServer).cmd = "SAY" /\ Head(toServer).text = t
  OBVIOUS
<1>13. \A k \in 1..Len(toServer') : \E j \in 1..Len(toServer) : toServer'[k] = toServer[j]
  <2>1. CASE toServer' = toServer
    BY <2>1
  <2>2. CASE toServer # <<>> /\ toServer' = Tail(toServer)
    BY <1>1, <2>2, TailIs
  <2> QED BY <1>12, <2>1, <2>2
<1>14. TypeInv'
  BY <1>0, <1>1, <1>2, <1>6, <1>7 DEF TypeInv, HistoryTypeOK
<1>15. BufferInv'
  BY <1>0, <1>1, <1>5 DEF BufferInv
<1>16. WireInv'
  BY <1>6, <1>7 DEF WireInv
<1>17. OursInv'
  <2> SUFFICES ASSUME ~Repeats, connected, connection = 1
               PROVE  AwaitedIn(buffer, toServer', toClient')
    BY <1>0, <1>1 DEF OursInv
  <2>1. AwaitedIn(buffer, toServer, toClient)
    BY <1>1 DEF OursInv
  <2>2. CASE toServer' = toServer
    <3> SUFFICES ASSUME NEW i \in 1..Len(buffer), buffer[i].pending
                 PROVE  \/ \E k \in 1..Len(toServer') : toServer'[k].cmd = "SAY" /\ toServer'[k].text = buffer[i].text
                        \/ \E k \in 1..Len(toClient') : toClient'[k].cmd = "MSG" /\ toClient'[k].text = buffer[i].text
      BY DEF AwaitedIn
    <3>1. CASE \E k \in 1..Len(toServer) : toServer[k].cmd = "SAY" /\ toServer[k].text = buffer[i].text
      BY <2>2, <3>1
    <3>2. CASE \E k \in 1..Len(toClient) : toClient[k].cmd = "MSG" /\ toClient[k].text = buffer[i].text
      BY <1>11, <3>2
    <3> QED BY <2>1, <3>1, <3>2 DEF AwaitedIn
  <2>3. CASE toServer # <<>> /\ toServer' = Tail(toServer) /\ Head(toServer).text = t
    <3>1. \E k \in 1..Len(toClient') : toClient'[k].cmd = "MSG" /\ toClient'[k].text = Head(toServer).text
      BY <1>3, <1>11, <2>3
    <3>2. Len(toClient) \in Nat /\ Len(toClient') \in Nat /\ Len(toClient) <= Len(toClient')
      BY <1>11
    <3>3. \A k \in 1..Len(toClient) : toClient'[k] = toClient[k]
      BY <1>11
    <3>4. AwaitedIn(buffer, Tail(toServer), toClient')
      BY <1>1, <2>1, <2>3, <3>1, <3>2, <3>3, AwaitedServed
    <3> QED BY <2>3, <3>4
  <2> QED BY <1>12, <2>2, <2>3
<1>18. LinkInv'
  <2>1. ~connected => toServer' = toServer /\ toClient' = toClient
    BY <1>12, ~connected => toClient' = toClient
  <2> QED BY <1>0, <1>1, <2>1 DEF LinkInv
<1>19. Bracketed'
  <2>1. Lengths \subseteq Lengths'
    BY <1>9, <1>10, LengthsGrow
  <2>2. BracketedIn(toClient, batch, Lengths)
    BY <1>1 DEF Bracketed
  <2>3. BracketedIn(Append(toClient, x), batch, Lengths')
    BY <1>1, <1>3, <2>1, <2>2, BracketedAppend
  <2>4. BracketedIn(toClient, batch, Lengths')
    BY <2>1, <2>2, BracketedMore
  <2>5. toClient' = toClient \/ toClient' = Append(toClient, x)
    BY <1>4, ~connected => toClient' = toClient
  <2> QED BY <1>0, <2>3, <2>4, <2>5 DEF Bracketed
<1>20. InFlight'
  <2> SUFFICES ASSUME connected, ~mishap, historyPending # "none"
               PROVE  \/ \E i \in 1..Len(toServer') : toServer'[i].cmd \in {"LATEST", "BEFORE"}
                      \/ \E i \in 1..Len(toClient') : toClient'[i].cmd = "CLOSE"
    BY <1>0 DEF InFlight
  <2>1. CASE \E i \in 1..Len(toClient) : toClient[i].cmd = "CLOSE"
    BY <1>11, <2>1
  <2>2. CASE \E i \in 1..Len(toServer) : toServer[i].cmd \in {"LATEST", "BEFORE"}
    <3>1. PICK i \in 1..Len(toServer) : toServer[i].cmd \in {"LATEST", "BEFORE"}
      BY <2>2
    <3>2. CASE toServer' = toServer
      BY <3>1, <3>2
    <3>3. CASE toServer # <<>> /\ toServer' = Tail(toServer) /\ Head(toServer).cmd = "SAY"
      <4>1. Head(toServer) = toServer[1] /\ (i = 1 \/ (i - 1 \in 1..Len(Tail(toServer)) /\ Tail(toServer)[i - 1] = toServer[i]))
        BY <1>1, <3>1, <3>3, TailIs
      <4>2. i # 1
        BY <3>1, <3>3, <4>1
      <4> QED BY <3>1, <3>3, <4>1, <4>2
    <3> QED BY <1>12, <3>2, <3>3
  <2> QED BY <1>1, <2>1, <2>2 DEF InFlight
<1>21. Whole'
  <2> SUFFICES ASSUME First' PROVE Whole'
    BY DEF Whole
  <2>1. First /\ Known' = Known \cup {n + 1} /\ (FromStart => FromStart')
    BY <1>9, <1>10
  <2>2. /\ \A p \in Known : p..n \subseteq Known
        /\ \A k \in 1..Len(toServer) : toServer[k].cmd = "BEFORE" => \E p \in Known : toServer[k].at = 2 * p
        /\ historyComplete => FromStart
    BY <1>1, <2>1 DEF Whole
  <2>3. Known \subseteq 1..n
    BY DEF Known, KnownIn, ShownIn, ToldIn
  <2>4. ASSUME NEW p \in Known', NEW q \in p..(n + 1) PROVE q \in Known'
    <3>1. q = n + 1 \/ (p \in Known /\ q \in p..n)
      BY <1>2, <2>1, <2>3, <2>4
    <3> QED BY <2>1, <2>2, <3>1
  <2>5. \A k \in 1..Len(toServer') : toServer'[k].cmd = "BEFORE" => \E p \in Known' : toServer'[k].at = 2 * p
    BY <1>13, <2>1, <2>2
  <2>6. \A p \in Known' : p..Len(log') \subseteq Known'
    BY <1>2, <2>4
  <2> QED BY <1>0, <2>1, <2>2, <2>5, <2>6 DEF Whole
<1> QED BY <1>14, <1>15, <1>16, <1>17, <1>18, <1>19, <1>20, <1>21 DEF HistoryInv

\* A line is served that asks for a asked.
LEMMA AskServed ==
    ASSUME TypeInv, connected, toServer # <<>>, Head(toServer).cmd \in {"LATEST", "BEFORE"},
           toServer' = Tail(toServer), UNCHANGED <<connected, connection, log>>
    PROVE  /\ First' => First
           /\ toServer' \in Seq(Asks)
           /\ \A k \in 1..Len(toServer') : \E j \in 1..Len(toServer) : toServer'[k] = toServer[j]
<1>1. /\ toServer \in Seq(Asks) /\ Len(log) \in Nat /\ Len(toServer) \in Nat /\ Limit \in Nat
  BY BufferAssumption DEF TypeInv, HistoryTypeOK
<1>2. /\ Tail(toServer) \in Seq(Asks) /\ Len(Tail(toServer)) \in Nat
      /\ Head(toServer) = toServer[1]
      /\ \A k \in 1..Len(toServer) : k = 1 \/ (k - 1 \in 1..Len(Tail(toServer)) /\ Tail(toServer)[k - 1] = toServer[k])
      /\ \A k \in 1..Len(Tail(toServer)) : Tail(toServer)[k] = toServer[k + 1] /\ k + 1 \in 1..Len(toServer)
  BY <1>1, TailIs
<1>3. \A k \in SaysIn(toServer) : /\ Len(log) + k + (-1) > Len(log)
                                  /\ Len(log) + k + (-1) \in Units(log, Tail(toServer))
  <2> SUFFICES ASSUME NEW k \in SaysIn(toServer)
               PROVE  /\ Len(log) + k + (-1) > Len(log)
                      /\ Len(log) + k + (-1) \in Units(log, Tail(toServer))
    OBVIOUS
  <2>1. k \in 1..Len(toServer) /\ toServer[k].cmd = "SAY"
    BY DEF SaysIn
  <2>2. k # 1
    BY <1>2, <2>1
  <2>3. k - 1 \in SaysIn(Tail(toServer)) /\ k - 1 > 0 /\ k \in Nat
    BY <1>1, <1>2, <2>1, <2>2 DEF SaysIn
  <2>4. Len(log) + (k - 1) \in Units(log, Tail(toServer))
    BY <2>3 DEF Units
  <2>5. Len(log) + k + (-1) = Len(log) + (k - 1)
    BY <1>1, <2>3
  <2> QED BY <1>1, <2>3, <2>4, <2>5
<1>4. Cardinality(Units(log, toServer)) <= Cardinality(Units(log, Tail(toServer)))
  <2>1. -1 \in Int /\ Len(log) <= Len(log)
    BY <1>1
  <2> QED BY <1>1, <1>2, <1>3, <2>1, UnitsShift
<1>5. Cardinality(Units(log, toServer)) \in Nat /\ Cardinality(Units(log, Tail(toServer))) \in Nat
  BY <1>1, <1>2, UnitsFinite
<1>6. First' => First
  BY <1>1, <1>4, <1>5, toServer' = Tail(toServer), UNCHANGED <<connected, connection, log>> DEF First
<1> QED BY <1>2, <1>6, toServer' = Tail(toServer)

\* The asked before p is served: what follows it was known, or there is nothing.
LEMMA PageServed ==
    ASSUME HistoryInv, connected, toServer # <<>>, Head(toServer).cmd \in {"LATEST", "BEFORE"},
           NEW p \in 1..(Len(log) + 1), p = Len(log) + 1 \/ (First => p \in Known),
           toServer' = Tail(toServer), toClient' = toClient \o Answer(PageBefore(p)),
           UNCHANGED <<link, buffer, history, batch, sent, log, mishap>>
    PROVE  HistoryInv'
<1> DEFINE asked == PageBefore(p)
           a == Answer(asked)
           first == IF p > Page THEN p - Page ELSE 1
<1>0. /\ UNCHANGED <<connected, connection, buffer, historyPending, historyComplete, historyGap>>
      /\ UNCHANGED <<batch, sent, mishap, log>>
      /\ toClient' = toClient \o a
  BY DEF link, history
<1>1. /\ TypeInv /\ BufferInv /\ WireInv /\ OursInv /\ LinkInv /\ Bracketed /\ Whole /\ InFlight
      /\ buffer \in Seq(Entries) /\ log \in Seq({Other} \cup Texts) /\ Len(log) \in Nat
      /\ toServer \in Seq(Asks) /\ toClient \in Seq(Tells)
      /\ ToldTrue(toClient, log) /\ AskedTrue(toServer, log)
  BY DEF HistoryInv, TypeInv, HistoryTypeOK, WireInv
<1>2. p \in Nat \ {0} /\ p <= Len(log) + 1 /\ Page \in Nat \ {0} /\ first \in Nat \ {0} /\ first <= p
  BY <1>1, BufferAssumption
<1>3. Len(asked) = p - first /\ Len(asked) \in Nat
  BY <1>2, PageIs
<1>4. /\ a \in Seq(Tells) /\ toClient' \in Seq(Tells)
      /\ ToldTrue(toClient', log)
      /\ ToldIn(toClient', log) = ToldIn(toClient, log) \cup (first..(p - 1))
  BY <1>0, <1>1, ToldAnswer
<1>5. Len(a) = Len(asked) + 2 /\ a[Len(asked) + 2] = [cmd |-> "CLOSE"]
  BY <1>3, AnswerIs
<1>6. /\ Len(toClient') = Len(toClient) + Len(asked) + 2 /\ Len(toClient) \in Nat
      /\ \A k \in 1..Len(toClient) : toClient'[k] = toClient[k]
      /\ toClient'[Len(toClient) + Len(asked) + 2].cmd = "CLOSE"
  <2> HIDE DEF a, asked
  <2>1. /\ Len(toClient \o a) = Len(toClient) + Len(a)
        /\ \A k \in 1..Len(toClient) : (toClient \o a)[k] = toClient[k]
        /\ \A k \in 1..Len(a) : (toClient \o a)[Len(toClient) + k] = a[k]
    BY <1>1, <1>4, Joined
  <2>2. Len(asked) + 2 \in 1..Len(a) /\ Len(toClient) \in Nat
    BY <1>1, <1>3, <1>5
  <2>3. (toClient \o a)[Len(toClient) + (Len(asked) + 2)] = a[Len(asked) + 2]
    BY <2>1, <2>2
  <2>4. Len(toClient) + (Len(asked) + 2) = Len(toClient) + Len(asked) + 2
    BY <1>3, <2>2
  <2> QED BY <1>0, <1>5, <2>1, <2>2, <2>3, <2>4
<1> HIDE DEF a
<1>7. /\ First' => First
      /\ toServer' \in Seq(Asks)
      /\ \A k \in 1..Len(toServer') : \E j \in 1..Len(toServer) : toServer'[k] = toServer[j]
  BY <1>0, <1>1, AskServed
<1>8. Known' = Known \cup (first..(p - 1))
  BY <1>0, <1>4 DEF Known, KnownIn
<1> HIDE DEF first
<1>9. FromStart => FromStart'
  BY <1>0, <1>8 DEF FromStart
<1>10. Lengths \subseteq Lengths'
  BY <1>7, <1>9, LengthsGrow
<1>11. Len(asked) \in Lengths'
  <2>1. CASE p > Page
    <3>1. Len(asked) >= Page
      BY <1>2, <1>3, <2>1 DEF first
    <3> QED BY <1>3, <3>1 DEF Lengths
  <2>2. CASE p <= Page
    <3>1. first = 1
      BY <1>2, <2>2 DEF first
    <3>2. First' => FromStart'
      <4>1. CASE p > 1
        BY <1>2, <1>8, <3>1, <4>1 DEF FromStart
      <4>2. CASE p = Len(log) + 1 /\ p = 1
        BY <1>0, <1>1, <4>2 DEF FromStart
      <4>3. CASE p = 1 /\ (First => p \in Known)
        BY <1>7, <1>8, <4>3 DEF FromStart
      <4> QED BY <1>2, <4>1, <4>2, <4>3, p = Len(log) + 1 \/ (First => p \in Known)
    <3> QED BY <1>3, <3>2 DEF Lengths
  <2> QED BY <1>2, <2>1, <2>2
<1>12. TypeInv'
  BY <1>0, <1>1, <1>4, <1>7 DEF TypeInv, HistoryTypeOK
<1>13. BufferInv' /\ LinkInv'
  BY <1>0, <1>1, connected DEF BufferInv, LinkInv
<1>14. WireInv'
  BY <1>0, <1>1, <1>4, AskedTail, toServer' = Tail(toServer) DEF WireInv
<1>15. OursInv'
  <2> SUFFICES ASSUME ~Repeats, connection = 1
               PROVE  AwaitedIn(buffer, toServer', toClient')
    BY <1>0, <1>1 DEF OursInv
  <2>1. AwaitedIn(buffer, toServer, toClient)
    BY <1>1 DEF OursInv
  <2>2. Len(toClient') \in Nat /\ Len(toClient) <= Len(toClient') /\ Len(toClient) \in Nat
    BY <1>3, <1>6
  <2>3. Head(toServer).cmd # "SAY"
    OBVIOUS
  <2> QED BY <1>1, <1>6, <2>1, <2>2, <2>3, AwaitedServed
<1>16. Bracketed'
  <2>1. BracketedIn(toClient, batch, Lengths)
    BY <1>1 DEF Bracketed
  <2>2. BracketedIn(toClient \o Answer(asked), batch, Lengths')
    BY <1>1, <1>3, <1>4, <1>10, <1>11, <2>1, BracketedAnswer DEF a
  <2> QED BY <1>0, <2>2 DEF Bracketed, a
<1>17. InFlight'
  <2>1. Len(toClient) + Len(asked) + 2 \in 1..Len(toClient')
    BY <1>3, <1>6
  <2> QED BY <1>6, <2>1 DEF InFlight
<1>18. Whole'
  <2> SUFFICES ASSUME First' PROVE Whole'
    BY DEF Whole
  <2>1. First
    BY <1>7
  <2>2. /\ \A q \in Known : q..Len(log) \subseteq Known
        /\ \A k \in 1..Len(toServer) : toServer[k].cmd = "BEFORE" => \E q \in Known : toServer[k].at = 2 * q
        /\ historyComplete => FromStart
    BY <1>1, <2>1 DEF Whole
  <2>3. ASSUME NEW q \in Known', NEW r \in q..Len(log) PROVE r \in Known'
    <3>1. CASE q \in Known
      BY <1>8, <2>2, <3>1
    <3>2. CASE q \in first..(p - 1)
      <4>1. CASE r \in first..(p - 1)
        BY <1>8, <4>1
      <4>2. CASE r >= p
        <5>1. p \in Known
          BY <1>1, <1>2, <2>1, <4>2, p = Len(log) + 1 \/ (First => p \in Known)
        <5>2. r \in p..Len(log)
          BY <1>2, <3>2, <4>2
        <5> QED BY <1>8, <2>2, <5>1, <5>2
      <4> QED BY <1>2, <3>2, <4>1, <4>2
    <3> QED BY <1>8, <3>1, <3>2
  <2>4. \A q \in Known' : q..Len(log') \subseteq Known'
    BY <1>0, <2>3
  <2>5. \A k \in 1..Len(toServer') : toServer'[k].cmd = "BEFORE" => \E q \in Known' : toServer'[k].at = 2 * q
    <3> SUFFICES ASSUME NEW k \in 1..Len(toServer'), toServer'[k].cmd = "BEFORE"
                 PROVE  \E q \in Known' : toServer'[k].at = 2 * q
      OBVIOUS
    <3>1. PICK j \in 1..Len(toServer) : toServer'[k] = toServer[j]
      BY <1>7
    <3>2. PICK q \in Known : toServer[j].at = 2 * q
      BY <2>2, <3>1
    <3> QED BY <1>8, <3>1, <3>2
  <2> QED BY <1>0, <1>9, <2>2, <2>4, <2>5 DEF Whole
<1> QED BY <1>12, <1>13, <1>14, <1>15, <1>16, <1>17, <1>18 DEF HistoryInv

\* A page refused.
LEMMA RefusalKeeps ==
    ASSUME HistoryInv, connected, toServer # <<>>, Head(toServer).cmd \in {"LATEST", "BEFORE"},
           toServer' = Tail(toServer), toClient' = Append(toClient, [cmd |-> "FAIL"]), mishap' = TRUE,
           UNCHANGED <<link, buffer, history, batch, sent, log>>
    PROVE  HistoryInv'
<1> DEFINE x == [cmd |-> "FAIL"]
<1>0. /\ UNCHANGED <<connected, connection, buffer, historyPending, historyComplete, historyGap>>
      /\ UNCHANGED <<batch, sent, log>>
      /\ toClient' = Append(toClient, x)
  BY DEF link, history
<1>1. /\ TypeInv /\ BufferInv /\ WireInv /\ OursInv /\ LinkInv /\ Bracketed /\ Whole
      /\ buffer \in Seq(Entries) /\ log \in Seq({Other} \cup Texts) /\ Len(log) \in Nat
      /\ toServer \in Seq(Asks) /\ toClient \in Seq(Tells)
      /\ ToldTrue(toClient, log) /\ AskedTrue(toServer, log)
  BY DEF HistoryInv, TypeInv, HistoryTypeOK, WireInv
<1>2. x \in Tells /\ x.cmd = "FAIL"
  BY DEF Tells
<1> HIDE DEF x
<1>3. /\ toClient' \in Seq(Tells) /\ ToldTrue(toClient', log)
      /\ ToldIn(toClient', log) = ToldIn(toClient, log)
  <2>1. /\ Append(toClient, x) \in Seq(Tells) /\ ToldTrue(Append(toClient, x), log)
        /\ ToldIn(Append(toClient, x), log)
              = ToldIn(toClient, log) \cup {p \in 1..Len(log) : x.cmd = "MSG" /\ x.at = 2 * p}
    BY <1>1, <1>2, AppendIs, ToldMore
  <2>2. {p \in 1..Len(log) : x.cmd = "MSG" /\ x.at = 2 * p} = {}
    BY <1>2
  <2> QED BY <1>0, <2>1, <2>2
<1>4. /\ First' => First
      /\ toServer' \in Seq(Asks)
      /\ \A k \in 1..Len(toServer') : \E j \in 1..Len(toServer) : toServer'[k] = toServer[j]
  BY <1>0, <1>1, AskServed
<1>5. Known' = Known /\ FromStart' = FromStart
  BY <1>0, <1>3 DEF Known, KnownIn, FromStart
<1>6. TypeInv'
  BY <1>0, <1>1, <1>3, <1>4, mishap' = TRUE DEF TypeInv, HistoryTypeOK
<1>7. BufferInv' /\ LinkInv'
  BY <1>0, <1>1, connected DEF BufferInv, LinkInv
<1>8. WireInv'
  BY <1>0, <1>1, <1>3, AskedTail, toServer' = Tail(toServer) DEF WireInv
<1>9. OursInv'
  <2> SUFFICES ASSUME ~Repeats, connection = 1
               PROVE  AwaitedIn(buffer, toServer', toClient')
    BY <1>0, <1>1 DEF OursInv
  <2>1. AwaitedIn(buffer, toServer, toClient)
    BY <1>1 DEF OursInv
  <2>2. /\ Len(Append(toClient, x)) = Len(toClient) + 1 /\ Len(toClient) \in Nat
        /\ \A k \in 1..Len(toClient) : Append(toClient, x)[k] = toClient[k]
    BY <1>1, <1>2, AppendIs
  <2>3. Len(toClient') \in Nat /\ Len(toClient) <= Len(toClient')
    BY <1>0, <2>2
  <2>4. Head(toServer).cmd # "SAY" /\ \A k \in 1..Len(toClient) : toClient'[k] = toClient[k]
    BY <1>0, <2>2
  <2> QED BY <1>1, <2>1, <2>2, <2>3, <2>4, AwaitedServed
<1>10. Bracketed'
  <2>1. Lengths \subseteq Lengths'
    BY <1>4, <1>5, LengthsGrow
  <2>2. BracketedIn(toClient, batch, Lengths)
    BY <1>1 DEF Bracketed
  <2>3. BracketedIn(Append(toClient, x), batch, Lengths')
    BY <1>1, <1>2, <2>1, <2>2, BracketedAppend
  <2> QED BY <1>0, <2>3 DEF Bracketed
<1>11. InFlight'
  BY mishap' = TRUE DEF InFlight
<1>12. Whole'
  BY <1>0, <1>1, <1>4, <1>5 DEF Whole
<1> QED BY <1>6, <1>7, <1>8, <1>9, <1>10, <1>11, <1>12 DEF HistoryInv

\* A line is served: something is said, or a page is asked for.
LEMMA ServesKeeps ==
    ASSUME HistoryInv, Serves
    PROVE  HistoryInv'
<1> DEFINE asked == Head(toServer)
<1>0. /\ connected /\ toServer # <<>> /\ toServer' = Tail(toServer)
      /\ \/ /\ asked.cmd = "SAY"
            /\ log' = Append(log, asked.text)
            /\ toClient' = Append(toClient, Message(log', Len(log'), FALSE))
            /\ UNCHANGED mishap
         \/ /\ asked.cmd = "LATEST"
            /\ toClient' = toClient \o Answer(PageBefore(Len(log) + 1))
            /\ UNCHANGED <<log, mishap>>
         \/ /\ asked.cmd = "BEFORE"
            /\ toClient' = toClient \o Answer(PageBefore(asked.at \div 2))
            /\ UNCHANGED <<log, mishap>>
         \/ /\ asked.cmd \in {"LATEST", "BEFORE"}
            /\ toClient' = Append(toClient, [cmd |-> "FAIL"])
            /\ mishap' = TRUE /\ UNCHANGED log
      /\ UNCHANGED <<link, buffer, history, batch, sent>>
  BY DEF Serves
<1>1. /\ toServer \in Seq(Asks) /\ log \in Seq({Other} \cup Texts) /\ Len(log) \in Nat
      /\ AskedTrue(toServer, log) /\ Whole
  BY DEF HistoryInv, TypeInv, HistoryTypeOK, WireInv
<1>2. asked \in Asks /\ asked = toServer[1] /\ 1 \in 1..Len(toServer)
  BY <1>0, <1>1, TailIs
<1> HIDE DEF asked
<1>3. CASE /\ asked.cmd = "SAY"
           /\ log' = Append(log, asked.text)
           /\ toClient' = Append(toClient, Message(log', Len(log'), FALSE))
           /\ UNCHANGED mishap
  <2>1. asked.text \in {Other} \cup Texts
    BY <1>2, <1>3 DEF Asks
  <2> QED BY <1>0, <1>3, <2>1, SaidKeeps DEF asked
<1>4. CASE /\ asked.cmd = "LATEST"
           /\ toClient' = toClient \o Answer(PageBefore(Len(log) + 1))
           /\ UNCHANGED <<log, mishap>>
  <2>1. Len(log) + 1 \in 1..(Len(log) + 1)
    BY <1>1
  <2> QED BY <1>0, <1>4, <2>1, PageServed DEF asked
<1>5. CASE /\ asked.cmd = "BEFORE"
           /\ toClient' = toClient \o Answer(PageBefore(asked.at \div 2))
           /\ UNCHANGED <<log, mishap>>
  <2>1. PICK p \in 1..Len(log) : asked.at = 2 * p
    BY <1>1, <1>2, <1>5 DEF AskedTrue
  <2>2. asked.at \div 2 = p /\ p \in 1..(Len(log) + 1)
    BY <1>1, <2>1
  <2>3. First => p \in Known
    <3> SUFFICES ASSUME First PROVE p \in Known
      OBVIOUS
    <3>1. PICK q \in Known : asked.at = 2 * q
      BY <1>1, <1>2, <1>5 DEF Whole
    <3>2. q \in 1..Len(log)
      BY DEF Known, KnownIn, ShownIn, ToldIn
    <3>3. q = p
      BY <1>1, <2>1, <3>1, <3>2
    <3> QED BY <3>3
  <2> QED BY <1>0, <1>5, <2>2, <2>3, PageServed DEF asked
<1>6. CASE /\ asked.cmd \in {"LATEST", "BEFORE"}
           /\ toClient' = Append(toClient, [cmd |-> "FAIL"])
           /\ mishap' = TRUE /\ UNCHANGED log
  BY <1>0, <1>6, RefusalKeeps DEF asked
<1> QED BY <1>0, <1>3, <1>4, <1>5, <1>6 DEF asked

\* Somebody else speaks.
LEMMA HearsKeeps ==
    ASSUME HistoryInv, Hears
    PROVE  HistoryInv'
<1>1. /\ log' = Append(log, Other)
      /\ toClient' = IF connected THEN Append(toClient, Message(log', Len(log'), FALSE)) ELSE toClient
      /\ UNCHANGED <<link, buffer, history, batch, sent, toServer, mishap>>
  BY DEF Hears
<1>2. /\ UNCHANGED <<link, buffer, history, batch, sent, mishap>>
      /\ toServer' = toServer /\ Other \in {Other} \cup Texts
  BY <1>1
<1> QED BY <1>1, <1>2, SaidKeeps

\* ... and every step keeps it.
LEMMA HistoryNextInv == HistoryInv /\ [HistoryNext]_historyVars => HistoryInv'
<1> SUFFICES ASSUME HistoryInv, [HistoryNext]_historyVars PROVE HistoryInv'
  OBVIOUS
<1>1. CASE Registers
  BY <1>1, RegistersKeeps
<1>2. CASE Loses \/ Stops
  BY <1>2, EndsKeeps
<1>3. CASE LoadsOlder
  BY <1>3, LoadsOlderKeeps
<1>4. ASSUME NEW t \in Texts, Says(t) PROVE HistoryInv'
  BY <1>4, SaysKeeps
<1>5. CASE ReadsMessage
  BY <1>5, ReadsMessageKeeps
<1>6. CASE OpensBatch
  BY <1>6, OpensBatchKeeps
<1>7. CASE ClosesBatch
  BY <1>7, ClosesBatchKeeps
<1>8. CASE ReadsFail
  BY <1>8, ReadsFailKeeps
<1>9. CASE Serves
  BY <1>9, ServesKeeps
<1>10. CASE Hears
  BY <1>10, HearsKeeps
<1>11. CASE UNCHANGED historyVars
  <2>1. /\ UNCHANGED <<connected, connection, buffer, historyPending, historyComplete, historyGap>>
        /\ UNCHANGED <<batch, sent, toServer, toClient, log, mishap>>
    BY <1>11 DEF historyVars, link, history, wire
  <2>2. TypeInv' /\ BufferInv' /\ WireInv'
    BY <2>1 DEF HistoryInv, TypeInv, HistoryTypeOK, BufferInv, WireInv
  <2>3. OursInv' /\ LinkInv' /\ InFlight'
    BY <2>1 DEF HistoryInv, OursInv, LinkInv, InFlight
  <2>4. First' = First /\ Known' = Known /\ FromStart' = FromStart
    BY <2>1 DEF First, Known, FromStart
  <2>5. Lengths' = Lengths
    BY <2>4 DEF Lengths
  <2>6. Bracketed' /\ Whole'
    BY <2>1, <2>4, <2>5 DEF HistoryInv, Bracketed, Whole
  <2> QED BY <2>2, <2>3, <2>6 DEF HistoryInv
<1> QED BY <1>1, <1>2, <1>3, <1>4, <1>5, <1>6, <1>7, <1>8, <1>9, <1>10, <1>11 DEF HistoryNext

\* So it always holds.
LEMMA HistoryAlways == HistorySpec => []HistoryInv
<1>1. HistoryInit => HistoryInv
  BY HistoryInitInv
<1>2. HistoryInv /\ [HistoryNext]_historyVars => HistoryInv'
  BY HistoryNextInv
<1> QED BY <1>1, <1>2, PTL DEF HistorySpec

----------------------------------------------------------------------------
(* What follows.                                                           *)

\* The elements of a sequence are what it has at its positions.
LEMMA ToSetIs ==
    ASSUME NEW S, NEW b \in Seq(S)
    PROVE  /\ \A e \in ToSet(b) : \E i \in 1..Len(b) : e = b[i]
           /\ \A i \in 1..Len(b) : b[i] \in ToSet(b)
           /\ DOMAIN b = 1..Len(b) /\ Len(b) \in Nat
BY DEF ToSet

\* Where no two entries are the same, there are as many as positions.
LEMMA NothingTwice ==
    ASSUME NEW b \in Seq(Entries), Keys(b)
    PROVE  Cardinality(ToSet(b)) = Len(b)
<1> DEFINE f == [i \in 1..Len(b) |-> b[i]]
<1>1. /\ \A e \in ToSet(b) : \E i \in 1..Len(b) : e = b[i]
      /\ \A i \in 1..Len(b) : b[i] \in ToSet(b)
      /\ Len(b) \in Nat
  BY ToSetIs
<1>2. \A i, j \in 1..Len(b) : b[i] = b[j] => i = j
  BY DEF Keys, Same
<1>3. f \in [1..Len(b) -> ToSet(b)]
  BY <1>1
<1>4. f \in Bijection(1..Len(b), ToSet(b))
  BY <1>1, <1>2, <1>3 DEF Bijection, Injection, Surjection, IsInjective
<1>5. ExistsBijection(1..Len(b), ToSet(b))
  BY <1>4 DEF ExistsBijection
<1>6. IsFiniteSet(1..Len(b)) /\ Cardinality(1..Len(b)) = Len(b)
  BY <1>1, UpToCard
<1> QED BY <1>5, <1>6, FS_Bijection

\* With nothing under way, what is known is what is shown.
LEMMA QuietKnows ==
    ASSUME HistoryInv, Quiet
    PROVE  /\ Known = Shown
           /\ ~Repeats /\ connection = 1 /\ Len(log) <= Limit => First
<1>1. /\ buffer \in Seq(Entries) /\ Len(log) \in Nat /\ connected /\ toServer = <<>> /\ toClient = <<>>
  BY DEF HistoryInv, TypeInv, HistoryTypeOK, Quiet
<1>2. Known = Shown
  <2>1. ToldIn(toClient, log) = {}
    BY <1>1 DEF ToldIn
  <2>2. ShownIn(buffer, log) = Shown
    <3>1. ASSUME NEW p
          PROVE  (\E i \in 1..Len(buffer) : buffer[i].at = 2 * p /\ ~buffer[i].pending)
                    <=> \E e \in ToSet(buffer) : e.at = 2 * p /\ ~e.pending
      BY <1>1, ToSetIs
    <3> QED BY <3>1 DEF ShownIn, Shown
  <2> QED BY <2>1, <2>2 DEF Known, KnownIn
<1>3. Units(log, toServer) = 1..Len(log)
  BY <1>1 DEF Units, SaysIn
<1>4. Cardinality(Units(log, toServer)) = Len(log)
  BY <1>1, <1>3, UpToCard
<1> QED BY <1>1, <1>2, <1>4 DEF First

\* With nothing under way, nothing is waited for.
LEMMA InvConfirmed == ~Repeats /\ HistoryInv => Confirmed
<1> SUFFICES ASSUME ~Repeats, HistoryInv, Quiet
             PROVE  /\ connection = 1 => \A e \in ToSet(buffer) : ~e.pending
                    /\ Cardinality(ToSet(buffer)) = Len(buffer)
  BY DEF Confirmed
<1>1. buffer \in Seq(Entries) /\ Keys(buffer) /\ OursInv
  BY DEF HistoryInv, TypeInv, HistoryTypeOK, BufferInv
<1>2. ASSUME connection = 1, NEW e \in ToSet(buffer) PROVE ~e.pending
  <2>1. AwaitedIn(buffer, toServer, toClient) /\ toServer = <<>> /\ toClient = <<>>
    BY <1>1, <1>2 DEF OursInv, Quiet
  <2>2. \A i \in 1..Len(buffer) : ~buffer[i].pending
    BY <2>1 DEF AwaitedIn
  <2> QED BY <1>1, <2>2, ToSetIs
<1> QED BY <1>1, <1>2, NothingTwice

\* ... and what is known without a hole is what is shown.
LEMMA InvShownIsWhole == ~Repeats /\ HistoryInv => ShownIsWhole
<1> SUFFICES ASSUME ~Repeats, HistoryInv PROVE ShownIsWhole
  OBVIOUS
<1>1. /\ HistoryTypeOK /\ BufferInv /\ OursInv /\ Whole
      /\ buffer \in Seq(Entries) /\ Len(log) \in Nat
  BY DEF HistoryInv, TypeInv, HistoryTypeOK
<1>2. InOrder
  <2> SUFFICES ASSUME sent = 0, NEW i \in 1..Len(buffer), NEW j \in 1..Len(buffer), i < j
               PROVE  buffer[i].at <= buffer[j].at
    BY DEF InOrder
  <2> QED BY <1>1 DEF BufferInv, Sorted
<1>3. DeliveredIsLogged
  <2>1. \A i \in 1..Len(buffer) : buffer[i].pending \/ buffer[i].at % 2 = 0
    BY <1>1 DEF OursInv, Delivered
  <2> QED BY <1>1, <2>1, ToSetIs DEF DeliveredIsLogged
<1>4. ASSUME Quiet, connection = 1, Len(log) <= Limit
      PROVE  /\ \A p \in Shown : p..Len(log) \subseteq Shown
             /\ historyComplete => log = <<>> \/ 1 \in Shown
  <2>1. First /\ Known = Shown
    BY <1>4, QuietKnows
  <2> QED BY <1>1, <2>1 DEF Whole, FromStart
<1>5. HolesAreFlagged /\ CompleteReachesStart
  BY <1>4 DEF HolesAreFlagged, CompleteReachesStart
<1> QED BY <1>1, <1>2, <1>3, <1>5 DEF ShownIsWhole

\* For any limit and page, a page that is waited for was asked for and is
\* still to come (InFlight), whatever is said, read and refused meanwhile.
THEOREM PageIsInFlight == HistorySpec => []InFlight
<1>1. HistoryInv => InFlight
  BY DEF HistoryInv
<1> QED BY <1>1, HistoryAlways, PTL

\* For any number of messages, and when no words are said again before their
\* echo is there: every line is confirmed once nothing is under way, and
\* nothing is shown twice (Confirmed).
THEOREM LinesAreConfirmed ==
    ASSUME ~Repeats
    PROVE  HistorySpec => []Confirmed
<1>1. HistoryInv => Confirmed
  BY InvConfirmed
<1> QED BY <1>1, HistoryAlways, PTL

\* For any limit, page and number of messages, and when no words are said
\* again before their echo is there: the buffer is within bounds and in order,
\* what it shows as said the server has logged, and on the first connection it
\* has no hole and goes back to the start where that is claimed (ShownIsWhole).
THEOREM HistoryIsWhole ==
    ASSUME ~Repeats
    PROVE  HistorySpec => []ShownIsWhole
<1>1. HistoryInv => ShownIsWhole
  BY InvShownIsWhole
<1> QED BY <1>1, HistoryAlways, PTL

==============================================================================
