-------------------------- MODULE Transfers_proofs --------------------------
(***************************************************************************)
(* Proofs about the rows of the file monitor and the transfers behind      *)
(* them, for any packs, names and transfers at a time, and files of any    *)
(* size.                                                                   *)
(*                                                                         *)
(* A row two things have not crossed each other for has one thing under    *)
(* way at most: a request in the queue, a question to the shell, a         *)
(* negotiation or a transfer, which is then the one its handle stops. Most *)
(* of what the rows tell follows from there.                               *)
(***************************************************************************)
EXTENDS Transfers, SequenceTheorems, WellFoundedInduction, TLAPS

----------------------------------------------------------------------------
(* Induction up to a bound, over sets.                                     *)

LEMMA LeastOf ==
    ASSUME NEW S, S \subseteq Nat, S # {}
    PROVE  \E n \in S : \A m \in S : n <= m
<1> DEFINE R == OpToRel(<, Nat)
<1>1. \E n \in S : \A m \in S : <<m, n>> \notin R
  <2>1. IsWellFoundedOn(R, Nat)
    BY NatLessThanWellFounded
  <2> HIDE DEF R
  <2> QED BY <2>1, WFMin
<1>2. \E n \in S : \A m \in S : n <= m
  <2>1. PICK n \in S : \A m \in S : <<m, n>> \notin R
    BY <1>1
  <2>2. \A m \in S : ~(m < n)
    BY <2>1 DEF OpToRel
  <2> QED BY <2>2
<1> QED BY <1>2

LEMMA UpTo ==
    ASSUME NEW n \in Nat, NEW G, 0 \in G, \A k \in 1..n : k - 1 \in G => k \in G
    PROVE  0..n \subseteq G
<1> SUFFICES ASSUME 0..n \ G # {} PROVE FALSE
  OBVIOUS
<1>0. 0..n \ G \subseteq Nat
  OBVIOUS
<1>1. PICK k \in 0..n \ G : \A m \in 0..n \ G : k <= m
  BY <1>0, LeastOf
<1>2. k \in 1..n /\ k - 1 \in 0..n /\ ~(k <= k - 1)
  BY <1>1
<1>3. k - 1 \in G
  BY <1>1, <1>2
<1> QED BY <1>1, <1>2, <1>3

LEMMA MaxIs ==
    ASSUME NEW n \in Nat, NEW d \in SUBSET (1..n), n \in d
    PROVE  Max(d) = n
<1>1. \A y \in d : n >= y
  OBVIOUS
<1>2. \A m \in d : (\A y \in d : m >= y) => m = n
  OBVIOUS
<1> QED BY <1>1, <1>2 DEF Max

LEMMA MaxIn ==
    ASSUME NEW n \in Nat, NEW d \in SUBSET (1..n), d # {}
    PROVE  Max(d) \in d
<1> DEFINE above == {k \in 0..n : \A y \in d : k >= y}
<1>1. n \in above /\ above \subseteq Nat
  OBVIOUS
<1>2. PICK m \in above : \A k \in above : m <= k
  <2> HIDE DEF above
  <2> QED BY <1>1, LeastOf
<1>3. m \in d
  <2> SUFFICES ASSUME m \notin d PROVE FALSE
    OBVIOUS
  <2>1. PICK y \in d : TRUE
    OBVIOUS
  <2>2. m >= 1
    BY <1>2, <2>1
  <2>3. \A z \in d : m - 1 >= z
    BY <1>2
  <2>4. m - 1 \in above
    BY <1>2, <2>2, <2>3
  <2> QED BY <1>2, <2>4
<1> QED BY <1>2, <1>3 DEF Max

----------------------------------------------------------------------------
(* What is left of a queue.                                                *)

Left(gone, rest, r) == IF r \in gone THEN rest ELSE Append(rest, r)

Unfolds(gone, s, g) ==
    g = [d \in SUBSET DOMAIN s |->
            IF d = {} THEN <<>> ELSE Left(gone, g[d \ {Max(d)}], s[Max(d)])]

\* The recursion there is in a fold has a solution.
LEMMA Unfoldable ==
    ASSUME NEW gone, NEW S, NEW s \in Seq(S)
    PROVE  \E g : Unfolds(gone, s, g)
<1> DEFINE Upto(k, g) == g = [d \in SUBSET (1..k) |->
                                IF d = {} THEN <<>> ELSE Left(gone, g[d \ {Max(d)}], s[Max(d)])]
           G == {k \in 0..Len(s) : \E g : Upto(k, g)}
<1>1. 0 \in G
  <2> DEFINE g == [d \in SUBSET (1..0) |-> <<>>]
  <2>1. \A d \in SUBSET (1..0) : d = {}
    OBVIOUS
  <2>2. g = [d \in SUBSET (1..0) |->
                                IF d = {} THEN <<>> ELSE Left(gone, g[d \ {Max(d)}], s[Max(d)])]
    BY <2>1
  <2> QED BY <2>2
<1>2. ASSUME NEW k \in 1..Len(s), k - 1 \in G PROVE k \in G
  <2>1. PICK g : Upto(k - 1, g)
    BY <1>2
  <2> DEFINE h == [d \in SUBSET (1..k) |-> IF k \in d THEN Left(gone, g[d \ {k}], s[k]) ELSE g[d]]
  <2> HIDE DEF Upto
  <2>2. ASSUME NEW d \in SUBSET (1..k)
        PROVE  h[d] = IF d = {} THEN <<>> ELSE Left(gone, h[d \ {Max(d)}], s[Max(d)])
    <3>1. CASE k \in d
      <4>1. Max(d) = k
        BY <3>1, MaxIs
      <4>2. d \ {k} \in SUBSET (1..(k - 1)) /\ d \ {k} \in SUBSET (1..k)
        OBVIOUS
      <4>3. h[d \ {k}] = g[d \ {k}]
        BY <4>2
      <4> QED BY <3>1, <4>1, <4>3
    <3>2. CASE k \notin d
      <4>1. d \in SUBSET (1..(k - 1))
        BY <3>2
      <4>2. h[d] = g[d]
        BY <3>2
      <4>3. g[d] = IF d = {} THEN <<>> ELSE Left(gone, g[d \ {Max(d)}], s[Max(d)])
        BY <2>1, <4>1 DEF Upto
      <4>4. CASE d = {}
        BY <4>2, <4>3, <4>4
      <4>5. CASE d # {}
        <5>1. d \ {Max(d)} \in SUBSET (1..k) /\ k \notin d \ {Max(d)}
          BY <3>2
        <5>2. h[d \ {Max(d)}] = g[d \ {Max(d)}]
          BY <5>1
        <5> QED BY <4>2, <4>3, <4>5, <5>2
      <4> QED BY <4>4, <4>5
    <3> QED BY <3>1, <3>2
  <2>3. Upto(k, h)
    <3>1. h = [d \in SUBSET (1..k) |-> h[d]]
      OBVIOUS
    <3> HIDE DEF h
    <3>2. h = [d \in SUBSET (1..k) |->
                                IF d = {} THEN <<>> ELSE Left(gone, h[d \ {Max(d)}], s[Max(d)])]
      BY <2>2, <3>1
    <3> QED BY <3>2 DEF Upto
  <2> QED BY <1>2, <2>3
<1>3. Len(s) \in G
  <2>1. Len(s) \in Nat
    OBVIOUS
  <2> HIDE DEF G
  <2>2. 0..Len(s) \subseteq G
    BY <1>1, <1>2, <2>1, UpTo
  <2> QED BY <2>1, <2>2
<1>4. PICK g : Upto(Len(s), g)
  BY <1>3
<1>5. DOMAIN s = 1..Len(s)
  OBVIOUS
<1>6. Unfolds(gone, s, g)
  BY <1>4, <1>5 DEF Unfolds
<1> QED BY <1>6

\* What is left is found one after another.
LEMMA LeftSteps ==
    ASSUME NEW gone, NEW S, queue \in Seq(S)
    PROVE  \E f : /\ f = [k \in 0..Len(queue) |-> f[k]]
                  /\ f[0] = <<>> /\ f[Len(queue)] = Unqueued(gone)
                  /\ \A k \in 1..Len(queue) : f[k] = Left(gone, f[k - 1], queue[k])
<1> DEFINE g == CHOOSE g : Unfolds(gone, queue, g)
<1>1. Unqueued(gone) = g[DOMAIN queue]
  BY DEF Unqueued, Left, FoldLeft, MapThenFoldSet, Unfolds
<1>2. Unfolds(gone, queue, g)
  BY Unfoldable
<1> HIDE DEF g
<1> DEFINE f == [k \in 0..Len(queue) |-> g[1..k]]
<1>3. f[0] = <<>>
  <2>1. 1..0 = {} /\ f[0] = g[{}]
    OBVIOUS
  <2> HIDE DEF f
  <2> QED BY <1>2, <2>1 DEF Unfolds
<1>4. f[Len(queue)] = Unqueued(gone)
  BY <1>1
<1>5. ASSUME NEW k \in 1..Len(queue) PROVE f[k] = Left(gone, f[k - 1], queue[k])
  <2>0. DOMAIN queue = 1..Len(queue) /\ Len(queue) \in Nat
    OBVIOUS
  <2>1. 1..k \in SUBSET DOMAIN queue /\ 1..k # {} /\ k \in 1..k
    <3> HIDE DEF f
    <3>1. k \in Nat /\ k >= 1 /\ k <= Len(queue)
      BY <2>0
    <3>2. k \in 1..k /\ \A j \in 1..k : j \in 1..Len(queue)
      BY <2>0, <3>1
    <3> QED BY <2>0, <3>2
  <2>2. Max(1..k) = k
    BY <2>1, MaxIs
  <2>3. g[1..k] = Left(gone, g[(1..k) \ {k}], queue[k])
    BY <1>2, <2>1, <2>2 DEF Unfolds
  <2>4. (1..k) \ {k} = 1..(k - 1)
    OBVIOUS
  <2> QED BY <2>3, <2>4
<1>6. f = [k \in 0..Len(queue) |-> f[k]]
  OBVIOUS
<1> HIDE DEF f
<1> QED BY <1>3, <1>4, <1>5, <1>6

\* What goes is gone and the rest is from before.
LEMMA UnqueuedIs ==
    ASSUME NEW gone, queue \in Seq(Packs)
    PROVE  Unqueued(gone) \in Seq(Packs) /\ ToSet(Unqueued(gone)) = ToSet(queue) \ gone
<1> DEFINE Keeps(w, k) ==
              /\ w \in Seq(Packs)
              /\ \A i \in 1..Len(w) : w[i] \notin gone /\ \E j \in 1..k : queue[j] = w[i]
              /\ \A j \in 1..k : queue[j] \in gone \/ \E i \in 1..Len(w) : w[i] = queue[j]
<1>0. Len(queue) \in Nat /\ DOMAIN queue = 1..Len(queue)
  OBVIOUS
<1>1. PICK f : /\ f[0] = <<>> /\ f[Len(queue)] = Unqueued(gone)
               /\ \A k \in 1..Len(queue) : f[k] = Left(gone, f[k - 1], queue[k])
  BY LeftSteps
<1> DEFINE G == {k \in 0..Len(queue) : Keeps(f[k], k)}
<1>2. Keeps(<<>>, 0)
  <2>1. <<>> \in Seq(Packs) /\ 1..Len(<<>>) = {} /\ 1..0 = {}
    OBVIOUS
  <2> QED BY <2>1
<1>3. ASSUME NEW k \in 1..Len(queue), NEW w, Keeps(w, k - 1)
      PROVE  Keeps(Left(gone, w, queue[k]), k)
  <2>0. w \in Seq(Packs) /\ Len(w) \in Nat /\ queue[k] \in Packs /\ k \in Nat
    BY <1>3
  <2>1. CASE queue[k] \in gone
    <3>1. Left(gone, w, queue[k]) = w
      BY <2>1 DEF Left
    <3>2. \A j \in 1..k : j = k \/ j \in 1..(k - 1)
      OBVIOUS
    <3>3. \A j \in 1..(k - 1) : j \in 1..k
      OBVIOUS
    <3>4. Keeps(w, k)
      BY <1>3, <2>1, <3>2, <3>3
    <3> HIDE DEF Keeps
    <3> QED BY <3>1, <3>4
  <2>2. CASE queue[k] \notin gone
    <3> DEFINE u == Append(w, queue[k])
    <3>1. Left(gone, w, queue[k]) = u
      BY <2>2 DEF Left
    <3>2. /\ u \in Seq(Packs) /\ Len(u) = Len(w) + 1 /\ u[Len(w) + 1] = queue[k]
          /\ \A i \in 1..Len(w) : u[i] = w[i]
      BY <2>0
    <3>3. \A j \in 1..k : j = k \/ j \in 1..(k - 1)
      OBVIOUS
    <3>4. (\A j \in 1..(k - 1) : j \in 1..k) /\ k \in 1..k
      BY <2>0
    <3>5. \A i \in 1..Len(u) : i \in 1..Len(w) \/ i = Len(w) + 1
      BY <2>0, <3>2
    <3>6. (\A i \in 1..Len(w) : i \in 1..Len(u)) /\ Len(w) + 1 \in 1..Len(u)
      BY <2>0, <3>2
    <3> HIDE DEF u
    <3>7. \A i \in 1..Len(u) : u[i] \notin gone /\ \E j \in 1..k : queue[j] = u[i]
      BY <1>3, <2>2, <3>2, <3>4, <3>5
    <3>8. \A j \in 1..k : queue[j] \in gone \/ \E i \in 1..Len(u) : u[i] = queue[j]
      BY <1>3, <3>2, <3>3, <3>6
    <3>9. Keeps(u, k)
      BY <3>2, <3>7, <3>8
    <3> HIDE DEF Keeps
    <3> QED BY <3>1, <3>9
  <2> QED BY <2>1, <2>2
<1> HIDE DEF Keeps
<1>4. Len(queue) \in G
  <2>1. 0 \in G
    BY <1>0, <1>1, <1>2
  <2>2. ASSUME NEW k \in 1..Len(queue), k - 1 \in G PROVE k \in G
    BY <1>1, <1>3, <2>2
  <2> HIDE DEF G
  <2>3. 0..Len(queue) \subseteq G
    BY <1>0, <2>1, <2>2, UpTo
  <2> QED BY <1>0, <2>3
<1> DEFINE w == Unqueued(gone)
<1>5. Keeps(w, Len(queue))
  BY <1>1, <1>4
<1> HIDE DEF w
<1>6. w \in Seq(Packs) /\ DOMAIN w = 1..Len(w)
  BY <1>5 DEF Keeps
<1>7. ToSet(w) = ToSet(queue) \ gone
  BY <1>0, <1>5, <1>6 DEF Keeps, ToSet
<1> QED BY <1>6, <1>7 DEF w

----------------------------------------------------------------------------
(* The invariant.                                                          *)

Phases ==
    {"invoked", "listening", "waiting", "streaming", "acking", "saved", "failed", "stopped"}

AttemptRec ==
    [phase : Phases, row : Rows, name : Rows, from : 0..Size, sends : 0..Size, got : 0..Size,
     told : BOOLEAN, news : BOOLEAN, fallback : BOOLEAN, passive : BOOLEAN]

Tries == AttemptRec \cup {NoAttempt}

Statuses == {"absent", "available", "requested", "downloading", "downloaded", "failed"}

RowRec == [status : Statuses, name : Rows \cup {None}, awaiting : BOOLEAN, tried : BOOLEAN,
           address : {"offered", "none", "late"}]

Plans == [row : Rows, name : Rows, passive : BOOLEAN]

TypeScreen ==
    /\ rows \in [Rows -> RowRec] /\ handle \in [Rows -> Attempts \cup {None}]
    /\ cancelled \subseteq Rows

TypePending ==
    /\ queue \in Seq(Packs) /\ watchdogs \subseteq Rows
    /\ asking \in Seq(Plans) /\ Len(asking) <= Asks
    /\ resumes \subseteq Plans /\ \A e, f \in resumes : e.name = f.name => e = f

TypeBot ==
    /\ queued \subseteq Packs /\ holds \in Packs \cup {None}
    /\ offers \subseteq Names /\ accepts \subseteq Rows /\ agreed \in [Rows -> 0..Size]

\* The rows that may be fetched without the user.
Granted == invited \cup misread

TypeGhosts == Granted \subseteq Rows /\ crossed \subseteq Rows /\ acts \in 0..Acts

Typed == NativeTypeOK /\ TypeScreen /\ TypePending /\ TypeBot /\ TypeGhosts

\* A network that was removed has no rows.
Gone == ~network => crossed = Rows /\ \A r \in Rows : ~Listed(r)

\* A row has a name while it is listed, and the row of a direct offer the one
\* it is named after, as has what is under way for it.
NamesKept ==
    /\ \A r \in Rows : rows[r].name = None <=> ~Listed(r)
    /\ \A r \in Names : Listed(r) => rows[r].name = r
    /\ \A i \in DOMAIN asking : asking[i].row \in Names => asking[i].name = asking[i].row
    /\ \A e \in resumes : e.row \in Names => e.name = e.row
    /\ \A a \in Attempts :
          Under(a) /\ attempts[a].row \in Names => attempts[a].name = attempts[a].row

\* A handle is of a transfer of its row.
Handles == \A r \in Rows : handle[r] # None => Under(handle[r]) /\ attempts[handle[r]].row = r

\* One thing at a time.
Single(r) ==
    /\ \A i, j \in DOMAIN asking : asking[i].row = r /\ asking[j].row = r => i = j
    /\ \A e, f \in resumes : e.row = r /\ f.row = r => e = f
    /\ ~(AskingFor(r) /\ Negotiating(r))
    /\ \A a \in Attempts : Under(a) /\ attempts[a].row = r =>
          ~AskingFor(r) /\ ~Negotiating(r) /\ handle[r] = a
    /\ r \in ToSet(queue) => ~Busy(r)
    /\ AskingFor(r) \/ Negotiating(r) => Listed(r)

\* A transfer is seen unless it was stopped, and was told so.
Seen(r) ==
    /\ InFlight(r) => handle[r] # None
    /\ \A a \in Attempts : Under(a) /\ attempts[a].row = r =>
          /\ r \notin cancelled <=> InFlight(r)
          /\ attempts[a].told => r \in cancelled
          /\ Running(a) /\ r \in cancelled => attempts[a].told

\* What is under way, or may be again without the user, was asked for.
Wanted(r) ==
    \/ r \in Granted
    \/ /\ rows[r].status \notin {"requested", "downloading", "failed"}
       /\ ~AskingFor(r) /\ ~Negotiating(r) /\ r \notin ToSet(queue)

Uncrossed == \A r \in Rows \ crossed : Single(r) /\ Seen(r) /\ Wanted(r)

\* The part-file of a name nothing was mixed up for is as long as what its
\* transfer has got, and all of it is right.
Whole(n) ==
    /\ part[n].right /\ n \notin spoiled
    /\ \A a \in Attempts : Under(a) /\ attempts[a].name = n =>
          /\ attempts[a].sends = attempts[a].from
          /\ Phase(a) \in {"invoked", "listening", "waiting"} => attempts[a].got = attempts[a].from
          /\ Streaming(a) => part[n].len = attempts[a].got
          /\ \A b \in Attempts : Streaming(a) /\ Streaming(b) /\ attempts[b].name = n => a = b

Unmixed == \A n \in Rows \ mixed : Whole(n)

Inv ==
    /\ Typed /\ Gone /\ NamesKept /\ Handles /\ Uncrossed /\ Unmixed
    /\ RequestedIsWatched /\ QueueIsListed

----------------------------------------------------------------------------
(* Transfers and rows.                                                     *)

Early == {"invoked", "listening", "waiting"}

LEMMA TypesAre == Typed <=> TypeOK
BY DEF Typed, TypeOK, TypeScreen, TypePending, TypeBot, TypeGhosts, Granted, RowRec, Statuses, Plans

LEMMA NoneIs == None \notin Rows /\ None \notin Attempts /\ None = "none" /\ Size \in Nat \ {0}
BY TransfersAssumption, DownloadAssumption DEF None

LEMMA AttemptIs ==
    /\ NoAttempt.phase = None
    /\ \A t \in AttemptRec :
          /\ t.phase \in Phases /\ t.phase # None /\ t # NoAttempt
          /\ t.row \in Rows /\ t.name \in Rows
          /\ t.from \in 0..Size /\ t.sends \in 0..Size /\ t.got \in 0..Size
          /\ t.told \in BOOLEAN /\ t.news \in BOOLEAN
          /\ t.fallback \in BOOLEAN /\ t.passive \in BOOLEAN
<1>1. NoAttempt.phase = None
  BY DEF NoAttempt
<1>2. \A t \in AttemptRec : t.phase \in Phases /\ t.phase # None
  BY DEF AttemptRec, Phases, None
<1>3. \A t \in AttemptRec : t # NoAttempt
  BY <1>1, <1>2
<1> QED BY <1>1, <1>2, <1>3 DEF AttemptRec

LEMMA NativeIs ==
    NativeTypeOK <=> /\ attempts \in [Attempts -> Tries]
                     /\ part \in [Rows -> [len : 0..Size, right : BOOLEAN]]
                     /\ spoiled \subseteq Rows /\ mixed \subseteq Rows
<1>1. Tries = {NoAttempt} \cup AttemptRec
  BY DEF Tries
<1> QED BY <1>1 DEF NativeTypeOK, AttemptRec, Phases

LEMMA UnderIs ==
    ASSUME NativeTypeOK
    PROVE  \A a \in Attempts :
              /\ Under(a) => attempts[a] \in AttemptRec
              /\ ~Under(a) => attempts[a] = NoAttempt /\ Phase(a) = None
              /\ Under(a) <=> Phase(a) # None
              /\ Running(a) => Under(a) /\ Phase(a) \in Early \cup {"streaming", "acking"}
              /\ Streaming(a) => Under(a)
BY AttemptIs, NativeIs, NoneIs DEF Under, Phase, Running, Streaming, Early, Tries

LEMMA RowIs ==
    \A q \in RowRec :
       /\ q.status \in Statuses /\ q.name \in Rows \cup {None}
       /\ q.awaiting \in BOOLEAN /\ q.tried \in BOOLEAN /\ q.address \in {"offered", "none", "late"}
BY DEF RowRec

LEMMA AbsentIs ==
    /\ Absent \in RowRec /\ Absent.status = "absent" /\ Absent.name = None
    /\ ~Absent.awaiting /\ ~Absent.tried
BY DEF Absent, RowRec, Statuses

\* One row gets a status.
LEMMA PatchedIs ==
    ASSUME rows \in [Rows -> RowRec], NEW r \in Rows, NEW status \in Statuses
    PROVE  /\ Patched(r, status) \in [Rows -> RowRec]
           /\ \A q \in Rows \ {r} : Patched(r, status)[q] = rows[q]
           /\ Listed(r) => Patched(r, status)[r].status = status
           /\ ~Listed(r) => Patched(r, status)[r] = rows[r]
           /\ Patched(r, status)[r].name = rows[r].name
<1>1. CASE ~Listed(r)
  BY <1>1 DEF Patched
<1>2. CASE Listed(r)
  <2> DEFINE row == [[rows[r] EXCEPT !.status = status] EXCEPT !.awaiting = FALSE]
  <2>1. row \in RowRec /\ row.status = status /\ row.name = rows[r].name
    BY DEF RowRec
  <2>2. Patched(r, status) = [rows EXCEPT ![r] = row]
    BY <1>2 DEF Patched
  <2> HIDE DEF row
  <2> QED BY <1>2, <2>1, <2>2
<1> QED BY <1>1, <1>2

----------------------------------------------------------------------------
(* What a transfer does.                                                   *)

\* Transfer a goes on as s.
Goes(a, s) ==
    /\ attempts[a] \in AttemptRec /\ s \in AttemptRec
    /\ attempts' = [attempts EXCEPT ![a] = s]
    /\ s.row = attempts[a].row /\ s.name = attempts[a].name
    /\ s.from = attempts[a].from /\ s.sends = attempts[a].sends

LEMMA GoesIs ==
    ASSUME attempts \in [Attempts -> Tries], NEW a \in Attempts, NEW s, Goes(a, s)
    PROVE  /\ attempts' \in [Attempts -> Tries]
           /\ attempts'[a] = s /\ \A b \in Attempts \ {a} : attempts'[b] = attempts[b]
           /\ \A b \in Attempts : Under(b)' <=> Under(b)
           /\ \A b \in Attempts : Under(b) => attempts'[b].row = attempts[b].row
                                              /\ attempts'[b].name = attempts[b].name
BY AttemptIs DEF Goes, Under, Tries

\* Only its phase changes.
LEMMA MovesIs ==
    ASSUME NativeTypeOK, NEW a \in Attempts, Under(a), NEW phase \in Phases, Moves(a, phase)
    PROVE  \E s : /\ Goes(a, s) /\ s.phase = phase /\ s.got = attempts[a].got
                  /\ s.told = attempts[a].told
<1> DEFINE s == [attempts[a] EXCEPT !.phase = phase]
<1>1. attempts[a] \in AttemptRec
  BY UnderIs
<1>2. s \in AttemptRec /\ s.phase = phase /\ s.got = attempts[a].got /\ s.told = attempts[a].told
      /\ s.row = attempts[a].row /\ s.name = attempts[a].name
      /\ s.from = attempts[a].from /\ s.sends = attempts[a].sends
  BY <1>1 DEF AttemptRec
<1>3. attempts' = [attempts EXCEPT ![a] = s]
  BY DEF Moves
<1> HIDE DEF s
<1> QED BY <1>1, <1>2, <1>3 DEF Goes

\* A transfer that is told to stop, if it can be.
LEMMA ToldIs ==
    ASSUME NativeTypeOK, NEW a \in Attempts, Under(a), attempts' = Told(a)
    PROVE  \E s : /\ Goes(a, s) /\ s.phase = Phase(a) /\ s.got = attempts[a].got
                  /\ Running(a) /\ Phase(a) # "invoked" => s.told
                  /\ ~(Running(a) /\ Phase(a) # "invoked") => s.told = attempts[a].told
<1>1. attempts[a] \in AttemptRec
  BY UnderIs
<1>2. CASE Running(a) /\ Phase(a) # "invoked"
  <2> DEFINE s == [attempts[a] EXCEPT !.told = TRUE]
  <2>1. s \in AttemptRec /\ s.told /\ s.got = attempts[a].got /\ s.phase = Phase(a)
        /\ s.row = attempts[a].row /\ s.name = attempts[a].name
        /\ s.from = attempts[a].from /\ s.sends = attempts[a].sends
    BY <1>1 DEF AttemptRec, Phase
  <2>2. attempts' = [attempts EXCEPT ![a] = s]
    BY <1>2 DEF Told
  <2> HIDE DEF s
  <2> QED BY <1>1, <1>2, <2>1, <2>2 DEF Goes
<1>3. CASE ~(Running(a) /\ Phase(a) # "invoked")
  <2>1. attempts' = [attempts EXCEPT ![a] = attempts[a]]
    BY <1>3, NativeIs DEF Told
  <2> QED BY <1>1, <1>3, <2>1 DEF Goes, Phase
<1> QED BY <1>2, <1>3

\* The bytes are where they were, and nothing begins to stream.
LEMMA GoesWhole ==
    ASSUME NativeTypeOK, Unmixed, NEW a \in Attempts, NEW s, Goes(a, s), s.got = attempts[a].got,
           s.phase \in {"streaming", "acking"} => Streaming(a),
           s.phase \in Early => Phase(a) \in Early,
           UNCHANGED <<part, spoiled, mixed>>
    PROVE  NativeTypeOK' /\ Unmixed'
<1>1. attempts' \in [Attempts -> Tries] /\ attempts'[a] = s
      /\ \A b \in Attempts \ {a} : attempts'[b] = attempts[b]
  BY GoesIs, NativeIs
<1>2. NativeTypeOK'
  BY <1>1, NativeIs DEF NativeTypeOK, Tries, AttemptRec, Phases
<1>3. \A b \in Attempts : Under(b)' <=> Under(b)
  BY GoesIs, NativeIs
<1>4. ASSUME NEW n \in Rows \ mixed' PROVE Whole(n)'
  <2>1. Whole(n)
    BY DEF Unmixed
  <2>2. \A b \in Attempts : b # a => Phase(b)' = Phase(b)
    BY <1>1 DEF Phase
  <2>3. Phase(a)' = s.phase
    BY <1>1 DEF Phase
  <2>4. ASSUME NEW b \in Attempts, Under(b)', attempts'[b].name = n
        PROVE  /\ attempts'[b].sends = attempts'[b].from
               /\ Phase(b)' \in Early => attempts'[b].got = attempts'[b].from
               /\ Streaming(b)' => part'[n].len = attempts'[b].got
               /\ Streaming(b)' => Streaming(b)
               /\ Under(b) /\ attempts[b].name = n
    BY <1>1, <1>3, <2>1, <2>2, <2>3, <2>4 DEF Whole, Goes, Early, Streaming
  <2>5. \A b, c \in Attempts :
           Under(b)' /\ attempts'[b].name = n /\ Streaming(b)' /\ Streaming(c)'
              /\ attempts'[c].name = n => b = c
    <3>1. \A c \in Attempts : Streaming(c)' /\ attempts'[c].name = n => Under(c)'
      BY <1>1, AttemptIs DEF Phase, Streaming, Under, None, Tries
    <3> QED BY <2>1, <2>4, <3>1 DEF Whole
  <2> QED BY <2>1, <2>4, <2>5 DEF Whole, Early
<1> QED BY <1>2, <1>4 DEF Unmixed

\* It goes on, and is stopped no more than it was.
GoesOn(a) ==
    \E s : /\ Goes(a, s) /\ s.told = attempts[a].told
           /\ Running(a)

LEMMA ConnectsWhole ==
    ASSUME NativeTypeOK, Unmixed, NEW a \in Attempts, Connects(a)
    PROVE  NativeTypeOK' /\ Unmixed' /\ GoesOn(a)
<1> DEFINE n == attempts[a].name
           from == attempts[a].from
           s == [[attempts[a] EXCEPT !.phase = "streaming"] EXCEPT !.news = TRUE]
           file == [len |-> from, right |-> from = 0 \/ (part[n].right /\ from <= part[n].len)]
<1>1. Phase(a) = "waiting" /\ Under(a) /\ attempts[a] \in AttemptRec
  BY UnderIs DEF Connects, None
<1>2. /\ s \in AttemptRec /\ s.phase = "streaming" /\ s.got = attempts[a].got /\ s.told = attempts[a].told
      /\ s.row = attempts[a].row /\ s.name = attempts[a].name
      /\ s.from = attempts[a].from /\ s.sends = attempts[a].sends
  BY <1>1 DEF AttemptRec, Phases
<1>3. attempts' = [attempts EXCEPT ![a] = s] /\ part' = [part EXCEPT ![n] = file] /\ spoiled' = spoiled
  BY DEF Connects
<1>4. /\ mixed' \in {mixed, mixed \cup {n}}
      /\ n \notin mixed' =>
            /\ from <= part[n].len
            /\ \A b \in Attempts \ {a} : ~(Streaming(b) /\ attempts[b].name = n)
  <2>1. from \in Nat /\ part[n].len \in Nat
    BY <1>1, AttemptIs, NativeIs, NoneIs
  <2> QED BY <2>1 DEF Connects
<1>5. n \in Rows /\ from \in 0..Size /\ file \in [len : 0..Size, right : BOOLEAN]
  BY <1>1, AttemptIs, NativeIs
<1>6. Goes(a, s)
  BY <1>1, <1>2, <1>3 DEF Goes
<1>7. file.len = from /\ (part[n].right /\ from <= part[n].len => file.right)
  OBVIOUS
<1> HIDE DEF s, file
<1>8. attempts' \in [Attempts -> Tries] /\ attempts'[a] = s
      /\ \A b \in Attempts \ {a} : attempts'[b] = attempts[b]
  BY <1>6, GoesIs, NativeIs
<1>9. NativeTypeOK'
  BY <1>3, <1>4, <1>5, <1>8, NativeIs DEF NativeTypeOK, Tries, AttemptRec, Phases
<1>10. ASSUME NEW m \in Rows \ mixed' PROVE Whole(m)'
  <2>1. m \notin mixed /\ Whole(m)
    BY <1>4 DEF Unmixed
  <2>2. \A b \in Attempts \ {a} :
           Phase(b)' = Phase(b) /\ (Under(b)' <=> Under(b)) /\ (Streaming(b)' <=> Streaming(b))
    BY <1>8 DEF Phase, Under, Streaming
  <2>3. Phase(a)' = "streaming" /\ Under(a)'
    BY <1>2, <1>8, AttemptIs DEF Phase, Under
  <2>4. CASE m = n
    <3>1. part'[m] = file /\ file.right
      BY <1>3, <1>4, <1>5, <1>7, <2>1, <2>4, NativeIs DEF Whole
    <3>2. attempts[a].sends = from /\ attempts[a].got = from
      BY <1>1, <2>1, <2>4 DEF Whole
    <3>3. \A b \in Attempts \ {a} : ~(Streaming(b)' /\ attempts'[b].name = m)
      BY <1>4, <1>8, <2>2, <2>4
    <3>4. s.sends = s.from /\ s.got = s.from /\ file.len = s.got
      BY <1>2, <1>7, <3>2
    <3>5. /\ \A b \in Attempts : Under(b)' /\ attempts'[b].name = m =>
                /\ attempts'[b].sends = attempts'[b].from
                /\ Phase(b)' \in {"invoked", "listening", "waiting"} => attempts'[b].got = attempts'[b].from
      BY <1>8, <2>1, <2>2, <2>3, <3>4 DEF Whole
    <3>6. \A b \in Attempts : Streaming(b)' /\ attempts'[b].name = m => b = a
      BY <3>3
    <3>7. \A b \in Attempts : Streaming(b)' /\ attempts'[b].name = m =>
                part'[m].len = attempts'[b].got
      BY <1>8, <3>1, <3>4, <3>6
    <3>8. m \notin spoiled'
      BY <1>3, <2>1 DEF Whole
    <3> QED BY <3>1, <3>5, <3>6, <3>7, <3>8 DEF Whole
  <2>5. CASE m # n
    <3>1. part'[m] = part[m] /\ attempts'[a].name # m
      BY <1>2, <1>3, <1>8, <2>5, NativeIs
    <3> QED BY <1>3, <1>8, <2>1, <2>2, <3>1 DEF Whole
  <2> QED BY <2>4, <2>5
<1>11. GoesOn(a)
  BY <1>1, <1>2, <1>6 DEF GoesOn, Running
<1> QED BY <1>9, <1>10, <1>11 DEF Unmixed

LEMMA ReceivesWhole ==
    ASSUME NativeTypeOK, Unmixed, NEW a \in Attempts, Receives(a)
    PROVE  NativeTypeOK' /\ Unmixed' /\ GoesOn(a)
<1> DEFINE n == attempts[a].name
           Some(blocks) ==
              [[[attempts[a] EXCEPT !.phase = IF blocks THEN "acking" ELSE "streaming"]
                            EXCEPT !.got = attempts[a].got + 1]
                            EXCEPT !.news = attempts[a].news \/ ~blocks]
           file == [len |-> IF part[n].len > attempts[a].got THEN part[n].len ELSE attempts[a].got + 1,
                    right |-> /\ part[n].right /\ attempts[a].sends = attempts[a].from
                              /\ attempts[a].got <= part[n].len]
<1>1. Phase(a) = "streaming" /\ Under(a) /\ attempts[a] \in AttemptRec /\ attempts[a].got < Size
  BY UnderIs DEF Receives, None
<1>2. attempts[a].got \in 0..Size /\ attempts[a].got + 1 \in 0..Size /\ n \in Rows
  BY <1>1, AttemptIs, NoneIs
<1>b. PICK blocks \in BOOLEAN : attempts' = [attempts EXCEPT ![a] = Some(blocks)]
  BY DEF Receives
<1> DEFINE s == Some(blocks)
<1>3. /\ s \in AttemptRec /\ s.phase \in {"streaming", "acking"} /\ s.got = attempts[a].got + 1
      /\ s.told = attempts[a].told
      /\ s.row = attempts[a].row /\ s.name = attempts[a].name
      /\ s.from = attempts[a].from /\ s.sends = attempts[a].sends
  BY <1>1, <1>2 DEF AttemptRec, Phases
<1>4. attempts' = [attempts EXCEPT ![a] = s] /\ part' = [part EXCEPT ![n] = file]
      /\ spoiled' = spoiled /\ mixed' = mixed
  BY <1>b DEF Receives
<1>5. part[n].len \in 0..Size /\ part[n].right \in BOOLEAN
  BY <1>2, NativeIs
<1>6. file \in [len : 0..Size, right : BOOLEAN]
  BY <1>2, <1>5
<1>7. part[n].right /\ attempts[a].sends = attempts[a].from /\ part[n].len = attempts[a].got
        => file.right /\ file.len = attempts[a].got + 1
  BY <1>2, NoneIs
<1> HIDE DEF s, Some
<1>8. Goes(a, s)
  BY <1>1, <1>3, <1>4 DEF Goes
<1> HIDE DEF file
<1>9. attempts' \in [Attempts -> Tries] /\ attempts'[a] = s
      /\ \A b \in Attempts \ {a} : attempts'[b] = attempts[b]
  BY <1>8, GoesIs, NativeIs
<1>10. NativeTypeOK'
  BY <1>2, <1>4, <1>6, <1>9, NativeIs DEF NativeTypeOK, Tries, AttemptRec, Phases
<1>11. ASSUME NEW m \in Rows \ mixed' PROVE Whole(m)'
  <2>1. Whole(m)
    BY <1>4 DEF Unmixed
  <2>2. \A b \in Attempts \ {a} :
           Phase(b)' = Phase(b) /\ (Under(b)' <=> Under(b)) /\ (Streaming(b)' <=> Streaming(b))
    BY <1>9 DEF Phase, Under, Streaming
  <2>3. Phase(a)' \in {"streaming", "acking"} /\ Under(a)'
    BY <1>3, <1>9, AttemptIs DEF Phase, Under
  <2>4. CASE m = n
    <3>1. /\ attempts[a].sends = attempts[a].from /\ part[n].len = attempts[a].got /\ part[n].right
          /\ \A b \in Attempts : Streaming(b) /\ attempts[b].name = m => a = b
      BY <1>1, <2>1, <2>4 DEF Whole, Streaming
    <3>2. part'[m] = file /\ file.right /\ file.len = s.got
      BY <1>2, <1>3, <1>4, <1>7, <2>4, <3>1, NativeIs
    <3>3. \A b \in Attempts : Streaming(b)' /\ attempts'[b].name = m => b = a
      BY <1>9, <2>2, <3>1
    <3>4. \A b \in Attempts : Under(b)' /\ attempts'[b].name = m =>
                /\ attempts'[b].sends = attempts'[b].from
                /\ Phase(b)' \in {"invoked", "listening", "waiting"} => attempts'[b].got = attempts'[b].from
      BY <1>3, <1>9, <2>1, <2>2, <2>3, <3>1 DEF Whole
    <3>5. \A b \in Attempts : Streaming(b)' /\ attempts'[b].name = m =>
                part'[m].len = attempts'[b].got
      BY <1>9, <3>2, <3>3
    <3>6. m \notin spoiled'
      BY <1>4, <2>1 DEF Whole
    <3> QED BY <3>2, <3>3, <3>4, <3>5, <3>6 DEF Whole
  <2>5. CASE m # n
    <3>1. part'[m] = part[m] /\ attempts'[a].name # m
      BY <1>3, <1>4, <1>9, <2>5, NativeIs
    <3> QED BY <1>4, <1>9, <2>1, <2>2, <3>1 DEF Whole
  <2> QED BY <2>4, <2>5
<1>12. GoesOn(a)
  BY <1>1, <1>3, <1>8 DEF GoesOn, Running
<1> QED BY <1>10, <1>11, <1>12 DEF Unmixed

\* The transfer that writes a file is over, and the part-file begins anew.
LEMMA ResetsWhole ==
    ASSUME NativeTypeOK, Unmixed, NEW a \in Attempts, Phase(a) = "streaming",
           NEW phase \in {"saved", "stopped"}, Moves(a, phase),
           part' = [part EXCEPT ![attempts[a].name] = [len |-> 0, right |-> TRUE]],
           mixed' = mixed, spoiled' \in {spoiled, spoiled \cup {attempts[a].name}},
           attempts[a].name \notin mixed => attempts[a].name \notin spoiled'
    PROVE  NativeTypeOK' /\ Unmixed' /\ GoesOn(a)
<1> DEFINE n == attempts[a].name
<1>1. Under(a) /\ attempts[a] \in AttemptRec
  BY UnderIs DEF None
<1>2. PICK s : Goes(a, s) /\ s.phase = phase /\ s.got = attempts[a].got /\ s.told = attempts[a].told
  BY <1>1, MovesIs DEF Phases
<1>3. attempts' \in [Attempts -> Tries] /\ attempts'[a] = s
      /\ \A b \in Attempts \ {a} : attempts'[b] = attempts[b]
  BY <1>2, GoesIs, NativeIs
<1>4. n \in Rows
  BY <1>1, AttemptIs
<1> DEFINE file == [len |-> 0, right |-> TRUE]
<1>0. file \in [len : 0..Size, right : BOOLEAN] /\ file.right /\ part' = [part EXCEPT ![n] = file]
  BY NoneIs
<1> HIDE DEF file
<1>5. NativeTypeOK'
  BY <1>0, <1>3, <1>4, NativeIs DEF NativeTypeOK, Tries, AttemptRec, Phases
<1>6. ASSUME NEW m \in Rows \ mixed' PROVE Whole(m)'
  <2>1. Whole(m)
    BY DEF Unmixed
  <2>2. \A b \in Attempts \ {a} :
           Phase(b)' = Phase(b) /\ (Under(b)' <=> Under(b)) /\ (Streaming(b)' <=> Streaming(b))
    BY <1>3 DEF Phase, Under, Streaming
  <2>3. Phase(a)' = phase /\ Phase(a)' \notin Early /\ ~Streaming(a)'
        /\ attempts'[a].name = n /\ attempts'[a].sends = attempts[a].sends
        /\ attempts'[a].from = attempts[a].from
    BY <1>2, <1>3 DEF Phase, Goes, Early, Streaming
  <2>4. CASE m = n
    <3>1. /\ \A b \in Attempts : Streaming(b) /\ attempts[b].name = m => a = b
          /\ attempts[a].sends = attempts[a].from
      BY <1>1, <2>1, <2>4 DEF Whole, Streaming
    <3>2. part'[m].right /\ m \notin spoiled'
      BY <1>0, <1>4, <2>4, NativeIs
    <3>3. \A b \in Attempts : attempts'[b].name = m => ~Streaming(b)'
      BY <1>3, <2>2, <2>3, <3>1 DEF Early
    <3>4. \A b \in Attempts : Under(b)' /\ attempts'[b].name = m =>
                /\ attempts'[b].sends = attempts'[b].from
                /\ Phase(b)' \in {"invoked", "listening", "waiting"} => attempts'[b].got = attempts'[b].from
      BY <1>3, <2>1, <2>2, <2>3, <3>1 DEF Whole, Early
    <3> QED BY <3>2, <3>3, <3>4 DEF Whole
  <2>5. CASE m # n
    <3>1. part'[m] = part[m] /\ attempts'[a].name # m /\ m \notin spoiled'
      BY <1>0, <2>1, <2>3, <2>5, NativeIs DEF Whole
    <3> QED BY <1>3, <2>1, <2>2, <3>1 DEF Whole
  <2> QED BY <2>4, <2>5
<1>7. GoesOn(a)
  BY <1>1, <1>2 DEF GoesOn, Running
<1> QED BY <1>5, <1>6, <1>7 DEF Unmixed

\* Every step of a transfer in the shell.
LEMMA NativeSteps ==
    ASSUME NativeTypeOK, Unmixed, NEW a \in Attempts,
           \/ Opens(a) \/ Connects(a) \/ Receives(a) \/ Acknowledged(a)
           \/ Fails(a) \/ Finishes(a) \/ Stops(a)
    PROVE  NativeTypeOK' /\ Unmixed' /\ GoesOn(a)
<1>1. ASSUME Opens(a) PROVE NativeTypeOK' /\ Unmixed' /\ GoesOn(a)
  <2> DEFINE phase == IF attempts[a].passive THEN "listening" ELSE "waiting"
  <2>1. Phase(a) = "invoked" /\ Moves(a, phase) /\ UNCHANGED <<part, spoiled, mixed>>
    BY <1>1 DEF Opens
  <2>2. Under(a) /\ phase \in Phases /\ phase \notin {"streaming", "acking"}
    BY <2>1, UnderIs DEF Phases, None
  <2>3. PICK s : Goes(a, s) /\ s.phase = phase /\ s.got = attempts[a].got /\ s.told = attempts[a].told
    BY <2>1, <2>2, MovesIs
  <2> HIDE DEF phase
  <2>4. NativeTypeOK' /\ Unmixed'
    BY <2>1, <2>2, <2>3, GoesWhole DEF Early
  <2> QED BY <2>1, <2>3, <2>4 DEF GoesOn, Running
<1>2. ASSUME Fails(a) PROVE NativeTypeOK' /\ Unmixed' /\ GoesOn(a)
  <2>1. Running(a) /\ Moves(a, "failed") /\ UNCHANGED <<part, spoiled, mixed>>
    BY <1>2 DEF Fails
  <2>2. Under(a) /\ "failed" \in Phases
    BY <2>1, UnderIs DEF Phases
  <2>3. PICK s : Goes(a, s) /\ s.phase = "failed" /\ s.got = attempts[a].got /\ s.told = attempts[a].told
    BY <2>1, <2>2, MovesIs
  <2>4. NativeTypeOK' /\ Unmixed'
    BY <2>1, <2>3, GoesWhole DEF Early
  <2> QED BY <2>1, <2>3, <2>4 DEF GoesOn
<1>3. ASSUME Stops(a) PROVE NativeTypeOK' /\ Unmixed' /\ GoesOn(a)
  <2>1. Running(a) /\ ~Blocked(a) /\ Moves(a, "stopped") /\ UNCHANGED <<spoiled, mixed>>
    BY <1>3 DEF Stops
  <2>2. Under(a) /\ "stopped" \in Phases /\ attempts[a].name \in Rows
    BY <2>1, UnderIs, AttemptIs DEF Phases
  <2>3. PICK s : Goes(a, s) /\ s.phase = "stopped" /\ s.got = attempts[a].got /\ s.told = attempts[a].told
    BY <2>1, <2>2, MovesIs
  <2>4. CASE Phase(a) = "streaming"
    <3>1. attempts[a].name \notin mixed => attempts[a].name \notin spoiled'
      BY <2>1, <2>2 DEF Unmixed, Whole
    <3> QED BY <1>3, <2>1, <2>4, <3>1, ResetsWhole DEF Stops
  <2>5. CASE Phase(a) # "streaming"
    <3>1. UNCHANGED part
      BY <1>3, <2>5 DEF Stops
    <3>2. NativeTypeOK' /\ Unmixed'
      BY <2>1, <2>3, <3>1, GoesWhole DEF Early
    <3> QED BY <2>1, <2>3, <3>2 DEF GoesOn
  <2> QED BY <2>4, <2>5
<1>4. ASSUME Finishes(a) PROVE NativeTypeOK' /\ Unmixed' /\ GoesOn(a)
  <2> DEFINE n == attempts[a].name
             full == [len |-> Size, right |-> TRUE]
  <2>1. Phase(a) = "streaming" /\ attempts[a].got = Size /\ Moves(a, "saved") /\ mixed' = mixed
        /\ part' = [part EXCEPT ![n] = [len |-> 0, right |-> TRUE]]
        /\ spoiled' = IF part[n] = full THEN spoiled ELSE spoiled \cup {n}
    BY <1>4 DEF Finishes
  <2>2. Under(a) /\ n \in Rows
    BY <2>1, UnderIs, AttemptIs DEF None
  <2>3. n \notin mixed => part[n] = full /\ n \notin spoiled
    <3> SUFFICES ASSUME n \notin mixed PROVE part[n] = full /\ n \notin spoiled
      OBVIOUS
    <3>1. part[n].len = Size /\ part[n].right = TRUE /\ n \notin spoiled
      BY <2>1, <2>2 DEF Unmixed, Whole, Streaming
    <3>2. part[n] \in [len : 0..Size, right : BOOLEAN]
      BY <2>2, NativeIs
    <3> QED BY <3>1, <3>2
  <2> HIDE DEF full
  <2>4. spoiled' \in {spoiled, spoiled \cup {n}} /\ (n \notin mixed => n \notin spoiled')
    BY <2>1, <2>3
  <2> QED BY <2>1, <2>4, ResetsWhole
<1>5. ASSUME Acknowledged(a) PROVE NativeTypeOK' /\ Unmixed' /\ GoesOn(a)
  <2> DEFINE s == [[attempts[a] EXCEPT !.phase = "streaming"] EXCEPT !.news = TRUE]
  <2>1. /\ Streaming(a) /\ Running(a) /\ attempts' = [attempts EXCEPT ![a] = s]
        /\ UNCHANGED <<part, spoiled, mixed>>
    BY <1>5 DEF Acknowledged, Blocked, Streaming, Running
  <2>2. attempts[a] \in AttemptRec
    BY <2>1, UnderIs
  <2>3. /\ s \in AttemptRec /\ s.phase = "streaming" /\ s.got = attempts[a].got
        /\ s.told = attempts[a].told /\ s.row = attempts[a].row /\ s.name = attempts[a].name
        /\ s.from = attempts[a].from /\ s.sends = attempts[a].sends
    BY <2>2 DEF AttemptRec, Phases
  <2> HIDE DEF s
  <2>4. Goes(a, s)
    BY <2>1, <2>2, <2>3 DEF Goes
  <2>5. NativeTypeOK' /\ Unmixed'
    BY <2>1, <2>3, <2>4, GoesWhole DEF Early
  <2> QED BY <2>1, <2>3, <2>4, <2>5 DEF GoesOn
<1> QED BY <1>1, <1>2, <1>3, <1>4, <1>5, ConnectsWhole, ReceivesWhole


----------------------------------------------------------------------------
(* Rows nothing happens to.                                                *)

OnceAsked(r) == \A i, j \in DOMAIN asking : asking[i].row = r /\ asking[j].row = r => i = j

OnceMeant(r) == \A e, f \in resumes : e.row = r /\ f.row = r => e = f

\* Nothing begins for a row, and its transfers go on as they did.
LEMMA RowStays ==
    ASSUME NEW r, Single(r), Seen(r), Wanted(r),
           rows'[r].status = rows[r].status, handle'[r] = handle[r], r \in cancelled' <=> r \in cancelled,
           OnceAsked(r)', AskingFor(r)' => AskingFor(r),
           OnceMeant(r)', Negotiating(r)' => Negotiating(r),
           r \in ToSet(queue') => r \in ToSet(queue), r \in Granted => r \in Granted',
           \A a \in Attempts : Under(a)' /\ attempts'[a].row = r =>
              /\ Under(a) /\ attempts[a].row = r /\ attempts'[a].told = attempts[a].told
              /\ Running(a)' => Running(a)
    PROVE  Single(r)' /\ Seen(r)' /\ Wanted(r)'
<1>1. (InFlight(r)' <=> InFlight(r)) /\ (Listed(r)' <=> Listed(r))
  BY DEF InFlight, Listed
<1>2. Single(r)'
  <2>1. ~(AskingFor(r)' /\ Negotiating(r)')
    BY DEF Single
  <2>2. \A a \in Attempts : Under(a)' /\ attempts'[a].row = r =>
          ~AskingFor(r)' /\ ~Negotiating(r)' /\ handle'[r] = a
    BY DEF Single
  <2>3. Busy(r)' => Busy(r)
    BY DEF Busy
  <2>4. r \in ToSet(queue') => ~Busy(r)'
    BY <2>3 DEF Single
  <2>5. AskingFor(r)' \/ Negotiating(r)' => Listed(r)'
    BY <1>1 DEF Single
  <2> QED BY <2>1, <2>2, <2>4, <2>5 DEF Single, OnceAsked, OnceMeant
<1>3. Seen(r)'
  BY <1>1 DEF Seen
<1>4. Wanted(r)'
  BY DEF Wanted
<1> QED BY <1>2, <1>3, <1>4

\* Nothing happens to a transfer.
LEMMA NativeStays ==
    ASSUME NativeTypeOK, Unmixed, UNCHANGED native
    PROVE  /\ NativeTypeOK' /\ Unmixed'
           /\ \A a \in Attempts : /\ attempts'[a] = attempts[a]
                                  /\ Under(a)' <=> Under(a)
                                  /\ Running(a)' <=> Running(a)
                                  /\ Phase(a)' = Phase(a)
<1>1. attempts' = attempts /\ part' = part /\ spoiled' = spoiled /\ mixed' = mixed
  BY DEF native
<1> QED BY <1>1 DEF NativeTypeOK, Unmixed, Whole, Under, Running, Phase, Streaming

\* Of what is asked, once for each row.
LEMMA OnceStays ==
    ASSUME NEW r, Single(r)
    PROVE  /\ UNCHANGED asking => OnceAsked(r)' /\ (AskingFor(r)' <=> AskingFor(r))
           /\ UNCHANGED resumes => OnceMeant(r)' /\ (Negotiating(r)' <=> Negotiating(r))
           /\ resumes' \subseteq resumes => OnceMeant(r)' /\ (Negotiating(r)' => Negotiating(r))
BY DEF Single, OnceAsked, OnceMeant, AskingFor, Negotiating

LEMMA JoinIs ==
    ASSUME NEW S, NEW s \in Seq(S), NEW t \in Seq(S)
    PROVE  /\ s \o t \in Seq(S) /\ Len(s \o t) = Len(s) + Len(t)
           /\ \A k \in 1..Len(s) : (s \o t)[k] = s[k]
           /\ \A k \in 1..Len(t) : (s \o t)[Len(s) + k] = t[k]
BY ConcatProperties

\* An answer takes its question away.
LEMMA RemovedIs ==
    ASSUME asking \in Seq(Plans), NEW i \in DOMAIN asking, asking' = RemoveAt(asking, i)
    PROVE  /\ asking' \in Seq(Plans) /\ Len(asking') = Len(asking) - 1
           /\ \A k \in DOMAIN asking' : \E j \in DOMAIN asking \ {i} : asking'[k] = asking[j]
           /\ \A j \in DOMAIN asking \ {i} : \E k \in DOMAIN asking' : asking'[k] = asking[j]
           /\ \A r : OnceAsked(r) => OnceAsked(r)'
<1> DEFINE n == Len(asking)
           At(k) == IF k < i THEN k ELSE k + 1
           before == SubSeq(asking, 1, i - 1)
           after == SubSeq(asking, i + 1, n)
<1>0. n \in Nat /\ DOMAIN asking = 1..n /\ i \in 1..n
  OBVIOUS
<1>1. before \in Seq(Plans) /\ Len(before) = i - 1 /\ \A k \in 1..(i - 1) : before[k] = asking[k]
  BY <1>0
<1>2. after \in Seq(Plans) /\ Len(after) = n - i /\ \A k \in 1..(n - i) : after[k] = asking[i + k]
  BY <1>0
<1>3. asking' = before \o after
  BY DEF RemoveAt
<1> HIDE DEF n, before, after
<1>a. /\ asking' \in Seq(Plans) /\ Len(asking') = Len(before) + Len(after)
      /\ \A k \in 1..Len(before) : asking'[k] = before[k]
      /\ \A k \in 1..Len(after) : asking'[Len(before) + k] = after[k]
  <2>1. before \in Seq(Plans) /\ after \in Seq(Plans)
    BY <1>1, <1>2
  <2> DEFINE both == before \o after
  <2>2. /\ both \in Seq(Plans) /\ Len(both) = Len(before) + Len(after)
        /\ \A k \in 1..Len(before) : both[k] = before[k]
        /\ \A k \in 1..Len(after) : both[Len(before) + k] = after[k]
    BY <2>1, JoinIs
  <2>3. asking' = both
    BY <1>3
  <2> HIDE DEF both
  <2> QED BY <2>2, <2>3
<1>4. asking' \in Seq(Plans) /\ Len(asking') = n - 1
  BY <1>0, <1>1, <1>2, <1>a
<1>5. DOMAIN asking' = 1..(n - 1)
  BY <1>0, <1>4
<1>6. \A k \in 1..(n - 1) : asking'[k] = asking[At(k)] /\ At(k) \in 1..n /\ At(k) # i
  <2> SUFFICES ASSUME NEW k \in 1..(n - 1)
               PROVE  asking'[k] = asking[At(k)] /\ At(k) \in 1..n /\ At(k) # i
    OBVIOUS
  <2>0. At(k) \in 1..n /\ At(k) # i
    BY <1>0
  <2>1. CASE k < i
    <3>1. k \in 1..(i - 1) /\ At(k) = k
      BY <1>0, <2>1
    <3>2. asking'[k] = before[k] /\ before[k] = asking[k]
      BY <1>1, <1>a, <3>1
    <3> HIDE DEF At
    <3> QED BY <2>0, <3>1, <3>2
  <2>2. CASE ~(k < i)
    <3> DEFINE l == k - (i - 1)
    <3>1. l \in 1..(n - i) /\ (i - 1) + l = k /\ At(k) = i + l
      BY <1>0, <2>2
    <3> HIDE DEF l, At
    <3>2. asking'[k] = after[l] /\ after[l] = asking[i + l]
      BY <1>1, <1>2, <1>a, <3>1
    <3> QED BY <2>0, <3>1, <3>2
  <2> QED BY <2>1, <2>2
<1>7. \A j \in 1..n : j # i => \E k \in 1..(n - 1) : At(k) = j
  <2> SUFFICES ASSUME NEW j \in 1..n, j # i PROVE \E k \in 1..(n - 1) : At(k) = j
    OBVIOUS
  <2>1. CASE j < i
    BY <1>0, <2>1
  <2>2. CASE ~(j < i)
    <3>1. j - 1 \in 1..(n - 1) /\ At(j - 1) = j
      BY <1>0, <2>2
    <3> QED BY <3>1
  <2> QED BY <2>1, <2>2
<1>8. \A k, l \in 1..(n - 1) : At(k) = At(l) => k = l
  BY <1>0
<1> HIDE DEF At
<1>9. \A r : OnceAsked(r) => OnceAsked(r)'
  BY <1>0, <1>5, <1>6, <1>8 DEF OnceAsked
<1>10. \A k \in DOMAIN asking' : \E j \in DOMAIN asking \ {i} : asking'[k] = asking[j]
  BY <1>0, <1>5, <1>6
<1>11. \A j \in DOMAIN asking \ {i} : \E k \in DOMAIN asking' : asking'[k] = asking[j]
  BY <1>0, <1>5, <1>6, <1>7
<1> QED BY <1>4, <1>9, <1>10, <1>11 DEF n

\* A question is asked.
LEMMA AppendedIs ==
    ASSUME asking \in Seq(Plans), NEW plan \in Plans, asking' = Append(asking, plan)
    PROVE  /\ asking' \in Seq(Plans) /\ Len(asking') = Len(asking) + 1
           /\ \A k \in DOMAIN asking' : asking'[k] = plan \/ \E j \in DOMAIN asking : asking'[k] = asking[j]
           /\ \A j \in DOMAIN asking : j \in DOMAIN asking' /\ asking'[j] = asking[j]
           /\ AskingFor(plan.row)'
           /\ \A r : r # plan.row /\ OnceAsked(r) => OnceAsked(r)'
           /\ ~AskingFor(plan.row) => OnceAsked(plan.row)'
<1> DEFINE n == Len(asking)
<1>1. /\ n \in Nat /\ DOMAIN asking = 1..n
      /\ asking' \in Seq(Plans) /\ Len(asking') = n + 1 /\ asking'[n + 1] = plan
      /\ \A k \in 1..n : asking'[k] = asking[k]
  OBVIOUS
<1>2. DOMAIN asking' = 1..(n + 1) /\ n + 1 \in 1..(n + 1)
  BY <1>1
<1>3. (\A k \in 1..(n + 1) : k \in 1..n \/ k = n + 1) /\ (\A k \in 1..n : k \in 1..(n + 1) /\ k # n + 1)
  BY <1>1
<1> HIDE DEF n
<1>4. \A k \in DOMAIN asking' : asking'[k] = plan \/ \E j \in DOMAIN asking : asking'[k] = asking[j]
  BY <1>1, <1>2, <1>3
<1>5. \A j \in DOMAIN asking : j \in DOMAIN asking' /\ asking'[j] = asking[j]
  BY <1>1, <1>2, <1>3
<1>6. AskingFor(plan.row)'
  BY <1>1, <1>2 DEF AskingFor
<1>7. \A r : r # plan.row /\ OnceAsked(r) => OnceAsked(r)'
  BY <1>1, <1>2, <1>3 DEF OnceAsked
<1>8. ~AskingFor(plan.row) => OnceAsked(plan.row)'
  BY <1>1, <1>2, <1>3 DEF OnceAsked, AskingFor
<1> QED BY <1>1, <1>4, <1>5, <1>6, <1>7, <1>8 DEF n

----------------------------------------------------------------------------
(* Transfers that start.                                                   *)

\* What Launch leaves: transfer a, which is s.
Begun(table, r, n, from, sends, a, s) ==
    /\ table[a] = NoAttempt /\ attempts' = [table EXCEPT ![a] = s]
    /\ s.phase = "invoked" /\ s.row = r /\ s.name = n /\ s.told = FALSE
    /\ s.from = from /\ s.sends = sends /\ s.got = from
    /\ handle' = [handle EXCEPT ![r] = a] /\ cancelled' = cancelled \ {r}
    /\ TypeScreen'
    /\ \A q \in Rows \ {r} : rows'[q] = rows[q]
    /\ Listed(r) => rows'[r].status = "downloading" /\ rows'[r].name = n
    /\ ~Listed(r) => rows'[r] = rows[r]

LEMMA LaunchIs ==
    ASSUME TypeScreen, NEW table \in [Attempts -> Tries], NEW r \in Rows, NEW n \in Rows,
           NEW from \in 0..Size, NEW sends \in 0..Size,
           NEW fallback \in BOOLEAN, NEW passive \in BOOLEAN,
           Launch(table, r, n, from, sends, fallback, passive)
    PROVE  \E a \in Attempts, s \in AttemptRec : Begun(table, r, n, from, sends, a, s)
<1> DEFINE free == {a \in Attempts : table[a] = NoAttempt}
           a == CHOOSE a \in free : TRUE
           s == Launched(r, n, from, sends, fallback, passive)
           row == [status |-> "downloading", name |-> n, awaiting |-> FALSE, tried |-> table # attempts,
                   address |-> Dialled(r, passive)]
<1>1. /\ free # {} /\ attempts' = [table EXCEPT ![a] = s] /\ handle' = [handle EXCEPT ![r] = a]
      /\ cancelled' = cancelled \ {r}
      /\ rows' = IF Listed(r) THEN [rows EXCEPT ![r] = row] ELSE rows
  BY DEF Launch
<1>2. a \in Attempts /\ table[a] = NoAttempt
  BY <1>1
<1>3. /\ s \in AttemptRec /\ s.phase = "invoked" /\ s.row = r /\ s.name = n /\ s.told = FALSE
      /\ s.from = from /\ s.sends = sends /\ s.got = from
  BY DEF Launched, AttemptRec, Phases
<1>4. row \in RowRec /\ row.status = "downloading" /\ row.name = n
  <2>1. rows[r] \in RowRec
    BY DEF TypeScreen
  <2>2. Dialled(r, passive) \in {"offered", "none", "late"}
    BY <2>1, RowIs DEF Dialled
  <2> QED BY <2>2 DEF RowRec, Statuses
<1> HIDE DEF free, a, s, row
<1>5. rows' \in [Rows -> RowRec]
      /\ (\A q \in Rows \ {r} : rows'[q] = rows[q])
      /\ (Listed(r) => rows'[r].status = "downloading" /\ rows'[r].name = n)
      /\ (~Listed(r) => rows'[r] = rows[r])
  BY <1>1, <1>4 DEF TypeScreen
<1>6. TypeScreen'
  BY <1>1, <1>2, <1>5 DEF TypeScreen
<1> QED BY <1>1, <1>2, <1>3, <1>5, <1>6 DEF Begun

\* A transfer starts for the only thing that is under way for its row.
LEMMA LaunchKeeps ==
    ASSUME Inv, NEW table \in [Attempts -> Tries],
           \A b \in Attempts : table[b] = attempts[b] \/ table[b] = NoAttempt,
           NEW r \in Rows, NEW n \in Rows, r \in Names => n = r,
           NEW from \in 0..Size, NEW sends \in 0..Size,
           NEW fallback \in BOOLEAN, NEW passive \in BOOLEAN,
           Launch(table, r, n, from, sends, fallback, passive),
           \A q \in Rows \ {r} : handle[q] # None => table[handle[q]] = attempts[handle[q]],
           mixed \subseteq mixed', mixed' \subseteq Rows, n \notin mixed' => sends = from,
           UNCHANGED <<part, spoiled, queue, watchdogs, network, Granted, crossed>>,
           TypePending', TypeBot', TypeGhosts',
           resumes' \subseteq resumes,
           \A k \in DOMAIN asking' : \E j \in DOMAIN asking : asking'[k] = asking[j],
           \A q \in Rows \ {r} : /\ OnceAsked(q) => OnceAsked(q)'
                                 /\ AskingFor(q) => AskingFor(q)'
                                 /\ Negotiating(q) => Negotiating(q)',
           r \notin crossed =>
              /\ r \in Granted /\ Listed(r) /\ r \notin ToSet(queue)
              /\ ~AskingFor(r)' /\ ~Negotiating(r)'
              /\ \A b \in Attempts : Under(b) /\ attempts[b].row = r => table[b] = NoAttempt
    PROVE  Inv'
<1>0. PICK a \in Attempts, s \in AttemptRec : Begun(table, r, n, from, sends, a, s)
  <2>1. TypeScreen
    BY DEF Inv, Typed
  <2> QED BY <2>1, LaunchIs
<1>1. /\ table[a] = NoAttempt /\ attempts' = [table EXCEPT ![a] = s]
      /\ s.phase = "invoked" /\ s.row = r /\ s.name = n /\ s.told = FALSE
      /\ s.from = from /\ s.sends = sends /\ s.got = from
      /\ handle' = [handle EXCEPT ![r] = a] /\ cancelled' = cancelled \ {r}
      /\ TypeScreen'
      /\ \A q \in Rows \ {r} : rows'[q] = rows[q]
      /\ Listed(r) => rows'[r].status = "downloading" /\ rows'[r].name = n
      /\ ~Listed(r) => rows'[r] = rows[r]
  BY <1>0 DEF Begun
<1>2. attempts' \in [Attempts -> Tries] /\ attempts'[a] = s
      /\ \A b \in Attempts \ {a} : attempts'[b] = table[b]
  BY <1>1 DEF Tries
<1>3. NativeTypeOK'
  <2>1. NativeTypeOK
    BY DEF Inv, Typed
  <2> QED BY <1>2, <2>1, NativeIs DEF NativeTypeOK, Tries, AttemptRec, Phases
<1>4. \A b \in Attempts : b # a /\ Under(b)' =>
         /\ attempts'[b] = attempts[b] /\ table[b] = attempts[b] /\ table[b] # NoAttempt
         /\ Under(b) /\ Phase(b)' = Phase(b) /\ (Running(b)' <=> Running(b))
  BY <1>2 DEF Under, Phase, Running
<1>5. Under(a)' /\ Phase(a)' = "invoked" /\ Running(a)'
  BY <1>1, <1>2, AttemptIs DEF Under, Phase, Running
<1>6. \A q \in Rows : (Listed(q)' <=> Listed(q))
  BY <1>1 DEF Listed
<1>7. Typed'
  BY <1>1, <1>3 DEF Typed
<1>8. Gone'
  BY <1>6 DEF Inv, Gone
<1>9. NamesKept'
  <2>1. NamesKept
    BY DEF Inv
  <2>2. \A q \in Rows : rows'[q].name = None <=> ~Listed(q)'
    BY <1>1, <1>6, <2>1, NoneIs DEF NamesKept
  <2>3. \A q \in Names : Listed(q)' => rows'[q].name = q
    <3> SUFFICES ASSUME NEW q \in Names, Listed(q)' PROVE rows'[q].name = q
      OBVIOUS
    <3>1. q \in Rows
      BY DEF Rows
    <3> QED BY <1>1, <1>6, <2>1, <3>1 DEF NamesKept
  <2>4. \A k \in DOMAIN asking' : asking'[k].row \in Names => asking'[k].name = asking'[k].row
    BY <2>1 DEF NamesKept
  <2>5. \A e \in resumes' : e.row \in Names => e.name = e.row
    BY <2>1 DEF NamesKept
  <2>6. \A b \in Attempts :
          Under(b)' /\ attempts'[b].row \in Names => attempts'[b].name = attempts'[b].row
    BY <1>1, <1>2, <1>4, <2>1 DEF NamesKept
  <2> QED BY <2>2, <2>3, <2>4, <2>5, <2>6 DEF NamesKept
<1>10. Handles'
  <2> SUFFICES ASSUME NEW q \in Rows, handle'[q] # None
               PROVE  attempts'[handle'[q]] # NoAttempt /\ attempts'[handle'[q]].row = q
    BY DEF Handles, Under
  <2>1. CASE q = r
    <3>1. handle'[q] = a
      BY <1>1, <2>1 DEF Inv, Typed, TypeScreen
    <3> QED BY <1>1, <1>2, <2>1, <3>1, AttemptIs
  <2>2. CASE q # r
    <3>1. handle'[q] = handle[q] /\ handle[q] # None /\ handle[q] \in Attempts
      BY <1>1, <2>2 DEF Inv, Typed, TypeScreen
    <3>2. Under(handle[q]) /\ attempts[handle[q]].row = q /\ table[handle[q]] = attempts[handle[q]]
      BY <2>2, <3>1 DEF Inv, Handles
    <3>3. handle[q] # a
      BY <1>1, <3>2 DEF Under
    <3>4. attempts'[handle[q]] = attempts[handle[q]]
      BY <1>2, <3>1, <3>2, <3>3
    <3> QED BY <3>1, <3>2, <3>4 DEF Under
  <2> QED BY <2>1, <2>2
<1>11. Unmixed'
  <2> SUFFICES ASSUME NEW m \in Rows \ mixed' PROVE Whole(m)'
    BY DEF Unmixed
  <2>1. Whole(m)
    BY DEF Inv, Unmixed
  <2>2. part'[m].right /\ m \notin spoiled'
    BY <2>1 DEF Whole
  <2>3. \A b \in Attempts : Under(b)' /\ attempts'[b].name = m =>
           /\ attempts'[b].sends = attempts'[b].from
           /\ Phase(b)' \in {"invoked", "listening", "waiting"} => attempts'[b].got = attempts'[b].from
           /\ Streaming(b)' => part'[m].len = attempts'[b].got
    <3>1. n = m => s.sends = s.from /\ s.got = s.from
      BY <1>1
    <3> QED BY <1>1, <1>2, <1>4, <1>5, <2>1, <3>1 DEF Whole, Streaming, Early, Phase
  <2>4. \A b, c \in Attempts : Under(b)' /\ attempts'[b].name = m
           /\ Streaming(b)' /\ Streaming(c)' /\ attempts'[c].name = m => b = c
    <3>1. \A c \in Attempts : Streaming(c)' => Under(c)' /\ c # a
      BY <1>2, <1>5, AttemptIs DEF Phase, Under, None, Tries, Streaming
    <3> QED BY <1>4, <2>1, <3>1 DEF Whole, Streaming, Phase
  <2> QED BY <2>2, <2>3, <2>4 DEF Whole
<1>12. Uncrossed'
  <2> SUFFICES ASSUME NEW q \in Rows \ crossed PROVE Single(q)' /\ Seen(q)' /\ Wanted(q)'
    BY DEF Uncrossed
  <2>1. Single(q) /\ Seen(q) /\ Wanted(q)
    BY DEF Inv, Uncrossed
  <2>2. CASE q = r
    <3>1. /\ ~AskingFor(r)' /\ ~Negotiating(r)' /\ r \in Granted' /\ r \notin ToSet(queue')
          /\ \A b \in Attempts : Under(b)' /\ attempts'[b].row = r => b = a
      BY <1>4, <2>2
    <3>2. handle'[r] = a /\ r \notin cancelled' /\ InFlight(r)' /\ attempts'[a].told = FALSE
      BY <1>1, <1>2, <2>2 DEF Inv, Typed, TypeScreen, InFlight
    <3>3. Single(q)'
      BY <2>2, <3>1, <3>2 DEF Single, AskingFor, Negotiating
    <3>4. Seen(q)'
      BY <2>2, <3>1, <3>2, NoneIs DEF Seen
    <3> QED BY <2>2, <3>1, <3>3, <3>4 DEF Wanted
  <2>3. CASE q # r
    <3>1. rows'[q].status = rows[q].status /\ handle'[q] = handle[q] /\ (q \in cancelled' <=> q \in cancelled)
      BY <1>1, <2>3 DEF Inv, Typed, TypeScreen
    <3>2. OnceAsked(q)' /\ (AskingFor(q)' => AskingFor(q))
      BY <2>1, <2>3 DEF Single, OnceAsked, AskingFor
    <3>3. OnceMeant(q)' /\ (Negotiating(q)' => Negotiating(q))
      BY <2>1, OnceStays
    <3>4. \A b \in Attempts : Under(b)' /\ attempts'[b].row = q =>
              /\ Under(b) /\ attempts[b].row = q /\ attempts'[b].told = attempts[b].told
              /\ Running(b)' => Running(b)
      BY <1>1, <1>2, <1>4, <2>3
    <3> QED BY <2>1, <3>1, <3>2, <3>3, <3>4, RowStays
  <2> QED BY <2>2, <2>3
<1>13. RequestedIsWatched'
  <2> SUFFICES ASSUME NEW q \in Rows, rows'[q].status = "requested"
               PROVE  q \in watchdogs' \/ AskingFor(q)' \/ Negotiating(q)'
    BY DEF RequestedIsWatched
  <2>1. q # r /\ rows[q].status = "requested"
    BY <1>1 DEF Listed
  <2> QED BY <2>1 DEF Inv, RequestedIsWatched
<1>14. QueueIsListed'
  <2>1. TypePending
    BY DEF Inv, Typed
  <2>2. ToSet(queue) \subseteq Rows
    BY <2>1 DEF TypePending, ToSet, Rows
  <2> QED BY <1>6, <2>2 DEF Inv, QueueIsListed
<1> QED BY <1>7, <1>8, <1>9, <1>10, <1>11, <1>12, <1>13, <1>14 DEF Inv

\* What was asked, or negotiated, becomes a transfer.
LEMMA StartsKeeps ==
    ASSUME Inv, NEW plan \in Plans, NEW from \in 0..Size,
           Starts(plan, from), mixed' = Misses(plan, from),
           plan.row \in Names => plan.name = plan.row,
           AskingFor(plan.row) \/ Negotiating(plan.row),
           UNCHANGED <<part, spoiled, queue, watchdogs, network, Granted, crossed>>,
           TypePending', TypeBot', TypeGhosts',
           resumes' \subseteq resumes,
           \A k \in DOMAIN asking' : \E j \in DOMAIN asking : asking'[k] = asking[j],
           \A q \in Rows \ {plan.row} : /\ OnceAsked(q) => OnceAsked(q)'
                                        /\ AskingFor(q) => AskingFor(q)'
                                        /\ Negotiating(q) => Negotiating(q)',
           plan.row \notin crossed => ~AskingFor(plan.row)' /\ ~Negotiating(plan.row)'
    PROVE  Inv'
<1> DEFINE r == plan.row
           n == plan.name
<1>1. r \in Rows /\ n \in Rows /\ plan.passive \in BOOLEAN
  BY DEF Plans
<1>2. NativeTypeOK /\ TypeScreen /\ TypeBot
  BY DEF Inv, Typed
<1>3. mixed \subseteq mixed' /\ mixed' \subseteq Rows /\ (n \notin mixed' => agreed[n] = from)
  BY <1>1, <1>2, NativeIs DEF Misses
<1>4. CASE plan.passive /\ ~network
  <2>1. UNCHANGED <<attempts, rows, handle, cancelled>>
    BY <1>4 DEF Starts, screen
  <2>2. crossed = Rows /\ \A q \in Rows : ~Listed(q)
    BY <1>4 DEF Inv, Gone
  <2>3. Typed'
    <3>1. NativeTypeOK'
      BY <1>2, <1>3, <2>1, NativeIs DEF NativeTypeOK, Tries, AttemptRec, Phases
    <3> QED BY <1>2, <2>1, <3>1 DEF Typed, TypeScreen
  <2>4. Gone' /\ Uncrossed'
    BY <2>1, <2>2 DEF Gone, Listed, Uncrossed
  <2>5. NamesKept'
    BY <2>1 DEF Inv, NamesKept, Listed, Under
  <2>6. Handles'
    BY <2>1 DEF Inv, Handles, Under
  <2>7. Unmixed'
    BY <1>3, <2>1 DEF Inv, Unmixed, Whole, Under, Phase, Streaming
  <2>8. RequestedIsWatched' /\ QueueIsListed'
    BY <1>4, <2>1, <2>2 DEF RequestedIsWatched, QueueIsListed, Listed
  <2> QED BY <2>3, <2>4, <2>5, <2>6, <2>7, <2>8 DEF Inv
<1>5. CASE ~(plan.passive /\ ~network)
  <2>1. PICK private \in BOOLEAN : Launch(attempts, r, n, from, agreed[n], private, plan.passive)
    BY <1>5, TransfersAssumption DEF Starts
  <2>2. attempts \in [Attempts -> Tries] /\ agreed[n] \in 0..Size
    BY <1>1, <1>2, NativeIs DEF TypeBot
  <2>3. r \notin crossed =>
              /\ r \in Granted /\ Listed(r) /\ r \notin ToSet(queue)
              /\ ~AskingFor(r)' /\ ~Negotiating(r)'
              /\ \A b \in Attempts : ~(Under(b) /\ attempts[b].row = r)
    BY <1>1 DEF Inv, Uncrossed, Single, Wanted, Busy
  <2>4. \A b \in Attempts : attempts[b] = attempts[b] \/ attempts[b] = NoAttempt
    OBVIOUS
  <2>5. r \notin crossed =>
              /\ r \in Granted /\ Listed(r) /\ r \notin ToSet(queue)
              /\ ~AskingFor(r)' /\ ~Negotiating(r)'
              /\ \A b \in Attempts : Under(b) /\ attempts[b].row = r => attempts[b] = NoAttempt
    BY <2>3
  <2>6. (\A q \in Rows \ {r} : /\ OnceAsked(q) => OnceAsked(q)'
                               /\ AskingFor(q) => AskingFor(q)'
                               /\ Negotiating(q) => Negotiating(q)')
        /\ (\A q \in Rows \ {r} : handle[q] # None => attempts[handle[q]] = attempts[handle[q]])
        /\ (r \in Names => n = r)
        /\ (n \notin mixed' => agreed[n] = from)
    BY <1>3
  <2> HIDE DEF r, n
  <2> QED BY <1>1, <1>3, <2>1, <2>2, <2>4, <2>5, <2>6, LaunchKeeps
<1> QED BY <1>4, <1>5

----------------------------------------------------------------------------
(* The answers.                                                            *)

LEMMA AnsweredKeeps ==
    ASSUME Inv, NEW r \in Rows, Answered(r)
    PROVE  Inv'
<1>1. PICK i \in DOMAIN asking, already \in Answers :
         /\ asking[i].row = r /\ ShellAnswers(i, already)
         /\ UNCHANGED <<queue, watchdogs, network, queued, holds, offers, ghosts, acts>>
  BY DEF Answered
<1>b. PICK plan : plan = asking[i]
  OBVIOUS
<1> DEFINE n == plan.name
           held == {e \in resumes : e.name = n}
<1>2. NativeTypeOK /\ Unmixed /\ TypeScreen /\ TypePending /\ TypeBot /\ TypeGhosts
  BY DEF Inv, Typed
<1>3. asking \in Seq(Plans) /\ plan \in Plans /\ n \in Rows /\ plan.row = r /\ plan.name = n
  <2>1. asking \in Seq(Plans)
    BY <1>2 DEF TypePending
  <2>2. plan \in Plans
    BY <1>b, <2>1
  <2>3. plan.row = r
    BY <1>1, <1>b
  <2> QED BY <2>1, <2>2, <2>3 DEF Plans
<1>4. asking' = RemoveAt(asking, i) /\ Granted' = Granted /\ crossed' = crossed /\ acts' = acts
  BY <1>1 DEF ShellAnswers, ghosts, Granted
<1>5. /\ asking' \in Seq(Plans) /\ Len(asking') = Len(asking) - 1
      /\ \A k \in DOMAIN asking' : \E j \in DOMAIN asking \ {i} : asking'[k] = asking[j]
      /\ \A j \in DOMAIN asking \ {i} : \E k \in DOMAIN asking' : asking'[k] = asking[j]
      /\ \A q : OnceAsked(q) => OnceAsked(q)'
  BY <1>3, <1>4, RemovedIs
<1>6. Len(asking') <= Asks
  BY <1>2, <1>3, <1>5, TransfersAssumption DEF TypePending
<1>7. AskingFor(r)
  BY <1>1 DEF AskingFor
<1>8. /\ \A q : AskingFor(q)' => AskingFor(q)
      /\ \A q : q # r /\ AskingFor(q) => AskingFor(q)'
  <2>1. \A q : AskingFor(q)' => AskingFor(q)
    BY <1>5 DEF AskingFor
  <2>2. ASSUME NEW q, q # r, AskingFor(q) PROVE AskingFor(q)'
    <3>1. PICK j \in DOMAIN asking : asking[j].row = q
      BY <2>2 DEF AskingFor
    <3>2. j # i
      BY <1>1, <2>2, <3>1
    <3> QED BY <1>5, <3>1, <3>2 DEF AskingFor
  <2> QED BY <2>1, <2>2
<1>9. r \notin crossed => ~AskingFor(r)' /\ Single(r)
  <2> SUFFICES ASSUME r \notin crossed PROVE ~AskingFor(r)' /\ Single(r)
    OBVIOUS
  <2>1. Single(r)
    BY DEF Inv, Uncrossed
  <2>2. \A j \in DOMAIN asking \ {i} : asking[j].row # r
    BY <1>1, <2>1 DEF Single
  <2> QED BY <1>5, <2>1, <2>2 DEF AskingFor
<1>10. (r \in Names => n = r)
  BY <1>1, <1>b DEF Inv, NamesKept
<1>11. TypeGhosts'
  BY <1>2, <1>4 DEF TypeGhosts
<1>12. CASE /\ Starts(plan, 0) /\ mixed' = Misses(plan, 0)
            /\ UNCHANGED <<part, spoiled, resumes, agreed, accepts>>
  <2>1. TypePending' /\ TypeBot'
    BY <1>1, <1>2, <1>5, <1>6, <1>12 DEF TypePending, TypeBot
  <2>2. 0 \in 0..Size
    BY NoneIs
  <2>3. \A k \in DOMAIN asking' : \E j \in DOMAIN asking : asking'[k] = asking[j]
    BY <1>5
  <2>4. \A q : Negotiating(q)' <=> Negotiating(q)
    BY <1>12 DEF Negotiating
  <2>5. \A q \in Rows \ {plan.row} : /\ OnceAsked(q) => OnceAsked(q)'
                                     /\ AskingFor(q) => AskingFor(q)'
                                     /\ Negotiating(q) => Negotiating(q)'
    BY <1>3, <1>5, <1>8, <2>4
  <2>6. r \notin crossed => ~AskingFor(r)' /\ ~Negotiating(r)'
    BY <1>7, <1>9, <2>4 DEF Single
  <2>7. /\ UNCHANGED <<part, spoiled, queue, watchdogs, network, Granted, crossed>>
        /\ resumes' \subseteq resumes
    BY <1>1, <1>4, <1>12
  <2>8. Starts(plan, 0) /\ mixed' = Misses(plan, 0)
    BY <1>12
  <2>9. /\ plan.row \notin crossed => ~AskingFor(plan.row)' /\ ~Negotiating(plan.row)'
        /\ AskingFor(plan.row) \/ Negotiating(plan.row)
        /\ plan.row \in Names => plan.name = plan.row
    BY <1>3, <1>7, <1>10, <2>6
  <2> QED BY <1>3, <1>11, <2>1, <2>2, <2>3, <2>5, <2>7, <2>8, <2>9, StartsKeeps
<1>13. CASE /\ \A e \in held : e.row = r
            /\ rows' = Patched(r, "requested")
            /\ resumes' = (resumes \ held) \cup {plan}
            /\ UNCHANGED <<native, handle, cancelled>>
            /\ accepts' \subseteq Rows /\ agreed' \in [Rows -> 0..Size]
  <2>1. /\ rows' \in [Rows -> RowRec]
        /\ \A q \in Rows \ {r} : rows'[q] = rows[q]
        /\ Listed(r) => rows'[r].status = "requested"
        /\ ~Listed(r) => rows'[r] = rows[r]
        /\ rows'[r].name = rows[r].name
    BY <1>2, <1>13, PatchedIs DEF TypeScreen, Statuses
  <2>2. NativeTypeOK' /\ Unmixed'
        /\ \A a \in Attempts : /\ attempts'[a] = attempts[a] /\ (Under(a)' <=> Under(a))
                               /\ (Running(a)' <=> Running(a)) /\ Phase(a)' = Phase(a)
    BY <1>2, <1>13, NativeStays
  <2>3. \A q \in Rows : (Listed(q)' <=> Listed(q))
    BY <2>1 DEF Listed
  <2>4. TypePending'
    <3>1. resumes' \subseteq Plans /\ \A e, f \in resumes' : e.name = f.name => e = f
      BY <1>2, <1>3, <1>13 DEF TypePending
    <3> QED BY <1>1, <1>2, <1>5, <1>6, <3>1 DEF TypePending
  <2>5. Typed'
    BY <1>1, <1>2, <1>11, <1>13, <2>1, <2>2, <2>4 DEF Typed, TypeScreen, TypeBot
  <2>6. Gone'
    BY <1>1, <1>4, <2>3 DEF Inv, Gone
  <2>7. NamesKept'
    <3>1. NamesKept
      BY DEF Inv
    <3>2. \A q \in Rows : rows'[q].name = rows[q].name
      BY <2>1
    <3>3. \A e \in resumes' : e.row \in Names => e.name = e.row
      BY <1>3, <1>10, <1>13, <3>1 DEF NamesKept
    <3>4. Names \subseteq Rows
      BY DEF Rows
    <3>5. \A k \in DOMAIN asking' : asking'[k].row \in Names => asking'[k].name = asking'[k].row
      BY <1>5, <3>1 DEF NamesKept
    <3>6. /\ \A q \in Rows : rows'[q].name = None <=> ~Listed(q)'
          /\ \A q \in Names : Listed(q)' => rows'[q].name = q
      BY <2>3, <3>1, <3>2, <3>4 DEF NamesKept
    <3>7. \A a \in Attempts :
             Under(a)' /\ attempts'[a].row \in Names => attempts'[a].name = attempts'[a].row
      BY <2>2, <3>1 DEF NamesKept
    <3> QED BY <3>3, <3>5, <3>6, <3>7 DEF NamesKept
  <2>8. Handles'
    <3>1. handle' = handle
      BY <1>13
    <3> QED BY <1>2, <2>2, <3>1 DEF Inv, Handles, TypeScreen, Under
  <2>9. Negotiating(r)' /\ \A q : q # r => (Negotiating(q)' <=> Negotiating(q))
    BY <1>3, <1>13 DEF Negotiating
  <2>10. ASSUME NEW q \in Rows \ crossed PROVE Single(q)' /\ Seen(q)' /\ Wanted(q)'
    <3>1. Single(q) /\ Seen(q) /\ Wanted(q)
      BY <2>10 DEF Inv, Uncrossed
    <3>2. CASE q = r
      <4>1. ~AskingFor(r)' /\ ~Negotiating(r) /\ Listed(r) /\ Listed(r)' /\ r \in Granted'
            /\ r \notin ToSet(queue') /\ \A a \in Attempts : ~(Under(a)' /\ attempts'[a].row = r)
        BY <1>1, <1>4, <1>7, <1>9, <2>2, <2>3, <3>1, <3>2 DEF Single, Wanted, Busy
      <4>2. OnceMeant(r)'
        BY <1>13, <4>1 DEF OnceMeant, Negotiating
      <4>3. ~InFlight(r)'
        BY <2>1, <4>1 DEF InFlight
      <4>4. Single(q)'
        BY <3>2, <4>1, <4>2 DEF Single, OnceMeant, AskingFor
      <4> QED BY <3>2, <4>1, <4>3, <4>4 DEF Seen, Wanted
    <3>3. CASE q # r
      <4>1. OnceAsked(q) /\ OnceMeant(q)
        BY <3>1 DEF Single, OnceAsked, OnceMeant
      <4>2. OnceMeant(q)'
        BY <1>3, <1>13, <3>3, <4>1 DEF OnceMeant
      <4> QED BY <1>1, <1>4, <1>5, <1>8, <1>13, <2>1, <2>2, <2>9, <3>1, <3>3, <4>1, <4>2, RowStays
    <3> QED BY <3>2, <3>3
  <2>11. Uncrossed'
    BY <1>4, <2>10 DEF Uncrossed
  <2>12. RequestedIsWatched'
    BY <1>1, <1>8, <2>1, <2>9 DEF Inv, RequestedIsWatched
  <2>13. QueueIsListed'
    <3>1. ToSet(queue) \subseteq Rows
      BY <1>2 DEF TypePending, ToSet, Rows
    <3> QED BY <1>1, <2>3, <3>1 DEF Inv, QueueIsListed
  <2> QED BY <2>2, <2>5, <2>6, <2>7, <2>8, <2>11, <2>12, <2>13 DEF Inv
<1>14. \/ /\ Starts(plan, 0) /\ mixed' = Misses(plan, 0)
          /\ UNCHANGED <<part, spoiled, resumes, agreed, accepts>>
       \/ /\ \A e \in held : e.row = r
          /\ rows' = Patched(r, "requested")
          /\ resumes' = (resumes \ held) \cup {plan}
          /\ UNCHANGED <<native, handle, cancelled>>
          /\ accepts' \subseteq Rows /\ agreed' \in [Rows -> 0..Size]
  <2>1. CASE already \in 1..(Size - 1) /\ (\A e \in held : e.row = plan.row)
             /\ rows' = Patched(plan.row, "requested")
             /\ resumes' = (resumes \ held) \cup {plan}
             /\ UNCHANGED <<native, handle, cancelled>>
             /\ IF held # {} THEN UNCHANGED <<agreed, accepts>>
                ELSE \/ /\ accepts' = accepts \cup {n}
                        /\ \E position \in 0..already : agreed' = [agreed EXCEPT ![n] = position]
                     \/ UNCHANGED <<agreed, accepts>>
    <3>1. 0..already \subseteq 0..Size
      BY <2>1, NoneIs
    <3>2. accepts' \subseteq Rows /\ agreed' \in [Rows -> 0..Size]
      BY <1>2, <1>3, <2>1, <3>1 DEF TypeBot
    <3> QED BY <1>3, <2>1, <3>2
  <2> QED BY <1>1, <1>b, <2>1 DEF ShellAnswers
<1> QED BY <1>12, <1>13, <1>14

\* The negotiations of no one name are left for others.
LEMMA MeantGoes ==
    ASSUME Inv, NEW e \in resumes, resumes' \subseteq resumes, e \notin resumes',
           \A f \in resumes : f = e \/ f \in resumes'
    PROVE  /\ e \in Plans /\ Negotiating(e.row)
           /\ e.row \in Names => e.name = e.row
           /\ e.row \notin crossed => ~Negotiating(e.row)' /\ ~AskingFor(e.row)
           /\ \A q : q # e.row /\ Negotiating(q) => Negotiating(q)'
<1>1. e \in Plans
  BY DEF Inv, Typed, TypePending
<1>2. Negotiating(e.row)
  BY DEF Negotiating
<1>3. e.row \in Names => e.name = e.row
  BY DEF Inv, NamesKept
<1>4. ASSUME e.row \notin crossed PROVE ~Negotiating(e.row)' /\ ~AskingFor(e.row)
  <2>1. Single(e.row)
    BY <1>1, <1>4 DEF Inv, Uncrossed, Plans
  <2> QED BY <1>2, <2>1 DEF Single, Negotiating
<1>5. \A q : q # e.row /\ Negotiating(q) => Negotiating(q)'
  BY DEF Negotiating
<1> QED BY <1>1, <1>2, <1>3, <1>4, <1>5

\* A negotiation ends in a transfer.
LEMMA NegotiatedKeeps ==
    ASSUME Inv, NEW e \in resumes, NEW from \in 0..Size, resumes' = resumes \ {e},
           Starts(e, from), mixed' = Misses(e, from),
           UNCHANGED <<part, spoiled, queue, watchdogs, asking, network, ghosts, acts>>, TypeBot'
    PROVE  Inv'
<1>1. /\ e \in Plans /\ Negotiating(e.row)
      /\ e.row \in Names => e.name = e.row
      /\ e.row \notin crossed => ~Negotiating(e.row)' /\ ~AskingFor(e.row)
      /\ \A q : q # e.row /\ Negotiating(q) => Negotiating(q)'
  BY MeantGoes
<1>2. asking' = asking /\ Granted' = Granted /\ crossed' = crossed /\ acts' = acts
  BY DEF ghosts, Granted
<1>3. TypePending' /\ TypeGhosts'
  BY <1>2 DEF Inv, Typed, TypePending, TypeGhosts
<1>4. \A q : (AskingFor(q)' <=> AskingFor(q)) /\ (OnceAsked(q)' <=> OnceAsked(q))
  BY <1>2 DEF AskingFor, OnceAsked
<1>5. \A k \in DOMAIN asking' : \E j \in DOMAIN asking : asking'[k] = asking[j]
  BY <1>2
<1>6. \A q \in Rows \ {e.row} : /\ OnceAsked(q) => OnceAsked(q)'
                                /\ AskingFor(q) => AskingFor(q)'
                                /\ Negotiating(q) => Negotiating(q)'
  BY <1>1, <1>4
<1>7. e.row \notin crossed => ~AskingFor(e.row)' /\ ~Negotiating(e.row)'
  BY <1>1, <1>4
<1>8. UNCHANGED <<part, spoiled, queue, watchdogs, network, Granted, crossed>> /\ resumes' \subseteq resumes
  BY <1>2
<1> QED BY <1>1, <1>3, <1>5, <1>6, <1>7, <1>8, StartsKeeps

LEMMA ResumeGivesUpKeeps ==
    ASSUME Inv, NEW r \in Rows, ResumeGivesUp(r)
    PROVE  Inv'
<1>1. PICK e \in resumes :
         /\ resumes' = resumes \ {e} /\ Starts(e, 0) /\ mixed' = Misses(e, 0)
         /\ UNCHANGED <<part, spoiled, queue, watchdogs, asking, bot, network, ghosts, acts>>
  BY DEF ResumeGivesUp
<1>2. TypeBot'
  BY <1>1 DEF Inv, Typed, TypeBot, bot
<1>3. 0 \in 0..Size
  BY NoneIs
<1> QED BY <1>1, <1>2, <1>3, NegotiatedKeeps

\* Nothing that the invariant is about happens, but at the bot.
LEMMA BesideKeeps ==
    ASSUME Inv, UNCHANGED <<native, screen, pending, network, ghosts>>, TypeBot', acts' \in 0..Acts
    PROVE  Inv'
<1>1. UNCHANGED native /\ UNCHANGED <<rows, handle, cancelled>>
      /\ UNCHANGED <<queue, watchdogs, asking, resumes>> /\ UNCHANGED <<network, Granted, crossed>>
  BY DEF screen, pending, ghosts, Granted
<1>2. NativeTypeOK' /\ Unmixed'
      /\ \A a \in Attempts : attempts'[a] = attempts[a] /\ (Under(a)' <=> Under(a))
                             /\ (Running(a)' <=> Running(a))
  BY <1>1, NativeStays DEF Inv, Typed
<1>3. Typed'
  BY <1>1, <1>2 DEF Inv, Typed, TypeScreen, TypePending, TypeGhosts
<1>4. (\A q : (Listed(q)' <=> Listed(q)) /\ (AskingFor(q)' <=> AskingFor(q))
             /\ (Negotiating(q)' <=> Negotiating(q)))
  BY <1>1 DEF Listed, AskingFor, Negotiating
<1>5. Gone' /\ RequestedIsWatched' /\ QueueIsListed'
  BY <1>1, <1>4 DEF Inv, Gone, RequestedIsWatched, QueueIsListed
<1>6. NamesKept'
  BY <1>1, <1>2, <1>4 DEF Inv, NamesKept
<1>7. Handles'
  BY <1>1, <1>2 DEF Inv, Typed, TypeScreen, Handles, Under
<1>8. ASSUME NEW q \in Rows \ crossed' PROVE Single(q)' /\ Seen(q)' /\ Wanted(q)'
  <2>1. Single(q) /\ Seen(q) /\ Wanted(q)
    BY <1>1 DEF Inv, Uncrossed
  <2>2. OnceAsked(q)' /\ OnceMeant(q)'
    BY <1>1, <2>1, OnceStays
  <2> QED BY <1>1, <1>2, <1>4, <2>1, <2>2, RowStays
<1>9. Uncrossed'
  BY <1>8 DEF Uncrossed
<1> QED BY <1>2, <1>3, <1>5, <1>6, <1>7, <1>9 DEF Inv

LEMMA ReadsAcceptKeeps ==
    ASSUME Inv, ReadsAccept
    PROVE  Inv'
<1> DEFINE Of(n) == {e \in resumes : e.name = n}
           Meant(n) == IF Of(n) # {} THEN Of(n) ELSE {e \in resumes : resumes = {e}}
<1>1. PICK n \in accepts :
         /\ network /\ accepts' = accepts \ {n}
         /\ resumes' = resumes \ Meant(n)
         /\ IF Meant(n) = {} THEN UNCHANGED <<attempts, mixed, screen>>
            ELSE \E e \in Meant(n) :
                    Starts(e, agreed[n]) /\ mixed' = Misses(e, agreed[n])
         /\ UNCHANGED <<part, spoiled, queue, watchdogs, asking, network>>
         /\ UNCHANGED <<queued, holds, offers, agreed, ghosts, acts>>
  BY DEF ReadsAccept
<1>2. TypeBot' /\ agreed[n] \in 0..Size /\ acts' \in 0..Acts
  BY <1>1 DEF Inv, Typed, TypeBot, TypeGhosts
<1>3. CASE Meant(n) = {}
  <2>1. UNCHANGED <<native, screen, pending, network, ghosts>>
    BY <1>1, <1>3 DEF native, pending
  <2> QED BY <1>2, <2>1, BesideKeeps
<1>4. CASE Meant(n) # {}
  <2>1. PICK e \in Meant(n) : Starts(e, agreed[n]) /\ mixed' = Misses(e, agreed[n])
    BY <1>1, <1>4
  <2>2. e \in resumes
    OBVIOUS
  <2>3. Meant(n) = {e}
    <3>1. \A f, g \in resumes : f.name = g.name => f = g
      BY DEF Inv, Typed, TypePending
    <3> QED BY <3>1
  <2>4. resumes' = resumes \ {e}
    BY <1>1, <2>3
  <2> HIDE DEF Meant
  <2> QED BY <1>1, <1>2, <2>1, <2>2, <2>4, NegotiatedKeeps
<1> QED BY <1>3, <1>4

LEMMA BotKeeps ==
    ASSUME Inv, BotOpens \/ BotOffers \/ BotGivesUp
    PROVE  Inv'
<1>1. UNCHANGED <<native, screen, pending, network, ghosts>>
  BY DEF BotOpens, BotOffers, BotGivesUp, Same
<1>2. acts' \in 0..Acts
  BY TransfersAssumption DEF BotOpens, BotOffers, BotGivesUp, Act, Inv, Typed, TypeGhosts
<1>3. File \in Rows /\ Names \subseteq Rows /\ 0 \in 0..Size /\ File \in Names
  BY TransfersAssumption, NoneIs DEF Rows
<1>4. TypeBot'
  <2>0. TypeBot
    BY DEF Inv, Typed
  <2>1. CASE BotOpens
    BY <1>3, <2>0, <2>1 DEF BotOpens, TypeBot
  <2>2. CASE BotOffers
    BY <1>3, <2>0, <2>2 DEF BotOffers, TypeBot
  <2>3. CASE BotGivesUp
    BY <2>0, <2>3 DEF BotGivesUp, TypeBot
  <2> QED BY <2>1, <2>2, <2>3
<1> QED BY <1>1, <1>2, <1>4, BesideKeeps

----------------------------------------------------------------------------
(* Rows that change.                                                       *)

\* A row changes, and what is under way does not.
LEMMA RowKeeps ==
    ASSUME Inv, NEW r \in Rows,
           UNCHANGED <<native, handle, cancelled, asking, resumes, network>>,
           rows' \in [Rows -> RowRec], \A q \in Rows \ {r} : rows'[q] = rows[q],
           queue' \in Seq(Packs), watchdogs' \subseteq Rows, TypeBot', TypeGhosts',
           \A q : q \in ToSet(queue') => q \in ToSet(queue) \/ q = r,
           \A q \in Rows \ {r} : q \in watchdogs => q \in watchdogs',
           Granted \subseteq Granted', crossed \subseteq crossed',
           rows'[r].name = None <=> ~Listed(r)', r \in Names /\ Listed(r)' => rows'[r].name = r,
           rows'[r].status = "requested" => r \in watchdogs' \/ AskingFor(r) \/ Negotiating(r),
           network /\ r \in ToSet(queue') => Listed(r)',
           ~network => rows' = rows,
           r \notin crossed' =>
              /\ Listed(r) => Listed(r)'
              /\ r \in ToSet(queue') => ~Busy(r)
              /\ InFlight(r)' => handle[r] # None
              /\ \A a \in Attempts : Under(a) /\ attempts[a].row = r => (r \notin cancelled <=> InFlight(r)')
              /\ Wanted(r)'
    PROVE  Inv'
<1>1. NativeTypeOK' /\ Unmixed'
      /\ \A a \in Attempts : attempts'[a] = attempts[a] /\ (Under(a)' <=> Under(a))
                             /\ (Running(a)' <=> Running(a))
  BY NativeStays DEF Inv, Typed
<1>2. Typed'
  BY <1>1 DEF Inv, Typed, TypeScreen, TypePending
<1>3. \A q : (AskingFor(q)' <=> AskingFor(q)) /\ (Negotiating(q)' <=> Negotiating(q))
  BY DEF AskingFor, Negotiating
<1>4. \A q \in Rows \ {r} : (Listed(q)' <=> Listed(q))
  BY DEF Listed
<1>5. Gone'
  <2>1. ~network => \A q \in Rows : (Listed(q)' <=> Listed(q))
    BY DEF Listed
  <2>2. crossed' \subseteq Rows
    BY DEF TypeGhosts
  <2> QED BY <2>1, <2>2 DEF Inv, Gone
<1>6. NamesKept'
  <2>1. NamesKept
    BY DEF Inv
  <2>2. \A q \in Rows : rows'[q].name = None <=> ~Listed(q)'
    BY <1>4, <2>1 DEF NamesKept
  <2>3. \A q \in Names : Listed(q)' => rows'[q].name = q
    BY <1>4, <2>1 DEF NamesKept, Rows
  <2> QED BY <1>1, <2>1, <2>2, <2>3 DEF NamesKept
<1>7. Handles'
  BY <1>1 DEF Inv, Typed, TypeScreen, Handles, Under
<1>8. ASSUME NEW q \in Rows \ crossed' PROVE Single(q)' /\ Seen(q)' /\ Wanted(q)'
  <2>1. Single(q) /\ Seen(q) /\ Wanted(q)
    BY <1>8 DEF Inv, Uncrossed
  <2>2. OnceAsked(q)' /\ OnceMeant(q)'
    BY <2>1, OnceStays
  <2>3. CASE q = r
    <3>1. Busy(r)' <=> Busy(r)
      BY <1>1, <1>3 DEF Busy
    <3>2. \A a \in Attempts : Under(a)' /\ attempts'[a].row = r =>
             ~AskingFor(r)' /\ ~Negotiating(r)' /\ handle'[r] = a
      BY <1>1, <1>3, <2>1, <2>3 DEF Single
    <3>3. ~(AskingFor(r)' /\ Negotiating(r)') /\ (AskingFor(r)' \/ Negotiating(r)' => Listed(r)')
      BY <1>3, <1>8, <2>1, <2>3 DEF Single
    <3>4. Single(r)'
      BY <1>8, <2>2, <2>3, <3>1, <3>2, <3>3 DEF Single, OnceAsked, OnceMeant
    <3>5. Seen(r)'
      BY <1>1, <1>8, <2>1, <2>3 DEF Seen
    <3> QED BY <1>8, <2>3, <3>4, <3>5
  <2>4. CASE q # r
    BY <1>1, <1>3, <1>8, <2>1, <2>2, <2>4, RowStays
  <2> QED BY <2>3, <2>4
<1>9. Uncrossed'
  BY <1>8 DEF Uncrossed
<1>10. RequestedIsWatched'
  BY <1>3 DEF Inv, RequestedIsWatched
<1>11. QueueIsListed'
  <2>1. ToSet(queue') \subseteq Rows
    BY DEF ToSet, Rows
  <2> QED BY <1>4, <2>1 DEF Inv, QueueIsListed
<1> QED BY <1>1, <1>2, <1>5, <1>6, <1>7, <1>9, <1>10, <1>11 DEF Inv

LEMMA ReadsNoticeKeeps ==
    ASSUME Inv, ReadsNotice
    PROVE  Inv'
<1>1. PICK r \in Packs, kind \in {"sending", "queued", "dropped"} :
       /\ network /\ Act
       /\ queued' = IF kind = "dropped" THEN queued \ {r} ELSE queued
       /\ IF r \in ToSet(queue) /\ rows[r].status = "requested"
          THEN /\ rows' = IF kind = "dropped" THEN Patched(r, "failed")
                          ELSE [Patched(r, "requested") EXCEPT ![r].awaiting = (kind = "sending")]
               /\ queue' = IF kind = "dropped" THEN Unqueued({r}) ELSE queue
               /\ watchdogs' = IF kind = "dropped" THEN watchdogs \ {r} ELSE watchdogs \cup {r}
          ELSE UNCHANGED <<rows, queue, watchdogs>>
       /\ UNCHANGED <<asking, resumes, holds, offers, accepts, agreed>>
       /\ UNCHANGED <<native, handle, cancelled, ghosts, network>>
  BY DEF ReadsNotice
<1>2. r \in Rows
  BY DEF Rows
<1>3. TypeScreen /\ TypePending /\ TypeBot /\ TypeGhosts
  BY DEF Inv, Typed
<1>4. TypeBot' /\ acts' \in 0..Acts /\ Granted' = Granted /\ crossed' = crossed
  BY <1>1, <1>3, TransfersAssumption DEF TypeBot, TypeGhosts, Act, ghosts, Granted
<1>5. CASE r \in ToSet(queue) /\ rows[r].status = "requested"
  <2>1. Listed(r) /\ rows[r].name # None
    BY <1>2, <1>5 DEF Listed, Inv, NamesKept
  <2>2. /\ rows' \in [Rows -> RowRec] /\ \A q \in Rows \ {r} : rows'[q] = rows[q]
        /\ rows'[r].name = rows[r].name
        /\ rows'[r].status = IF kind = "dropped" THEN "failed" ELSE "requested"
    <3>1. CASE kind = "dropped"
      BY <1>1, <1>2, <1>3, <1>5, <2>1, <3>1, PatchedIs DEF TypeScreen, Statuses
    <3>2. CASE kind # "dropped"
      <4> DEFINE patched == Patched(r, "requested")
                 row == [patched[r] EXCEPT !.awaiting = (kind = "sending")]
      <4>1. /\ patched \in [Rows -> RowRec] /\ \A q \in Rows \ {r} : patched[q] = rows[q]
            /\ patched[r].status = "requested" /\ patched[r].name = rows[r].name
        BY <1>2, <1>3, <2>1, PatchedIs DEF TypeScreen, Statuses
      <4>2. rows' = [patched EXCEPT ![r] = row]
        BY <1>1, <1>5, <3>2
      <4> HIDE DEF patched
      <4>3. row \in RowRec /\ row.status = "requested" /\ row.name = rows[r].name
        <5>1. patched[r] \in RowRec
          BY <1>2, <4>1
        <5> QED BY <4>1, <5>1 DEF RowRec
      <4> HIDE DEF row
      <4> QED BY <1>2, <3>2, <4>1, <4>2, <4>3
    <3> QED BY <3>1, <3>2
  <2>3. Listed(r)' /\ ~InFlight(r)' /\ ~InFlight(r)
    BY <1>5, <2>2 DEF Listed, InFlight
  <2>4. queue' \in Seq(Packs) /\ ToSet(queue') \subseteq ToSet(queue)
    BY <1>1, <1>3, <1>5, UnqueuedIs DEF TypePending
  <2>5. watchdogs' \subseteq Rows /\ (\A q \in Rows \ {r} : q \in watchdogs => q \in watchdogs')
        /\ (rows'[r].status = "requested" => r \in watchdogs')
    BY <1>1, <1>2, <1>3, <1>5, <2>2 DEF TypePending
  <2>6. r \notin crossed => /\ ~Busy(r) /\ r \in Granted
                            /\ \A a \in Attempts : ~(Under(a) /\ attempts[a].row = r)
    BY <1>2, <1>5 DEF Inv, Uncrossed, Single, Wanted, Busy
  <2>7. r \in Names => rows'[r].name = r
    BY <2>1, <2>2 DEF Inv, NamesKept
  <2>8. r \notin crossed' => Wanted(r)'
    BY <1>4, <2>6 DEF Wanted
  <2>9. TypeGhosts'
    BY <1>3, <1>4 DEF TypeGhosts
  <2>10. UNCHANGED <<native, handle, cancelled, asking, resumes, network>>
    BY <1>1
  <2> QED BY <1>1, <1>2, <1>4, <2>1, <2>2, <2>3, <2>4, <2>5, <2>6, <2>7, <2>8, <2>9, <2>10, RowKeeps
<1>6. CASE ~(r \in ToSet(queue) /\ rows[r].status = "requested")
  <2>1. UNCHANGED <<native, screen, pending, network, ghosts>>
    BY <1>1, <1>6 DEF screen, pending
  <2> QED BY <1>4, <2>1, BesideKeeps
<1> QED BY <1>5, <1>6

LEMMA WatchdogFiresKeeps ==
    ASSUME Inv, WatchdogFires
    PROVE  Inv'
<1>1. PICK r \in watchdogs :
       /\ watchdogs' = watchdogs \ {r}
       /\ rows' = IF rows[r].status = "requested" THEN Patched(r, "failed") ELSE rows
       /\ UNCHANGED <<native, handle, cancelled, queue, asking, resumes, bot, network, ghosts, acts>>
  BY DEF WatchdogFires
<1>2. TypeScreen /\ TypePending /\ TypeBot /\ TypeGhosts
  BY DEF Inv, Typed
<1>3. r \in Rows
  BY <1>2 DEF TypePending
<1>4. TypeBot' /\ TypeGhosts' /\ Granted' = Granted /\ crossed' = crossed
  BY <1>1, <1>2 DEF TypeBot, TypeGhosts, bot, ghosts, Granted
<1>5. /\ rows' \in [Rows -> RowRec] /\ \A q \in Rows \ {r} : rows'[q] = rows[q]
      /\ rows'[r].name = rows[r].name
      /\ rows'[r].status = IF rows[r].status = "requested" THEN "failed" ELSE rows[r].status
  <2>1. rows[r].status = "requested" => Listed(r)
    BY DEF Listed
  <2> QED BY <1>1, <1>2, <1>3, <2>1, PatchedIs DEF TypeScreen, Statuses
<1>6. (Listed(r)' <=> Listed(r)) /\ (InFlight(r)' <=> InFlight(r)) /\ rows'[r].status # "requested"
  BY <1>5 DEF Listed, InFlight
<1>7. r \notin crossed =>
         /\ r \in ToSet(queue) => ~Busy(r)
         /\ InFlight(r) => handle[r] # None
         /\ \A a \in Attempts : Under(a) /\ attempts[a].row = r => (r \notin cancelled <=> InFlight(r))
  BY <1>3 DEF Inv, Uncrossed, Single, Seen
<1>8. r \notin crossed' => Wanted(r)'
  <2>1. AskingFor(r)' <=> AskingFor(r)
    BY <1>1 DEF AskingFor
  <2>2. Negotiating(r)' <=> Negotiating(r)
    BY <1>1 DEF Negotiating
  <2> QED BY <1>1, <1>3, <1>4, <1>5, <2>1, <2>2 DEF Inv, Uncrossed, Wanted
<1>9. (rows'[r].name = None <=> ~Listed(r)') /\ (r \in Names /\ Listed(r)' => rows'[r].name = r)
  BY <1>3, <1>5, <1>6 DEF Inv, NamesKept
<1>10. network /\ r \in ToSet(queue') => Listed(r)'
  BY <1>1, <1>6 DEF Inv, QueueIsListed
<1>11. ~network => rows' = rows
  BY <1>1, <1>3 DEF Inv, Gone, Listed
<1>12. queue' \in Seq(Packs) /\ watchdogs' \subseteq Rows
       /\ (\A q \in Rows \ {r} : q \in watchdogs => q \in watchdogs')
       /\ (\A q : q \in ToSet(queue') => q \in ToSet(queue) \/ q = r)
  BY <1>1, <1>2 DEF TypePending
<1>13. UNCHANGED <<native, handle, cancelled, asking, resumes, network>> /\ queue' = queue
  BY <1>1
<1> QED BY <1>3, <1>4, <1>5, <1>6, <1>7, <1>8, <1>9, <1>10, <1>11, <1>12, <1>13, RowKeeps

LEMMA ReadsCatalogueKeeps ==
    ASSUME Inv, ReadsCatalogue
    PROVE  Inv'
<1>1. PICK r \in Packs :
       /\ network /\ ~Listed(r) /\ Act
       /\ rows' = [rows EXCEPT ![r] = [Absent EXCEPT !.status = "available", !.name = File]]
       /\ UNCHANGED <<native, handle, cancelled, pending, bot, ghosts, network>>
  BY DEF ReadsCatalogue
<1>2. TypeScreen /\ TypePending /\ TypeBot /\ TypeGhosts
  BY DEF Inv, Typed
<1>3. r \in Rows /\ r \notin Names
  BY DownloadAssumption DEF Rows
<1>4. TypeBot' /\ TypeGhosts' /\ Granted' = Granted /\ crossed' = crossed
  BY <1>1, <1>2, TransfersAssumption DEF TypeBot, TypeGhosts, bot, ghosts, Act, Granted
<1>5. UNCHANGED <<queue, watchdogs, asking, resumes>>
  BY <1>1 DEF pending
<1>6. /\ rows' \in [Rows -> RowRec] /\ \A q \in Rows \ {r} : rows'[q] = rows[q]
      /\ rows'[r].name = File /\ rows'[r].status = "available"
  <2> DEFINE row == [[Absent EXCEPT !.status = "available"] EXCEPT !.name = File]
  <2>1. row \in RowRec /\ row.name = File /\ row.status = "available"
    BY TransfersAssumption DEF Absent, RowRec, Statuses, Rows
  <2>2. rows' = [rows EXCEPT ![r] = row]
    BY <1>1
  <2> HIDE DEF row
  <2> QED BY <1>2, <1>3, <2>1, <2>2 DEF TypeScreen
<1>7. Listed(r)' /\ ~InFlight(r)' /\ rows'[r].name # None
  BY <1>6, TransfersAssumption, NoneIs DEF Listed, InFlight, Rows
<1>8. r \notin ToSet(queue)
  BY <1>1 DEF Inv, QueueIsListed
<1>9. r \notin crossed =>
         /\ ~AskingFor(r) /\ ~Negotiating(r)
         /\ \A a \in Attempts : Under(a) /\ attempts[a].row = r => r \in cancelled
  BY <1>1, <1>3 DEF Inv, Uncrossed, Single, Seen, InFlight, Listed
<1>10. r \notin crossed' => Wanted(r)'
  BY <1>4, <1>5, <1>6, <1>8, <1>9 DEF Wanted, AskingFor, Negotiating
<1>11. queue' \in Seq(Packs) /\ watchdogs' \subseteq Rows
       /\ (\A q \in Rows \ {r} : q \in watchdogs => q \in watchdogs')
       /\ (\A q : q \in ToSet(queue') => q \in ToSet(queue) \/ q = r)
  BY <1>2, <1>5 DEF TypePending
<1>12. UNCHANGED <<native, handle, cancelled, asking, resumes, network>> /\ queue' = queue
  BY <1>1, <1>5
<1> QED BY <1>1, <1>3, <1>4, <1>6, <1>7, <1>8, <1>9, <1>10, <1>11, <1>12, RowKeeps

LEMMA QueuedIs ==
    ASSUME queue \in Seq(Packs), NEW r \in Packs, queue' = Append(queue, r)
    PROVE  queue' \in Seq(Packs) /\ \A q : q \in ToSet(queue') => q \in ToSet(queue) \/ q = r
<1> DEFINE n == Len(queue)
<1>1. /\ n \in Nat /\ queue' \in Seq(Packs) /\ DOMAIN queue = 1..n /\ DOMAIN queue' = 1..(n + 1)
      /\ queue'[n + 1] = r /\ \A i \in 1..n : queue'[i] = queue[i]
  OBVIOUS
<1>2. \A i \in 1..(n + 1) : i \in 1..n \/ i = n + 1
  BY <1>1
<1> HIDE DEF n
<1> QED BY <1>1, <1>2 DEF ToSet

\* A row is asked for: it waits, watched.
LEMMA RequestsKeeps ==
    ASSUME Inv, NEW r \in Packs, network, Requests(r), Act, UNCHANGED native,
           rows' \in [Rows -> RowRec], \A q \in Rows \ {r} : rows'[q] = rows[q],
           rows'[r].status = "requested", rows'[r].name # None,
           crossed' = IF Busy(r) THEN crossed \cup {r} ELSE crossed
    PROVE  Inv'
<1>1. /\ queue' = Append(queue, r)
      /\ watchdogs' = watchdogs \cup {r}
      /\ queued' = IF holds = r THEN queued ELSE queued \cup {r}
      /\ Granted' = Granted \cup {r}
      /\ UNCHANGED <<native, handle, cancelled, asking, resumes, network>>
      /\ UNCHANGED <<holds, offers, accepts, agreed>>
  BY DEF Requests, Granted
<1>2. TypeScreen /\ TypePending /\ TypeBot /\ TypeGhosts
  BY DEF Inv, Typed
<1>3. r \in Rows /\ r \notin Names
  BY DownloadAssumption DEF Rows
<1>4. queue' \in Seq(Packs) /\ \A q : q \in ToSet(queue') => q \in ToSet(queue) \/ q = r
  BY <1>1, <1>2, QueuedIs DEF TypePending
<1>5. TypeBot'
  BY <1>1, <1>2 DEF TypeBot
<1>6. TypeGhosts'
  BY <1>1, <1>2, <1>3, TransfersAssumption DEF TypeGhosts, Act
<1>7. Listed(r)' /\ ~InFlight(r)'
  BY DEF Listed, InFlight
<1>8. r \notin crossed' => ~Busy(r) /\ \A a \in Attempts : ~(Under(a) /\ attempts[a].row = r)
  BY <1>3 DEF Busy
<1>9. Wanted(r)'
  BY <1>1 DEF Wanted
<1>10. watchdogs' \subseteq Rows /\ r \in watchdogs' /\ Granted \subseteq Granted' /\ crossed \subseteq crossed'
       /\ (\A q \in Rows \ {r} : q \in watchdogs => q \in watchdogs')
  BY <1>1, <1>2, <1>3 DEF TypePending
<1>11. UNCHANGED <<native, handle, cancelled, asking, resumes, network>>
  BY <1>1
<1> QED BY <1>3, <1>4, <1>5, <1>6, <1>7, <1>8, <1>9, <1>10, <1>11, RowKeeps

LEMMA TypesKeeps ==
    ASSUME Inv, NEW r \in Rows, Types(r)
    PROVE  Inv'
<1>1. /\ r \in Packs /\ network /\ Act /\ Requests(r)
      /\ rows' = [rows EXCEPT ![r].status = "requested", ![r].awaiting = FALSE,
                              ![r].name = IF Listed(r) THEN rows[r].name ELSE r]
      /\ crossed' = IF Busy(r) THEN crossed \cup {r} ELSE crossed
  BY DEF Types
<1>2. rows \in [Rows -> RowRec] /\ rows[r] \in RowRec
  BY DEF Inv, Typed, TypeScreen
<1> DEFINE row == [rows[r] EXCEPT !.status = "requested", !.awaiting = FALSE,
                                 !.name = IF Listed(r) THEN rows[r].name ELSE r]
<1>5. rows' = [rows EXCEPT ![r] = row]
  BY <1>1, <1>2
<1>6. row \in RowRec /\ row.status = "requested" /\ row.name = IF Listed(r) THEN rows[r].name ELSE r
  BY <1>2 DEF RowRec, Statuses
<1> HIDE DEF row
<1>7. row.name # None
  BY <1>6, NoneIs DEF Inv, NamesKept
<1>8. rows' \in [Rows -> RowRec] /\ (\A q \in Rows \ {r} : rows'[q] = rows[q]) /\ rows'[r] = row
  BY <1>2, <1>5, <1>6
<1>9. UNCHANGED native
  BY <1>1 DEF Requests
<1> QED BY <1>1, <1>6, <1>7, <1>8, <1>9, RequestsKeeps

\* An offer is taken up for a row that has no request in the queue.
LEMMA BeginsKeeps ==
    ASSUME Inv, NEW plan \in Plans, Begins(plan), network, Listed(plan.row),
           plan.row \in Names => plan.name = plan.row,
           UNCHANGED <<native, rows, handle, cancelled, network>>,
           queue' \in Seq(Packs), \A q : q \in ToSet(queue') => q \in ToSet(queue),
           plan.row \notin crossed => plan.row \notin ToSet(queue') /\ plan.row \in Granted',
           Granted \subseteq Granted', Granted' \subseteq Rows, TypeBot', acts' \in 0..Acts
    PROVE  Inv'
<1> DEFINE r == plan.row
           n == plan.name
           held == {e \in resumes : e.name = n}
<1>1. r \in Rows /\ n \in Rows
  BY DEF Plans
<1>2. TypeScreen /\ TypePending /\ TypeBot /\ TypeGhosts /\ NativeTypeOK /\ Unmixed
  BY DEF Inv, Typed
<1>3. NativeTypeOK' /\ Unmixed'
      /\ \A a \in Attempts : attempts'[a] = attempts[a] /\ (Under(a)' <=> Under(a))
                             /\ (Running(a)' <=> Running(a))
  BY <1>2, NativeStays
<1>4. watchdogs' = watchdogs \ {r}
  BY DEF Begins
<1>5. \A q : (Listed(q)' <=> Listed(q)) /\ (InFlight(q)' <=> InFlight(q))
  BY DEF Listed, InFlight
<1>6. Gone'
  BY DEF Gone
<1>7. Handles'
  BY <1>2, <1>3 DEF Inv, TypeScreen, Handles, Under
<1>8. QueueIsListed'
  BY <1>5 DEF Inv, QueueIsListed
<1>9. ASSUME TypePending', crossed' \subseteq Rows, crossed \subseteq crossed',
             \A i \in DOMAIN asking' : asking'[i] = plan \/ \E j \in DOMAIN asking : asking'[i] = asking[j],
             \A e \in resumes' : e = plan \/ e \in resumes,
             AskingFor(r)' \/ Negotiating(r)',
             \A q \in Rows \ {r} : /\ OnceAsked(q) => OnceAsked(q)'
                                   /\ OnceMeant(q) => OnceMeant(q)'
                                   /\ AskingFor(q)' <=> AskingFor(q)
                                   /\ Negotiating(q)' <=> Negotiating(q),
             r \notin crossed' => /\ OnceAsked(r)' /\ OnceMeant(r)'
                                  /\ ~(AskingFor(r)' /\ Negotiating(r)')
                                  /\ \A a \in Attempts : ~(Under(a) /\ attempts[a].row = r)
      PROVE  Inv'
  <2>1. Typed'
    BY <1>2, <1>3, <1>9 DEF Typed, TypeScreen, TypeGhosts
  <2>2. NamesKept'
    <3>1. NamesKept
      BY DEF Inv
    <3>2. \A i \in DOMAIN asking' : asking'[i].row \in Names => asking'[i].name = asking'[i].row
      BY <1>9, <3>1 DEF NamesKept
    <3>3. \A e \in resumes' : e.row \in Names => e.name = e.row
      BY <1>9, <3>1 DEF NamesKept
    <3> QED BY <1>3, <1>5, <3>1, <3>2, <3>3 DEF NamesKept
  <2>3. ASSUME NEW q \in Rows \ crossed' PROVE Single(q)' /\ Seen(q)' /\ Wanted(q)'
    <3>1. Single(q) /\ Seen(q) /\ Wanted(q)
      BY <1>9, <2>3 DEF Inv, Uncrossed
    <3>2. CASE q = r
      <4>1. r \notin ToSet(queue') /\ r \in Granted' /\ Listed(r)'
        BY <1>5, <1>9, <2>3, <3>2
      <4>2. \A a \in Attempts : ~(Under(a)' /\ attempts'[a].row = r)
        BY <1>3, <1>9, <2>3, <3>2
      <4>3. Single(r)'
        BY <1>9, <2>3, <3>2, <4>1, <4>2 DEF Single, OnceAsked, OnceMeant
      <4>4. Seen(r)'
        BY <1>5, <3>1, <3>2, <4>2 DEF Seen
      <4> QED BY <3>2, <4>1, <4>3, <4>4 DEF Wanted
    <3>3. CASE q # r
      <4>1. OnceAsked(q) /\ OnceMeant(q)
        BY <3>1 DEF Single, OnceAsked, OnceMeant
      <4> QED BY <1>3, <1>9, <3>1, <3>3, <4>1, RowStays
    <3> QED BY <3>2, <3>3
  <2>4. Uncrossed'
    BY <2>3 DEF Uncrossed
  <2>5. RequestedIsWatched'
    BY <1>4, <1>9 DEF Inv, RequestedIsWatched
  <2> QED BY <1>3, <1>6, <1>7, <1>8, <2>1, <2>2, <2>4, <2>5 DEF Inv
<1>10. CASE \E e \in resumes : e.name = n /\ e.row = r
  <2>1. resumes' = {e \in resumes : e.name # n} \cup {plan} /\ UNCHANGED <<asking, crossed>>
    BY <1>10 DEF Begins
  <2>2. PICK old \in resumes : old.name = n /\ old.row = r
    BY <1>10
  <2>3. \A e \in resumes : e.name = n => e = old
    BY <1>2, <2>2 DEF TypePending
  <2>4. TypePending' /\ crossed' \subseteq Rows
    <3>1. resumes' \subseteq Plans /\ \A e, f \in resumes' : e.name = f.name => e = f
      BY <1>2, <2>1 DEF TypePending
    <3> QED BY <1>2, <1>4, <2>1, <3>1 DEF TypePending, TypeGhosts
  <2>5. \A q : (AskingFor(q)' <=> AskingFor(q)) /\ (OnceAsked(q)' <=> OnceAsked(q))
    BY <2>1 DEF AskingFor, OnceAsked
  <2>6. \A q \in Rows \ {r} : (OnceMeant(q) => OnceMeant(q)') /\ (Negotiating(q)' <=> Negotiating(q))
    BY <2>1, <2>2, <2>3 DEF OnceMeant, Negotiating
  <2>7. Negotiating(r)' /\ Negotiating(r)
    BY <2>1, <2>2 DEF Negotiating
  <2>8. r \notin crossed => /\ OnceAsked(r)' /\ OnceMeant(r)'
                            /\ ~(AskingFor(r)' /\ Negotiating(r)')
                            /\ \A a \in Attempts : ~(Under(a) /\ attempts[a].row = r)
    <3> SUFFICES ASSUME r \notin crossed
                 PROVE  /\ OnceAsked(r)' /\ OnceMeant(r)' /\ ~(AskingFor(r)' /\ Negotiating(r)')
                        /\ \A a \in Attempts : ~(Under(a) /\ attempts[a].row = r)
      OBVIOUS
    <3>1. Single(r)
      BY <1>1 DEF Inv, Uncrossed
    <3>2. OnceMeant(r) /\ OnceAsked(r) /\ ~AskingFor(r)
          /\ \A a \in Attempts : ~(Under(a) /\ attempts[a].row = r)
      BY <2>7, <3>1 DEF Single, OnceMeant, OnceAsked
    <3>3. OnceMeant(r)'
      BY <2>1, <2>2, <2>3, <3>2 DEF OnceMeant
    <3> QED BY <2>5, <3>2, <3>3
  <2>9. /\ \A i \in DOMAIN asking' : \E j \in DOMAIN asking : asking'[i] = asking[j]
        /\ \A e \in resumes' : e = plan \/ e \in resumes
    BY <2>1
  <2> QED BY <1>9, <2>1, <2>4, <2>5, <2>6, <2>7, <2>8, <2>9
<1>11. CASE ~\E e \in resumes : e.name = n /\ e.row = r
  <2>1. /\ Len(asking) < Asks /\ asking' = Append(asking, plan) /\ UNCHANGED resumes
        /\ crossed' = IF Busy(r) THEN crossed \cup {r} ELSE crossed
    BY <1>11 DEF Begins
  <2>2. asking \in Seq(Plans) /\ Len(asking) \in Nat
    BY <1>2 DEF TypePending
  <2>3. /\ asking' \in Seq(Plans) /\ Len(asking') = Len(asking) + 1
        /\ \A k \in DOMAIN asking' : asking'[k] = plan \/ \E j \in DOMAIN asking : asking'[k] = asking[j]
        /\ \A j \in DOMAIN asking : j \in DOMAIN asking' /\ asking'[j] = asking[j]
        /\ AskingFor(r)'
        /\ \A q : q # r /\ OnceAsked(q) => OnceAsked(q)'
        /\ ~AskingFor(r) => OnceAsked(r)'
    BY <2>1, <2>2, AppendedIs
  <2>4. Len(asking') <= Asks
    BY <2>1, <2>2, <2>3, TransfersAssumption
  <2>5. TypePending' /\ crossed' \subseteq Rows /\ crossed \subseteq crossed'
    BY <1>1, <1>2, <1>4, <2>1, <2>3, <2>4 DEF TypePending, TypeGhosts
  <2>6. \A q : (Negotiating(q)' <=> Negotiating(q)) /\ (OnceMeant(q)' <=> OnceMeant(q))
    BY <2>1 DEF Negotiating, OnceMeant
  <2>7. \A q \in Rows \ {r} : AskingFor(q)' <=> AskingFor(q)
    BY <2>3 DEF AskingFor
  <2>8. r \notin crossed' => /\ OnceAsked(r)' /\ OnceMeant(r)'
                             /\ ~(AskingFor(r)' /\ Negotiating(r)')
                             /\ \A a \in Attempts : ~(Under(a) /\ attempts[a].row = r)
    <3> SUFFICES ASSUME r \notin crossed'
                 PROVE  /\ OnceAsked(r)' /\ OnceMeant(r)' /\ ~(AskingFor(r)' /\ Negotiating(r)')
                        /\ \A a \in Attempts : ~(Under(a) /\ attempts[a].row = r)
      OBVIOUS
    <3>1. ~Busy(r) /\ r \notin crossed
      BY <2>1
    <3>2. Single(r)
      BY <1>1, <3>1 DEF Inv, Uncrossed
    <3> QED BY <2>3, <2>6, <3>1, <3>2 DEF Busy, Single, OnceMeant
  <2> QED BY <1>9, <2>1, <2>3, <2>5, <2>6, <2>7, <2>8
<1> QED BY <1>10, <1>11

LEMMA DownloadsKeeps ==
    ASSUME Inv, NEW r \in Rows, Downloads(r)
    PROVE  Inv'
<1>1. network /\ rows[r].status \in {"available", "failed"} /\ Act
  BY DEF Downloads
<1>2. TypeScreen /\ TypePending /\ TypeBot /\ TypeGhosts /\ Listed(r)
  BY <1>1 DEF Inv, Typed, Listed
<1>3. CASE /\ r \in Packs /\ rows' = Patched(r, "requested") /\ Requests(r)
           /\ crossed' = IF Busy(r) THEN crossed \cup {r} ELSE crossed
  <2>1. /\ rows' \in [Rows -> RowRec] /\ \A q \in Rows \ {r} : rows'[q] = rows[q]
        /\ rows'[r].status = "requested" /\ rows'[r].name = rows[r].name
    BY <1>2, <1>3, PatchedIs DEF TypeScreen, Statuses
  <2>2. rows[r].name # None
    BY <1>2 DEF Inv, NamesKept
  <2>3. UNCHANGED native
    BY <1>3 DEF Requests
  <2> QED BY <1>1, <1>3, <2>1, <2>2, <2>3, RequestsKeeps
<1>4. CASE /\ r \in Names
           /\ \E passive \in Passive : Begins(Plan(r, rows[r].name, passive))
           /\ Granted' = Granted \cup {r}
           /\ UNCHANGED <<native, screen, queue, bot, network>>
  <2>1. PICK passive \in BOOLEAN : Begins(Plan(r, rows[r].name, passive))
    BY <1>4, TransfersAssumption
  <2>2. rows[r].name = r
    BY <1>2, <1>4 DEF Inv, NamesKept
  <2>3. PICK plan : plan = Plan(r, r, passive)
    OBVIOUS
  <2>4. plan \in Plans /\ plan.row = r /\ plan.name = r
    BY <2>3 DEF Plan, Plans
  <2>5. r \notin ToSet(queue)
    BY <1>2, <1>4, DownloadAssumption DEF TypePending, ToSet
  <2>6. UNCHANGED <<native, rows, handle, cancelled, network>> /\ queue' = queue /\ queue' \in Seq(Packs)
    BY <1>2, <1>4 DEF screen, TypePending
  <2>7. TypeBot' /\ acts' \in 0..Acts /\ Granted' \subseteq Rows /\ Granted \subseteq Granted' /\ r \in Granted'
    BY <1>1, <1>2, <1>4, TransfersAssumption DEF TypeBot, bot, Act, TypeGhosts
  <2>8. Begins(plan)
    BY <2>1, <2>2, <2>3
  <2> QED BY <1>1, <1>2, <2>4, <2>5, <2>6, <2>7, <2>8, BeginsKeeps
<1>5. \/ /\ r \in Packs /\ rows' = Patched(r, "requested") /\ Requests(r)
         /\ crossed' = IF Busy(r) THEN crossed \cup {r} ELSE crossed
      \/ /\ r \in Names
         /\ \E passive \in Passive : Begins(Plan(r, rows[r].name, passive))
         /\ invited' = invited \cup {r} /\ misread' = misread
         /\ UNCHANGED <<native, screen, queue, bot, network>>
  BY DEF Downloads
<1>6. invited' = invited \cup {r} /\ misread' = misread => Granted' = Granted \cup {r}
  BY DEF Granted
<1> QED BY <1>3, <1>4, <1>5, <1>6

\* Without an answer there is no request of a row of the name.
LEMMA UnansweredIs ==
    ASSUME queue \in Seq(Packs), NEW n
    PROVE  /\ MatchPendingRequest(n) \subseteq ToSet(queue)
           /\ MatchPendingRequest(n) = {} => \A r \in Named(n) : r \notin ToSet(queue)
<1> DEFINE named == {i \in DOMAIN queue : queue[i] \in Named(n)}
           matches == IF named = {} /\ Named(n) = {} THEN DOMAIN queue ELSE named
           first == {j \in matches : \A k \in matches : j <= k}
<1>1. MatchPendingRequest(n) = {queue[i] : i \in first}
  BY DEF MatchPendingRequest
<1>2. DOMAIN queue \subseteq Nat
  OBVIOUS
<1>3. matches \subseteq DOMAIN queue
  OBVIOUS
<1>4. MatchPendingRequest(n) \subseteq ToSet(queue)
  BY <1>1, <1>3 DEF ToSet
<1>5. ASSUME MatchPendingRequest(n) = {}, NEW r \in Named(n), r \in ToSet(queue)
      PROVE  FALSE
  <2>1. PICK i \in DOMAIN queue : queue[i] = r
    BY <1>5 DEF ToSet
  <2>2. i \in matches
    BY <1>5, <2>1
  <2> HIDE DEF matches
  <2>3. PICK j \in matches : \A k \in matches : j <= k
    BY <1>2, <1>3, <2>2, LeastOf
  <2> QED BY <1>1, <1>5, <2>3
<1> QED BY <1>4, <1>5

LEMMA ReadsOfferKeeps ==
    ASSUME Inv, ReadsOffer
    PROVE  Inv'
<1> DEFINE PlanOf(r, n, passive) == Plan(r, IF passive THEN rows[r].name ELSE n, passive)
<1>1. PICK n \in offers, passive \in BOOLEAN :
         /\ network
         /\ offers' = offers \ {n}
         /\ \/ \E r \in MatchPendingRequest(n) :
                  /\ queue' = Unqueued({r})
                  /\ Begins(PlanOf(r, n, passive))
                  /\ UNCHANGED rows
            \/ /\ MatchPendingRequest(n) = {}
               /\ \E r \in Named(n) :
                     IF Reoffered(r) THEN Begins(PlanOf(r, n, passive))
                     ELSE UNCHANGED <<watchdogs, asking, resumes, crossed>>
               /\ UNCHANGED <<queue, rows>>
            \/ /\ MatchPendingRequest(n) = {} /\ Named(n) = {}
               /\ rows' = [rows EXCEPT ![n] = [Absent EXCEPT !.status = "available", !.name = n]]
               /\ UNCHANGED <<pending, crossed>>
         /\ UNCHANGED <<native, handle, cancelled, network>>
         /\ UNCHANGED <<queued, holds, accepts, agreed, invited, misread, acts>>
  BY TransfersAssumption DEF ReadsOffer
<1>2. TypeScreen /\ TypePending /\ TypeBot /\ TypeGhosts
  BY DEF Inv, Typed
<1>3. TypeBot' /\ acts' \in 0..Acts /\ Granted' = Granted /\ Granted \subseteq Rows
  BY <1>1, <1>2 DEF TypeBot, TypeGhosts, Granted
<1>4. n \in Names /\ n \in Rows /\ n # None /\ n \notin Packs
  BY <1>2, NoneIs, DownloadAssumption DEF TypeBot, Rows
<1>5. ToSet(queue) \subseteq Packs /\ queue \in Seq(Packs) /\ Packs \subseteq Rows
  BY <1>2 DEF TypePending, ToSet, Rows
<1>6. ASSUME NEW r \in MatchPendingRequest(n), queue' = Unqueued({r}),
             Begins(PlanOf(r, n, passive)), UNCHANGED rows
      PROVE  Inv'
  <2>1. r \in ToSet(queue) /\ r \in Rows /\ r \notin Names
    BY <1>5, UnansweredIs, DownloadAssumption
  <2>2. Listed(r) /\ rows[r].name \in Rows
    BY <1>1, <1>2, <2>1, RowIs DEF Inv, QueueIsListed, NamesKept, TypeScreen
  <2>3. PICK plan : plan = PlanOf(r, n, passive)
    OBVIOUS
  <2>4. plan \in Plans /\ plan.row = r
    BY <1>4, <2>1, <2>2, <2>3 DEF Plan, Plans
  <2>5. queue' \in Seq(Packs) /\ ToSet(queue') = ToSet(queue) \ {r}
    BY <1>5, <1>6, UnqueuedIs
  <2>6. r \notin crossed => r \in Granted
    BY <2>1 DEF Inv, Uncrossed, Wanted
  <2>7. UNCHANGED <<native, rows, handle, cancelled, network>>
    BY <1>1, <1>6
  <2>8. Begins(plan)
    BY <1>6, <2>3
  <2> QED BY <1>1, <1>3, <2>1, <2>2, <2>4, <2>5, <2>6, <2>7, <2>8, BeginsKeeps
<1>7. ASSUME MatchPendingRequest(n) = {}, NEW r \in Named(n), Reoffered(r),
             Begins(PlanOf(r, n, passive)), UNCHANGED <<queue, rows>>
      PROVE  Inv'
  <2>1. r \in Rows /\ rows[r].name = n
    BY DEF Named
  <2>2. Listed(r) /\ (r \in Names => n = r)
    BY <1>4, <2>1 DEF Inv, NamesKept
  <2>3. PICK plan : plan = Plan(r, n, passive)
    OBVIOUS
  <2>4. plan \in Plans /\ plan.row = r /\ plan.name = n
    BY <1>4, <2>1, <2>3 DEF Plan, Plans
  <2>5. Begins(plan)
    BY <1>7, <2>1, <2>3
  <2>6. r \notin ToSet(queue') /\ queue' \in Seq(Packs) /\ ToSet(queue') = ToSet(queue)
    BY <1>5, <1>7, UnansweredIs
  <2>7. r \notin crossed => r \in Granted
    BY <1>7, <2>1 DEF Inv, Uncrossed, Wanted, Reoffered
  <2>8. UNCHANGED <<native, rows, handle, cancelled, network>>
    BY <1>1, <1>7
  <2> QED BY <1>1, <1>3, <2>2, <2>4, <2>5, <2>6, <2>7, <2>8, BeginsKeeps
<1>8. ASSUME UNCHANGED <<queue, rows, watchdogs, asking, resumes, crossed>>
      PROVE  Inv'
  <2>1. UNCHANGED <<native, screen, pending, network, ghosts>>
    BY <1>1, <1>8 DEF screen, pending, ghosts
  <2> QED BY <1>3, <2>1, BesideKeeps
<1>9. ASSUME Named(n) = {}, UNCHANGED <<pending, crossed>>,
             rows' = [rows EXCEPT ![n] = [Absent EXCEPT !.status = "available", !.name = n]]
      PROVE  Inv'
  <2>1. ~Listed(n)
    BY <1>4, <1>9 DEF Inv, NamesKept, Named
  <2>2. /\ rows' \in [Rows -> RowRec] /\ \A q \in Rows \ {n} : rows'[q] = rows[q]
        /\ rows'[n].name = n /\ rows'[n].status = "available"
    <3> DEFINE row == [[Absent EXCEPT !.status = "available"] EXCEPT !.name = n]
    <3>1. row \in RowRec /\ row.name = n /\ row.status = "available"
      BY <1>4 DEF Absent, RowRec, Statuses
    <3>2. rows' = [rows EXCEPT ![n] = row]
      BY <1>9
    <3> HIDE DEF row
    <3> QED BY <1>2, <1>4, <3>1, <3>2 DEF TypeScreen
  <2>3. UNCHANGED <<queue, watchdogs, asking, resumes>>
    BY <1>9 DEF pending
  <2>4. Listed(n)' /\ ~InFlight(n)' /\ n \notin ToSet(queue)
    BY <1>4, <1>5, <2>2 DEF Listed, InFlight
  <2>5. n \notin crossed =>
           /\ ~AskingFor(n) /\ ~Negotiating(n)
           /\ \A a \in Attempts : Under(a) /\ attempts[a].row = n => n \in cancelled
    BY <1>4, <2>1 DEF Inv, Uncrossed, Single, Seen, InFlight, Listed
  <2>6. n \notin crossed' => Wanted(n)'
    BY <1>9, <2>2, <2>3, <2>4, <2>5 DEF Wanted, AskingFor, Negotiating
  <2>7. queue' \in Seq(Packs) /\ watchdogs' \subseteq Rows /\ TypeGhosts'
         /\ (\A q \in Rows \ {n} : q \in watchdogs => q \in watchdogs')
         /\ (\A q : q \in ToSet(queue') => q \in ToSet(queue) \/ q = n)
    BY <1>2, <1>3, <1>9, <2>3 DEF TypePending, TypeGhosts
  <2>8. UNCHANGED <<native, handle, cancelled, asking, resumes, network>> /\ queue' = queue
    BY <1>1, <2>3
  <2>9. Granted \subseteq Granted' /\ crossed \subseteq crossed'
    BY <1>3, <1>9
  <2> QED BY <1>1, <1>3, <1>4, <1>9, <2>2, <2>4, <2>5, <2>6, <2>7, <2>8, <2>9, RowKeeps
<1> QED BY <1>1, <1>6, <1>7, <1>8, <1>9

\* A row that comes about as failed may be fetched for the offer behind it.
LEMMA ReadsUnreadableKeeps ==
    ASSUME Inv, ReadsUnreadable
    PROVE  Inv'
<1>1. PICK n \in Names :
         /\ network /\ ~Listed(n) /\ Act
         /\ rows' = [rows EXCEPT ![n] = [Absent EXCEPT !.status = "failed", !.name = n,
                                                       !.address = "none"]]
         /\ misread' = misread \cup {n}
         /\ UNCHANGED <<native, handle, cancelled, pending, bot, invited, crossed, network>>
  BY DEF ReadsUnreadable
<1>2. TypeScreen /\ TypePending /\ TypeBot /\ TypeGhosts
  BY DEF Inv, Typed
<1>3. TypeBot' /\ TypeGhosts' /\ Granted' = Granted \cup {n} /\ crossed' = crossed
  <2>1. n \in Rows
    BY DEF Rows
  <2>2. TypeBot'
    BY <1>1, <1>2 DEF TypeBot, bot
  <2>3. acts' \in 0..Acts
    BY <1>1, <1>2, TransfersAssumption DEF TypeGhosts, Act
  <2> QED BY <1>1, <1>2, <2>1, <2>2, <2>3 DEF TypeGhosts, Granted
<1>4. n \in Rows /\ n # None /\ n \notin Packs
  BY DownloadAssumption, NoneIs DEF Rows
<1>5. UNCHANGED <<queue, watchdogs, asking, resumes>>
  BY <1>1 DEF pending
<1>6. /\ rows' \in [Rows -> RowRec] /\ \A q \in Rows \ {n} : rows'[q] = rows[q]
      /\ rows'[n].name = n /\ rows'[n].status = "failed"
  <2> DEFINE row == [Absent EXCEPT !.status = "failed", !.name = n, !.address = "none"]
  <2>1. row \in RowRec /\ row.name = n /\ row.status = "failed"
    BY <1>4 DEF Absent, RowRec, Statuses
  <2>2. rows' = [rows EXCEPT ![n] = row]
    BY <1>1
  <2> HIDE DEF row
  <2> QED BY <1>2, <1>4, <2>1, <2>2 DEF TypeScreen
<1>7. n \notin ToSet(queue)
  BY <1>2, <1>4 DEF TypePending, ToSet
<1>8. Listed(n)' /\ ~InFlight(n)' /\ n \notin ToSet(queue')
  BY <1>4, <1>5, <1>6, <1>7 DEF Listed, InFlight
<1>9. n \notin crossed =>
         \A a \in Attempts : Under(a) /\ attempts[a].row = n => n \in cancelled
  BY <1>1, <1>4 DEF Inv, Uncrossed, Seen, InFlight, Listed
<1>10. Wanted(n)'
  BY <1>3 DEF Wanted
<1>11. /\ queue' \in Seq(Packs) /\ watchdogs' \subseteq Rows
       /\ (\A q \in Rows \ {n} : q \in watchdogs => q \in watchdogs')
       /\ (\A q : q \in ToSet(queue') => q \in ToSet(queue) \/ q = n)
  BY <1>2, <1>5 DEF TypePending
<1>12. UNCHANGED <<native, handle, cancelled, asking, resumes, network>>
  BY <1>1, <1>5
<1>13. Granted \subseteq Granted' /\ crossed \subseteq crossed'
  BY <1>3
<1> QED BY <1>1, <1>3, <1>4, <1>6, <1>8, <1>9, <1>10, <1>11, <1>12, <1>13, RowKeeps

----------------------------------------------------------------------------
(* Rows that are let go of.                                                *)

\* What is under way for the rows that go has ended, or is told to.
LEMMA ForgottenKeeps ==
    ASSUME Inv, NEW gone \in SUBSET Rows, NativeTypeOK', Unmixed',
           \A a \in Attempts :
              /\ Under(a)' <=> Under(a)
              /\ Under(a) => attempts'[a].row = attempts[a].row /\ attempts'[a].name = attempts[a].name
              /\ Under(a) /\ attempts[a].row \notin gone => attempts'[a] = attempts[a]
              /\ Running(a)' => Running(a),
           TypeScreen', TypeBot', TypeGhosts', UNCHANGED <<handle, network, asking>>,
           ForgetPendingResume(gone),
           queue' \in Seq(Packs), ToSet(queue') \subseteq ToSet(queue),
           watchdogs' \subseteq Rows, \A q \in watchdogs : q \in gone \/ q \in watchdogs',
           crossed \subseteq crossed', \A q \in Granted : q \in gone \/ q \in Granted',
           \A q \in Rows \ gone : rows'[q] = rows[q] /\ (q \in cancelled' <=> q \in cancelled),
           \A q \in gone : /\ rows'[q].status \in {"absent", "available"}
                           /\ rows'[q].name = None <=> ~Listed(q)'
                           /\ q \in Names /\ Listed(q)' => rows'[q].name = q
                           /\ network /\ q \in ToSet(queue') => Listed(q)'
                           /\ ~network => ~Listed(q)',
           \A q \in gone \ crossed' :
              /\ ~AskingFor(q) /\ q \notin ToSet(queue')
              /\ \A a \in Attempts : Under(a) /\ attempts[a].row = q =>
                    q \in cancelled' /\ (Running(a)' => attempts'[a].told)
    PROVE  Inv'
<1>1. resumes' = {e \in resumes : e.row \notin gone}
  BY DEF ForgetPendingResume
<1>2. Typed'
  BY <1>1 DEF Inv, Typed, TypePending
<1>3. \A q \in Rows \ gone : (Listed(q)' <=> Listed(q))
  BY DEF Listed
<1>4. Gone'
  <2>1. crossed' \subseteq Rows
    BY DEF TypeGhosts
  <2>2. ASSUME ~network, NEW q \in Rows PROVE ~Listed(q)'
    BY <1>3, <2>2 DEF Inv, Gone
  <2> QED BY <2>1, <2>2 DEF Inv, Gone
<1>5. NamesKept'
  <2>1. NamesKept
    BY DEF Inv
  <2>2. \A q \in Rows : rows'[q].name = None <=> ~Listed(q)'
    <3>1. \A q \in Rows \ gone : rows'[q].name = None <=> ~Listed(q)'
      BY <1>3, <2>1 DEF NamesKept
    <3> QED BY <3>1
  <2>3. \A q \in Names : Listed(q)' => rows'[q].name = q
    <3>1. \A q \in Names \ gone : Listed(q)' => rows'[q].name = q
      BY <1>3, <2>1 DEF NamesKept, Rows
    <3> QED BY <3>1
  <2>4. /\ \A i \in DOMAIN asking' : asking'[i].row \in Names => asking'[i].name = asking'[i].row
        /\ \A e \in resumes' : e.row \in Names => e.name = e.row
    BY <1>1, <2>1 DEF NamesKept
  <2>5. \A a \in Attempts :
          Under(a)' /\ attempts'[a].row \in Names => attempts'[a].name = attempts'[a].row
    BY <2>1 DEF NamesKept
  <2> QED BY <2>2, <2>3, <2>4, <2>5 DEF NamesKept
<1>6. Handles'
  <2>1. \A a \in Attempts : Under(a) => attempts'[a] # NoAttempt /\ attempts'[a].row = attempts[a].row
    BY DEF Under
  <2> QED BY <2>1 DEF Inv, Typed, TypeScreen, Handles, Under
<1>7. \A q : /\ (AskingFor(q)' <=> AskingFor(q)) /\ (q \notin gone => (Negotiating(q)' <=> Negotiating(q)))
             /\ (q \in gone => ~Negotiating(q)')
  BY <1>1 DEF AskingFor, Negotiating
<1>8. ASSUME NEW q \in Rows \ crossed' PROVE Single(q)' /\ Seen(q)' /\ Wanted(q)'
  <2>1. Single(q) /\ Seen(q) /\ Wanted(q)
    BY <1>8 DEF Inv, Uncrossed
  <2>2. OnceAsked(q)' /\ OnceMeant(q)'
    <3>1. resumes' \subseteq resumes
      BY <1>1
    <3> QED BY <2>1, <3>1, OnceStays
  <2>3. CASE q \in gone
    <3>1. ~AskingFor(q)' /\ ~Negotiating(q)' /\ q \notin ToSet(queue')
      BY <1>7, <1>8, <2>3
    <3>2. \A a \in Attempts : Under(a)' /\ attempts'[a].row = q =>
             handle'[q] = a /\ q \in cancelled' /\ (Running(a)' => attempts'[a].told)
      BY <1>8, <2>1, <2>3 DEF Single
    <3>3. ~InFlight(q)' /\ rows'[q].status \notin {"requested", "downloading", "failed"}
      BY <2>3 DEF InFlight
    <3>4. Single(q)'
      BY <2>2, <3>1, <3>2 DEF Single, OnceAsked, OnceMeant
    <3> QED BY <3>1, <3>2, <3>3, <3>4 DEF Seen, Wanted
  <2>4. CASE q \notin gone
    <3>1. \A a \in Attempts : Under(a)' /\ attempts'[a].row = q =>
              /\ Under(a) /\ attempts[a].row = q /\ attempts'[a].told = attempts[a].told
              /\ Running(a)' => Running(a)
      BY <2>4
    <3> QED BY <1>7, <1>8, <2>1, <2>2, <2>4, <3>1, RowStays
  <2> QED BY <2>3, <2>4
<1>9. Uncrossed'
  BY <1>8 DEF Uncrossed
<1>10. RequestedIsWatched'
  <2> SUFFICES ASSUME NEW q \in Rows, rows'[q].status = "requested"
               PROVE  q \in watchdogs' \/ AskingFor(q)' \/ Negotiating(q)'
    BY DEF RequestedIsWatched
  <2>1. q \notin gone /\ rows[q].status = "requested"
    OBVIOUS
  <2> QED BY <1>7, <2>1 DEF Inv, RequestedIsWatched
<1>11. QueueIsListed'
  <2>1. ToSet(queue') \subseteq Rows
    BY DEF ToSet, Rows
  <2> QED BY <1>3, <2>1 DEF Inv, QueueIsListed
<1> QED BY <1>2, <1>4, <1>5, <1>6, <1>9, <1>10, <1>11 DEF Inv

\* The transfer of a row is told to stop.
LEMMA ToldKeeps ==
    ASSUME Inv, NEW r \in Rows, handle[r] # None, attempts' = Told(handle[r]),
           UNCHANGED <<part, spoiled, mixed>>
    PROVE  /\ NativeTypeOK' /\ Unmixed'
           /\ \A a \in Attempts :
                 /\ Under(a)' <=> Under(a)
                 /\ Under(a) => attempts'[a].row = attempts[a].row /\ attempts'[a].name = attempts[a].name
                 /\ Under(a) /\ attempts[a].row \notin {r} => attempts'[a] = attempts[a]
                 /\ Running(a)' => Running(a)
           /\ r \notin crossed /\ ~TooEarly(r) =>
                 \A a \in Attempts : Under(a) /\ attempts[a].row = r => (Running(a)' => attempts'[a].told)
<1>1. NativeTypeOK /\ Unmixed /\ TypeScreen /\ attempts \in [Attempts -> Tries]
  BY NativeIs DEF Inv, Typed
<1>2. PICK h \in Attempts : h = handle[r]
  BY <1>1 DEF TypeScreen
<1>3. Under(h) /\ attempts[h].row = r
  BY <1>2 DEF Inv, Handles
<1>4. PICK s : /\ Goes(h, s) /\ s.phase = Phase(h) /\ s.got = attempts[h].got
               /\ Running(h) /\ Phase(h) # "invoked" => s.told
  BY <1>1, <1>2, <1>3, ToldIs
<1>5. NativeTypeOK' /\ Unmixed'
  BY <1>1, <1>4, GoesWhole DEF Streaming, Phase
<1>6. /\ attempts'[h] = s /\ \A b \in Attempts \ {h} : attempts'[b] = attempts[b]
      /\ \A b \in Attempts : Under(b)' <=> Under(b)
      /\ \A b \in Attempts : Under(b) => attempts'[b].row = attempts[b].row
                                         /\ attempts'[b].name = attempts[b].name
  BY <1>1, <1>4, GoesIs
<1>7. \A a \in Attempts : Phase(a)' = Phase(a) /\ (Running(a)' <=> Running(a))
  BY <1>4, <1>6 DEF Phase, Running
<1>8. \A a \in Attempts : Under(a) /\ attempts[a].row \notin {r} => attempts'[a] = attempts[a]
  BY <1>3, <1>6
<1>9. ASSUME r \notin crossed, ~TooEarly(r), NEW a \in Attempts, Under(a), attempts[a].row = r, Running(a)'
      PROVE  attempts'[a].told
  <2>1. a = h
    BY <1>2, <1>9 DEF Inv, Uncrossed, Single
  <2>2. Running(h) /\ Phase(h) # "invoked"
    BY <1>2, <1>7, <1>9, <2>1 DEF TooEarly, Running
  <2> QED BY <1>4, <1>6, <2>1, <2>2
<1> QED BY <1>5, <1>6, <1>7, <1>8, <1>9

LEMMA CancelsKeeps ==
    ASSUME Inv, NEW r \in Rows, Cancels(r)
    PROVE  Inv'
<1>1. /\ InFlight(r) /\ handle[r] # None /\ Act
      /\ cancelled' = cancelled \cup {r}
      /\ attempts' = Told(handle[r])
      /\ ForgetPendingResume({r})
      /\ rows' = Patched(r, "available")
      /\ Granted' = Granted \ {r}
      /\ crossed' = IF TooEarly(r) \/ AskingFor(r) THEN crossed \cup {r} ELSE crossed
      /\ UNCHANGED <<part, spoiled, mixed, handle, queue, watchdogs, asking, bot, network>>
  BY DEF Cancels, Granted
<1>2. TypeScreen /\ TypePending /\ TypeBot /\ TypeGhosts /\ Listed(r)
  BY <1>1 DEF Inv, Typed, InFlight, Listed
<1>3. /\ rows' \in [Rows -> RowRec] /\ \A q \in Rows \ {r} : rows'[q] = rows[q]
      /\ rows'[r].status = "available" /\ rows'[r].name = rows[r].name
  BY <1>1, <1>2, PatchedIs DEF TypeScreen, Statuses
<1>4. /\ NativeTypeOK' /\ Unmixed'
      /\ \A a \in Attempts :
            /\ Under(a)' <=> Under(a)
            /\ Under(a) => attempts'[a].row = attempts[a].row /\ attempts'[a].name = attempts[a].name
            /\ Under(a) /\ attempts[a].row \notin {r} => attempts'[a] = attempts[a]
            /\ Running(a)' => Running(a)
      /\ r \notin crossed /\ ~TooEarly(r) =>
            \A a \in Attempts : Under(a) /\ attempts[a].row = r => (Running(a)' => attempts'[a].told)
  BY <1>1, ToldKeeps
<1>5. TypeScreen' /\ TypeBot' /\ TypeGhosts'
  BY <1>1, <1>2, <1>3, TransfersAssumption DEF TypeScreen, TypeBot, TypeGhosts, Act, bot
<1>6. /\ UNCHANGED <<handle, network, asking>> /\ queue' \in Seq(Packs) /\ ToSet(queue') = ToSet(queue)
      /\ watchdogs' \subseteq Rows /\ watchdogs' = watchdogs /\ crossed \subseteq crossed'
      /\ \A q \in Granted : q \in {r} \/ q \in Granted'
  BY <1>1, <1>2 DEF TypePending
<1>7. \A q \in Rows \ {r} : rows'[q] = rows[q] /\ (q \in cancelled' <=> q \in cancelled)
  BY <1>1, <1>3
<1>8. network /\ Listed(r)' /\ rows'[r].name # None /\ (r \in Names => rows'[r].name = r)
  BY <1>2, <1>3 DEF Inv, Gone, Listed, NamesKept
<1>9. \A q \in {r} : /\ rows'[q].status \in {"absent", "available"}
                     /\ rows'[q].name = None <=> ~Listed(q)'
                     /\ q \in Names /\ Listed(q)' => rows'[q].name = q
                     /\ network /\ q \in ToSet(queue') => Listed(q)'
                     /\ ~network => ~Listed(q)'
  BY <1>3, <1>8
<1>10. ASSUME r \notin crossed'
       PROVE  /\ ~AskingFor(r) /\ r \notin ToSet(queue')
              /\ \A a \in Attempts : Under(a) /\ attempts[a].row = r =>
                    r \in cancelled' /\ (Running(a)' => attempts'[a].told)
  <2>1. ~TooEarly(r) /\ ~AskingFor(r) /\ r \notin crossed
    BY <1>1, <1>10
  <2>2. Busy(r)
    BY <1>1, <1>2 DEF Inv, Handles, Busy, TypeScreen
  <2>3. r \notin ToSet(queue)
    BY <2>1, <2>2 DEF Inv, Uncrossed, Single
  <2> QED BY <1>1, <1>4, <1>6, <2>1, <2>3
<1>11. \A q \in {r} \ crossed' :
              /\ ~AskingFor(q) /\ q \notin ToSet(queue')
              /\ \A a \in Attempts : Under(a) /\ attempts[a].row = q =>
                    q \in cancelled' /\ (Running(a)' => attempts'[a].told)
  BY <1>10
<1>12. {r} \in SUBSET Rows /\ ForgetPendingResume({r})
  BY <1>1
<1> QED BY <1>4, <1>5, <1>6, <1>7, <1>9, <1>11, <1>12, ForgottenKeeps

LEMMA DismissesKeeps ==
    ASSUME Inv, NEW r \in Rows, Dismisses(r)
    PROVE  Inv'
<1>1. /\ Listed(r) /\ Act
      /\ cancelled' = IF handle[r] = None THEN cancelled ELSE cancelled \cup {r}
      /\ attempts' = IF handle[r] = None THEN attempts ELSE Told(handle[r])
      /\ Withdraws(r)
      /\ ForgetPendingRequest({r}) /\ ForgetPendingResume({r})
      /\ rows' = [rows EXCEPT ![r] = Absent]
      /\ Granted' = Granted \ {r}
      /\ crossed' = IF TooEarly(r) \/ AskingFor(r) THEN crossed \cup {r} ELSE crossed
      /\ UNCHANGED <<part, spoiled, mixed, handle, asking, offers, accepts, agreed, network>>
  BY DEF Dismisses, Granted
<1>2. TypeScreen /\ TypePending /\ TypeBot /\ TypeGhosts /\ NativeTypeOK /\ Unmixed
  BY DEF Inv, Typed
<1>3. /\ rows' \in [Rows -> RowRec] /\ \A q \in Rows \ {r} : rows'[q] = rows[q]
      /\ rows'[r] = Absent
  BY <1>1, <1>2, AbsentIs DEF TypeScreen
<1>4. /\ NativeTypeOK' /\ Unmixed'
      /\ \A a \in Attempts :
            /\ Under(a)' <=> Under(a)
            /\ Under(a) => attempts'[a].row = attempts[a].row /\ attempts'[a].name = attempts[a].name
            /\ Under(a) /\ attempts[a].row \notin {r} => attempts'[a] = attempts[a]
            /\ Running(a)' => Running(a)
  <2>1. CASE handle[r] = None
    <3>1. UNCHANGED native
      BY <1>1, <2>1 DEF native
    <3> QED BY <1>2, <3>1, NativeStays
  <2>2. CASE handle[r] # None
    BY <1>1, <2>2, ToldKeeps
  <2> QED BY <2>1, <2>2
<1>5. TypeBot'
  BY <1>1, <1>2 DEF Withdraws, TypeBot
<1>6. TypeScreen' /\ TypeGhosts'
  BY <1>1, <1>2, <1>3, TransfersAssumption DEF TypeScreen, TypeGhosts, Act
<1>7. queue' \in Seq(Packs) /\ ToSet(queue') = ToSet(queue) \ {r} /\ watchdogs' = watchdogs \ {r}
  BY <1>1, <1>2, UnqueuedIs DEF ForgetPendingRequest, TypePending
<1>8. UNCHANGED <<handle, network, asking>> /\ watchdogs' \subseteq Rows /\ crossed \subseteq crossed'
      /\ (\A q \in Granted : q \in {r} \/ q \in Granted') /\ ToSet(queue') \subseteq ToSet(queue)
      /\ (\A q \in watchdogs : q \in {r} \/ q \in watchdogs')
  BY <1>1, <1>2, <1>7 DEF TypePending
<1>9. \A q \in Rows \ {r} : rows'[q] = rows[q] /\ (q \in cancelled' <=> q \in cancelled)
  BY <1>1, <1>3
<1>10. \A q \in {r} : /\ rows'[q].status \in {"absent", "available"}
                      /\ rows'[q].name = None <=> ~Listed(q)'
                      /\ q \in Names /\ Listed(q)' => rows'[q].name = q
                      /\ network /\ q \in ToSet(queue') => Listed(q)'
                      /\ ~network => ~Listed(q)'
  BY <1>3, <1>7, AbsentIs DEF Listed
<1>11. ASSUME r \notin crossed'
       PROVE  /\ ~AskingFor(r) /\ r \notin ToSet(queue')
              /\ \A a \in Attempts : Under(a) /\ attempts[a].row = r =>
                    r \in cancelled' /\ (Running(a)' => attempts'[a].told)
  <2>1. ~TooEarly(r) /\ ~AskingFor(r) /\ r \notin crossed
    BY <1>1, <1>11
  <2>2. CASE handle[r] = None
    <3>1. \A a \in Attempts : ~(Under(a) /\ attempts[a].row = r)
      BY <2>1, <2>2, NoneIs DEF Inv, Uncrossed, Single
    <3> QED BY <1>7, <2>1, <3>1
  <2>3. CASE handle[r] # None
    <3>1. \A a \in Attempts : Under(a) /\ attempts[a].row = r => (Running(a)' => attempts'[a].told)
      BY <1>1, <2>1, <2>3, ToldKeeps
    <3> QED BY <1>1, <1>7, <2>1, <2>3, <3>1
  <2> QED BY <2>2, <2>3
<1>12. \A q \in {r} \ crossed' :
              /\ ~AskingFor(q) /\ q \notin ToSet(queue')
              /\ \A a \in Attempts : Under(a) /\ attempts[a].row = q =>
                    q \in cancelled' /\ (Running(a)' => attempts'[a].told)
  BY <1>11
<1>13. {r} \in SUBSET Rows /\ ForgetPendingResume({r})
  BY <1>1
<1> QED BY <1>4, <1>5, <1>6, <1>7, <1>8, <1>9, <1>10, <1>12, <1>13, ForgottenKeeps

LEMMA ClearsKeeps ==
    ASSUME Inv, Clears
    PROVE  Inv'
<1> DEFINE gone == {r \in Rows : Listed(r) /\ ~InFlight(r)}
           waiting == {r \in gone \cap Packs : rows[r].status = "requested"}
<1>1. /\ gone # {} /\ Act
      /\ ForgetPendingRequest(gone) /\ ForgetPendingResume(gone)
      /\ queued' = queued \ {r \in waiting : ~rows[r].awaiting}
      /\ holds' = IF \E r \in waiting : rows[r].awaiting THEN None ELSE holds
      /\ rows' = [r \in Rows |-> IF r \in gone THEN Absent ELSE rows[r]]
      /\ Granted' = Granted \ gone
      /\ crossed' = crossed \cup {r \in gone : AskingFor(r)}
      /\ UNCHANGED <<native, handle, cancelled, asking, offers, accepts, agreed, network>>
  BY DEF Clears, Granted
<1>2. TypeScreen /\ TypePending /\ TypeBot /\ TypeGhosts /\ NativeTypeOK /\ Unmixed
  BY DEF Inv, Typed
<1>0. PICK away \in SUBSET Rows : away = gone
  OBVIOUS
<1>3. \A r \in away : Listed(r) /\ ~InFlight(r)
  BY <1>0
<1>4. TypeBot'
  BY <1>1, <1>2 DEF TypeBot
<1>5. TypeGhosts'
  BY <1>1, <1>2, TransfersAssumption DEF TypeGhosts, Act
<1> HIDE DEF gone
<1>6. rows' = [r \in Rows |-> IF r \in away THEN Absent ELSE rows[r]]
  BY <1>0, <1>1
<1>7. (\A q \in away : rows'[q] = Absent) /\ (\A q \in Rows \ away : rows'[q] = rows[q])
      /\ rows' \in [Rows -> RowRec]
  BY <1>2, <1>6, AbsentIs DEF TypeScreen
<1>8. TypeScreen'
  BY <1>1, <1>2, <1>7 DEF TypeScreen
<1>9. queue' \in Seq(Packs) /\ ToSet(queue') = ToSet(queue) \ away /\ watchdogs' = watchdogs \ away
  BY <1>0, <1>1, <1>2, UnqueuedIs DEF ForgetPendingRequest, TypePending
<1>10. NativeTypeOK' /\ Unmixed'
       /\ \A a \in Attempts : /\ attempts'[a] = attempts[a] /\ (Under(a)' <=> Under(a))
                              /\ (Running(a)' <=> Running(a))
  BY <1>1, <1>2, NativeStays
<1>11. UNCHANGED <<handle, network, asking>> /\ watchdogs' \subseteq Rows /\ crossed \subseteq crossed'
      /\ (\A q \in Granted : q \in away \/ q \in Granted') /\ ToSet(queue') \subseteq ToSet(queue)
      /\ (\A q \in watchdogs : q \in away \/ q \in watchdogs') /\ ForgetPendingResume(away)
  BY <1>0, <1>1, <1>2, <1>9 DEF TypePending
<1>12. \A q \in Rows \ away : rows'[q] = rows[q] /\ (q \in cancelled' <=> q \in cancelled)
  BY <1>1, <1>7
<1>13. \A q \in away : /\ rows'[q].status \in {"absent", "available"}
                       /\ rows'[q].name = None <=> ~Listed(q)'
                       /\ q \in Names /\ Listed(q)' => rows'[q].name = q
                       /\ network /\ q \in ToSet(queue') => Listed(q)'
                       /\ ~network => ~Listed(q)'
  BY <1>7, <1>9, AbsentIs DEF Listed
<1>14. ASSUME NEW q \in away \ crossed'
       PROVE  /\ ~AskingFor(q) /\ q \notin ToSet(queue')
              /\ \A a \in Attempts : Under(a) /\ attempts[a].row = q =>
                    q \in cancelled' /\ (Running(a)' => attempts'[a].told)
  <2>1. ~AskingFor(q) /\ q \notin crossed
    BY <1>0, <1>1
  <2>2. Single(q) /\ Seen(q)
    BY <2>1 DEF Inv, Uncrossed
  <2>3. \A a \in Attempts : Under(a) /\ attempts[a].row = q =>
           q \in cancelled /\ (Running(a) => attempts[a].told)
    BY <1>3, <2>2 DEF Seen
  <2> QED BY <1>1, <1>9, <1>10, <2>1, <2>3
<1>15. \A a \in Attempts :
            /\ Under(a)' <=> Under(a)
            /\ Under(a) => attempts'[a].row = attempts[a].row /\ attempts'[a].name = attempts[a].name
            /\ Under(a) /\ attempts[a].row \notin away => attempts'[a] = attempts[a]
            /\ Running(a)' => Running(a)
  BY <1>10
<1> QED BY <1>4, <1>5, <1>8, <1>9, <1>10, <1>11, <1>12, <1>13, <1>14, <1>15, ForgottenKeeps

LEMMA RemovesNetworkKeeps ==
    ASSUME Inv, RemovesNetwork
    PROVE  Inv'
<1>1. /\ network' = FALSE
      /\ rows' = [r \in Rows |-> Absent]
      /\ crossed' = Rows /\ Granted' = {} /\ acts' \in 0..Acts
      /\ UNCHANGED <<native, handle, cancelled, pending, bot>>
  BY TransfersAssumption DEF RemovesNetwork, Act, Inv, Typed, TypeGhosts, Granted
<1>2. \A q \in Rows : rows'[q] = Absent /\ ~Listed(q)' /\ rows'[q].name = None /\ rows'[q].status = "absent"
  BY <1>1, AbsentIs DEF Listed
<1>3. UNCHANGED <<queue, watchdogs, asking, resumes, queued, holds, offers, accepts, agreed>>
  BY <1>1 DEF pending, bot
<1>4. NativeTypeOK' /\ Unmixed'
       /\ \A a \in Attempts : attempts'[a] = attempts[a] /\ (Under(a)' <=> Under(a))
  BY <1>1, NativeStays DEF Inv, Typed
<1>5. rows' \in [Rows -> RowRec]
  BY <1>1, AbsentIs
<1>6. Typed'
  BY <1>1, <1>3, <1>4, <1>5 DEF Inv, Typed, TypeScreen, TypePending, TypeBot, TypeGhosts
<1>7. Gone' /\ Uncrossed' /\ RequestedIsWatched' /\ QueueIsListed'
  BY <1>1, <1>2 DEF Gone, Uncrossed, RequestedIsWatched, QueueIsListed
<1>8. NamesKept'
  <2>1. Names \subseteq Rows
    BY DEF Rows
  <2> QED BY <1>2, <1>3, <1>4, <2>1 DEF Inv, NamesKept
<1>9. Handles'
  BY <1>1, <1>4 DEF Inv, Typed, TypeScreen, Handles, Under
<1> QED BY <1>4, <1>6, <1>7, <1>8, <1>9 DEF Inv

----------------------------------------------------------------------------
(* Transfers that go on, and that end.                                     *)

\* A transfer takes a step, which its row may hear of.
LEMMA StepKeeps ==
    ASSUME Inv, NEW a \in Attempts, NEW s, Goes(a, s), NativeTypeOK', Unmixed',
           NEW r \in Rows, r = attempts[a].row,
           UNCHANGED <<handle, pending, network, Granted>>, TypeScreen', TypeBot', acts' \in 0..Acts,
           crossed \subseteq crossed', crossed' \subseteq Rows,
           \A q \in Rows \ {r} : rows'[q] = rows[q] /\ (q \in cancelled' <=> q \in cancelled),
           rows'[r].name = rows[r].name, Listed(r)' <=> Listed(r),
           rows'[r].status = "requested" => rows[r].status = "requested",
           r \notin crossed' =>
              /\ s.told = attempts[a].told /\ (Running(a)' => Running(a))
              /\ rows'[r].status = rows[r].status /\ (r \in cancelled' <=> r \in cancelled)
    PROVE  Inv'
<1>1. attempts \in [Attempts -> Tries] /\ TypePending /\ TypeGhosts /\ TypeScreen
  BY NativeIs DEF Inv, Typed
<1>2. /\ attempts'[a] = s /\ \A b \in Attempts \ {a} : attempts'[b] = attempts[b]
      /\ \A b \in Attempts : Under(b)' <=> Under(b)
      /\ \A b \in Attempts : Under(b) => attempts'[b].row = attempts[b].row
                                         /\ attempts'[b].name = attempts[b].name
  BY <1>1, GoesIs
<1>3. UNCHANGED <<queue, watchdogs, asking, resumes>>
  BY DEF pending
<1>4. Typed'
  BY <1>1, <1>3 DEF Typed, TypePending, TypeGhosts
<1>5. \A q \in Rows : Listed(q)' <=> Listed(q)
  BY DEF Listed
<1>6. \A q : (AskingFor(q)' <=> AskingFor(q)) /\ (Negotiating(q)' <=> Negotiating(q))
  BY <1>3 DEF AskingFor, Negotiating
<1>7. Gone'
  BY <1>5 DEF Inv, Gone
<1>8. NamesKept'
  <2>1. NamesKept /\ Names \subseteq Rows
    BY DEF Inv, Rows
  <2>2. \A q \in Rows : rows'[q].name = rows[q].name
    OBVIOUS
  <2>3. \A b \in Attempts :
          Under(b)' /\ attempts'[b].row \in Names => attempts'[b].name = attempts'[b].row
    BY <1>2, <2>1 DEF NamesKept
  <2> QED BY <1>3, <1>5, <2>1, <2>2, <2>3 DEF NamesKept
<1>9. Handles'
  <2>1. \A b \in Attempts : Under(b) => attempts'[b] # NoAttempt /\ attempts'[b].row = attempts[b].row
    BY <1>2 DEF Under
  <2> QED BY <1>1, <2>1 DEF Inv, TypeScreen, Handles, Under
<1>10. \A b \in Attempts : b # a => (Running(b)' <=> Running(b))
  BY <1>2 DEF Running, Phase
<1>11. ASSUME NEW q \in Rows \ crossed' PROVE Single(q)' /\ Seen(q)' /\ Wanted(q)'
  <2>1. Single(q) /\ Seen(q) /\ Wanted(q)
    BY <1>11 DEF Inv, Uncrossed
  <2>2. OnceAsked(q)' /\ OnceMeant(q)'
    BY <1>3, <2>1, OnceStays
  <2>3. \A b \in Attempts : Under(b)' /\ attempts'[b].row = q =>
              /\ Under(b) /\ attempts[b].row = q /\ attempts'[b].told = attempts[b].told
              /\ Running(b)' => Running(b)
    BY <1>2, <1>10, <1>11
  <2>4. rows'[q].status = rows[q].status /\ (q \in cancelled' <=> q \in cancelled)
    BY <1>11
  <2> QED BY <1>3, <1>6, <2>1, <2>2, <2>3, <2>4, RowStays
<1>12. Uncrossed'
  BY <1>11 DEF Uncrossed
<1>13. RequestedIsWatched'
  <2>1. \A q \in Rows : rows'[q].status = "requested" => rows[q].status = "requested"
    OBVIOUS
  <2> QED BY <1>3, <1>6, <2>1 DEF Inv, RequestedIsWatched
<1>14. QueueIsListed'
  <2>1. ToSet(queue) \subseteq Rows
    BY <1>1 DEF TypePending, ToSet, Rows
  <2> QED BY <1>3, <1>5, <2>1 DEF Inv, QueueIsListed
<1> QED BY <1>4, <1>7, <1>8, <1>9, <1>12, <1>13, <1>14 DEF Inv

LEMMA ShellKeeps ==
    ASSUME Inv, NEW a \in Attempts, Carries(a) \/ Unblocks(a) \/ Ends(a) \/ Unwinds(a)
    PROVE  Inv'
<1>1. NativeTypeOK /\ Unmixed /\ TypeScreen /\ TypeBot /\ TypeGhosts
  BY DEF Inv, Typed
<1>2. \/ Opens(a) \/ Connects(a) \/ Receives(a) \/ Acknowledged(a)
      \/ Fails(a) \/ Finishes(a) \/ Stops(a)
  BY DEF Carries, Unblocks, Ends, Unwinds
<1>3. NativeTypeOK' /\ Unmixed' /\ GoesOn(a)
  BY <1>1, <1>2, NativeSteps
<1>4. PICK s : Goes(a, s) /\ s.told = attempts[a].told /\ Running(a)
  BY <1>3 DEF GoesOn
<1>5. PICK r \in Rows : r = attempts[a].row
  BY <1>4, AttemptIs DEF Goes
<1>6. UNCHANGED <<screen, pending, queued, offers, accepts, agreed, network, ghosts, acts>>
      /\ holds' \in {holds, None}
  BY DEF Carries, Unblocks, Ends, Unwinds, Beside, Over
<1>7. UNCHANGED <<rows, handle, cancelled, pending, network, Granted, crossed>>
  BY <1>6 DEF screen, ghosts, Granted
<1>8. TypeScreen' /\ TypeBot' /\ acts' \in 0..Acts /\ crossed' = crossed /\ crossed' \subseteq Rows
  BY <1>1, <1>6, <1>7 DEF TypeScreen, TypeBot, TypeGhosts
<1>9. /\ \A q \in Rows \ {r} : rows'[q] = rows[q] /\ (q \in cancelled' <=> q \in cancelled)
      /\ rows'[r] = rows[r] /\ (Listed(r)' <=> Listed(r)) /\ (r \in cancelled' <=> r \in cancelled)
  BY <1>7 DEF Listed
<1>10. UNCHANGED <<handle, pending, network, Granted>>
  BY <1>7
<1> QED BY <1>3, <1>4, <1>5, <1>8, <1>9, <1>10, StepKeeps

LEMMA ProgressKeeps ==
    ASSUME Inv, NEW a \in Attempts, Progress(a)
    PROVE  Inv'
<1>1. NativeTypeOK /\ Unmixed /\ TypeScreen /\ TypeBot /\ TypeGhosts
  BY DEF Inv, Typed
<1>2. Under(a) /\ attempts[a] \in AttemptRec
  BY <1>1, UnderIs DEF Progress
<1>3. PICK r \in Rows : r = attempts[a].row
  BY <1>2, AttemptIs
<1>4. /\ attempts' = [attempts EXCEPT ![a].news = FALSE]
      /\ rows' = IF Listed(r) THEN [rows EXCEPT ![r].status = "downloading"] ELSE rows
      /\ crossed' = IF r \in cancelled THEN crossed \cup {r} ELSE crossed
      /\ UNCHANGED <<part, spoiled, mixed, handle, cancelled, pending, bot, network, Granted, acts>>
  BY <1>3 DEF Progress, Granted
<1> DEFINE s == [attempts[a] EXCEPT !.news = FALSE]
<1>5. /\ s \in AttemptRec /\ s.phase = Phase(a) /\ s.got = attempts[a].got /\ s.told = attempts[a].told
      /\ s.row = attempts[a].row /\ s.name = attempts[a].name
      /\ s.from = attempts[a].from /\ s.sends = attempts[a].sends
  BY <1>2 DEF AttemptRec, Phase
<1>6. attempts' = [attempts EXCEPT ![a] = s]
  BY <1>4
<1> HIDE DEF s
<1>7. Goes(a, s)
  BY <1>2, <1>5, <1>6 DEF Goes
<1>8. NativeTypeOK' /\ Unmixed'
  BY <1>1, <1>4, <1>5, <1>7, GoesWhole DEF Streaming, Phase
<1>9. /\ rows' \in [Rows -> RowRec] /\ \A q \in Rows \ {r} : rows'[q] = rows[q]
      /\ rows'[r].name = rows[r].name
      /\ Listed(r) => rows'[r].status = "downloading"
      /\ ~Listed(r) => rows'[r] = rows[r]
  <2> DEFINE row == [rows[r] EXCEPT !.status = "downloading"]
  <2>1. rows[r] \in RowRec /\ rows \in [Rows -> RowRec]
    BY <1>1 DEF TypeScreen
  <2>2. row \in RowRec /\ row.status = "downloading" /\ row.name = rows[r].name
    BY <2>1 DEF RowRec, Statuses
  <2>3. rows' = IF Listed(r) THEN [rows EXCEPT ![r] = row] ELSE rows
    BY <1>4
  <2> HIDE DEF row
  <2> QED BY <2>1, <2>2, <2>3
<1>10. /\ TypeScreen' /\ TypeBot' /\ acts' \in 0..Acts
       /\ crossed \subseteq crossed' /\ crossed' \subseteq Rows
  BY <1>1, <1>4, <1>9 DEF TypeScreen, TypeBot, TypeGhosts, bot
<1>11. /\ Listed(r)' <=> Listed(r)
       /\ rows'[r].status = "requested" => rows[r].status = "requested"
  BY <1>9 DEF Listed
<1>12. Running(a)' <=> Running(a)
  BY <1>1, <1>5, <1>6, NativeIs DEF Running, Phase
<1>13. r \notin crossed' => rows'[r].status = rows[r].status
  <2> SUFFICES ASSUME r \notin crossed' PROVE rows'[r].status = rows[r].status
    OBVIOUS
  <2>1. r \notin crossed /\ r \notin cancelled
    BY <1>4
  <2>2. InFlight(r)
    BY <1>2, <1>3, <2>1 DEF Inv, Uncrossed, Seen
  <2> QED BY <1>9, <2>2 DEF InFlight
<1>14. UNCHANGED <<handle, pending, network, Granted>>
       /\ \A q \in Rows : q \in cancelled' <=> q \in cancelled
  BY <1>4
<1> QED BY <1>3, <1>5, <1>7, <1>8, <1>9, <1>10, <1>11, <1>12, <1>13, <1>14, StepKeeps

LEMMA ListeningKeeps ==
    ASSUME Inv, NEW a \in Attempts, Listening(a)
    PROVE  Inv'
<1>1. NativeTypeOK /\ Unmixed /\ TypeScreen /\ TypeBot /\ TypeGhosts
  BY DEF Inv, Typed
<1>2. Phase(a) = "listening" /\ ~attempts[a].told
      /\ UNCHANGED <<part, spoiled, mixed, handle, pending, bot, network, Granted, acts>>
  BY DEF Listening, Granted
<1>3. Under(a) /\ attempts[a] \in AttemptRec /\ Running(a)
  BY <1>1, <1>2, UnderIs DEF None, Running
<1>4. PICK r \in Rows : r = attempts[a].row
  BY <1>3, AttemptIs
<1>5. TypeBot' /\ acts' \in 0..Acts /\ UNCHANGED <<handle, pending, network, Granted>>
  BY <1>1, <1>2 DEF TypeBot, TypeGhosts, bot
<1>6. CASE Moves(a, "waiting") /\ UNCHANGED <<rows, cancelled, crossed>>
  <2>1. PICK s : Goes(a, s) /\ s.phase = "waiting" /\ s.got = attempts[a].got /\ s.told = attempts[a].told
    BY <1>1, <1>3, <1>6, MovesIs DEF Phases
  <2>2. NativeTypeOK' /\ Unmixed'
    BY <1>1, <1>2, <2>1, GoesWhole DEF Early
  <2>3. TypeScreen' /\ crossed' = crossed /\ crossed' \subseteq Rows
        /\ (Listed(r)' <=> Listed(r)) /\ rows' = rows /\ cancelled' = cancelled
    BY <1>1, <1>5, <1>6 DEF TypeScreen, TypeGhosts, Listed
  <2> QED BY <1>3, <1>4, <1>5, <2>1, <2>2, <2>3, StepKeeps
<1>7. CASE /\ attempts' = [attempts EXCEPT ![a].told = TRUE]
           /\ cancelled' = cancelled \cup {r}
           /\ rows' = Patched(r, "failed")
           /\ crossed' = crossed \cup {r}
  <2> DEFINE s == [attempts[a] EXCEPT !.told = TRUE]
  <2>1. /\ s \in AttemptRec /\ s.phase = Phase(a) /\ s.got = attempts[a].got
        /\ s.row = attempts[a].row /\ s.name = attempts[a].name
        /\ s.from = attempts[a].from /\ s.sends = attempts[a].sends
    BY <1>3 DEF AttemptRec, Phase
  <2>2. attempts' = [attempts EXCEPT ![a] = s]
    BY <1>7
  <2> HIDE DEF s
  <2>3. Goes(a, s)
    BY <1>3, <2>1, <2>2 DEF Goes
  <2>4. NativeTypeOK' /\ Unmixed'
    BY <1>1, <1>2, <2>1, <2>3, GoesWhole
  <2>5. /\ rows' \in [Rows -> RowRec] /\ \A q \in Rows \ {r} : rows'[q] = rows[q]
        /\ rows'[r].name = rows[r].name
        /\ Listed(r) => rows'[r].status = "failed"
        /\ ~Listed(r) => rows'[r] = rows[r]
    BY <1>1, <1>7, PatchedIs DEF TypeScreen, Statuses
  <2>6. /\ Listed(r)' <=> Listed(r)
        /\ rows'[r].status = "requested" => rows[r].status = "requested"
    BY <2>5 DEF Listed
  <2>7. TypeScreen' /\ crossed \subseteq crossed' /\ crossed' \subseteq Rows /\ r \in crossed'
        /\ \A q \in Rows \ {r} : q \in cancelled' <=> q \in cancelled
    BY <1>1, <1>5, <1>7, <2>5 DEF TypeScreen, TypeGhosts
  <2> QED BY <1>4, <1>5, <2>3, <2>4, <2>5, <2>6, <2>7, StepKeeps
<1> QED BY <1>4, <1>6, <1>7 DEF Listening

LEMMA EndedIs ==
    ASSUME NativeTypeOK, NEW a \in Attempts
    PROVE  /\ Ended(a) \in [Attempts -> Tries] /\ Ended(a)[a] = NoAttempt
           /\ \A b \in Attempts \ {a} : Ended(a)[b] = attempts[b]
BY NativeIs DEF Ended, Tries

\* A transfer is over, and its row says what became of it.
LEMMA EndsKeeps ==
    ASSUME Inv, NEW a \in Attempts, Under(a), NEW r \in Rows, r = attempts[a].row,
           attempts' = Ended(a), handle' = [handle EXCEPT ![r] = None],
           UNCHANGED <<part, spoiled, mixed, pending, network, ghosts>>, TypeBot', acts' \in 0..Acts,
           cancelled' \subseteq cancelled, cancelled \subseteq cancelled' \cup {r},
           rows' \in [Rows -> RowRec], \A q \in Rows \ {r} : rows'[q] = rows[q],
           rows'[r].name = rows[r].name, Listed(r)' <=> Listed(r),
           rows'[r].status = "requested" => rows[r].status = "requested",
           r \notin crossed =>
              ~InFlight(r)' /\ (r \in Granted \/ rows'[r].status \notin {"requested", "downloading", "failed"})
    PROVE  Inv'
<1>1. NativeTypeOK /\ Unmixed /\ TypeScreen /\ TypePending /\ TypeGhosts
  BY DEF Inv, Typed
<1>2. /\ attempts' \in [Attempts -> Tries] /\ attempts'[a] = NoAttempt
      /\ \A b \in Attempts \ {a} : attempts'[b] = attempts[b]
  BY <1>1, EndedIs
<1>3. UNCHANGED <<queue, watchdogs, asking, resumes, Granted, crossed>>
  BY DEF pending, ghosts, Granted
<1>4. ~Under(a)' /\ \A b \in Attempts : Under(b)' => b # a /\ Under(b) /\ attempts'[b] = attempts[b]
                                                     /\ (Running(b)' <=> Running(b)) /\ Phase(b)' = Phase(b)
  BY <1>2 DEF Under, Running, Phase
<1>5. NativeTypeOK'
  BY <1>1, <1>2, NativeIs DEF NativeTypeOK, Tries, AttemptRec, Phases
<1>6. Typed'
  BY <1>1, <1>3, <1>5 DEF Typed, TypeScreen, TypePending, TypeGhosts
<1>7. \A q \in Rows : Listed(q)' <=> Listed(q)
  BY DEF Listed
<1>8. \A q : (AskingFor(q)' <=> AskingFor(q)) /\ (Negotiating(q)' <=> Negotiating(q))
  BY <1>3 DEF AskingFor, Negotiating
<1>9. Gone'
  BY <1>3, <1>7 DEF Inv, Gone
<1>10. NamesKept'
  <2>1. NamesKept /\ Names \subseteq Rows
    BY DEF Inv, Rows
  <2>2. \A q \in Rows : rows'[q].name = rows[q].name
    OBVIOUS
  <2> QED BY <1>3, <1>4, <1>7, <2>1, <2>2 DEF NamesKept
<1>11. Handles'
  <2> SUFFICES ASSUME NEW q \in Rows, handle'[q] # None
               PROVE  attempts'[handle'[q]] # NoAttempt /\ attempts'[handle'[q]].row = q
    BY DEF Handles, Under
  <2>1. q # r /\ handle'[q] = handle[q] /\ handle[q] \in Attempts
    BY <1>1 DEF TypeScreen
  <2>2. attempts[handle[q]] # NoAttempt /\ attempts[handle[q]].row = q
    BY <2>1 DEF Inv, Handles, Under
  <2>3. handle[q] # a
    BY <2>1, <2>2
  <2> QED BY <1>2, <2>1, <2>2, <2>3
<1>12. Unmixed'
  <2> SUFFICES ASSUME NEW m \in Rows \ mixed PROVE Whole(m)'
    BY DEF Unmixed
  <2>1. Whole(m)
    BY <1>1 DEF Unmixed
  <2>2. \A b \in Attempts : Streaming(b)' => Under(b)'
    BY <1>2, AttemptIs DEF Phase, Under, None, Streaming
  <2> QED BY <1>4, <2>1, <2>2 DEF Whole, Streaming, Phase
<1>13. ASSUME NEW q \in Rows \ crossed PROVE Single(q)' /\ Seen(q)' /\ Wanted(q)'
  <2>1. Single(q) /\ Seen(q) /\ Wanted(q)
    BY <1>13 DEF Inv, Uncrossed
  <2>2. OnceAsked(q)' /\ OnceMeant(q)'
    BY <1>3, <2>1, OnceStays
  <2>3. CASE q = r
    <3>1. ~AskingFor(r)' /\ ~Negotiating(r)' /\ r \notin ToSet(queue')
      BY <1>3, <1>8, <2>1, <2>3 DEF Single, Busy
    <3>2. \A b \in Attempts : ~(Under(b)' /\ attempts'[b].row = r)
      BY <1>4, <2>1, <2>3 DEF Single
    <3>3. Single(r)'
      BY <2>2, <2>3, <3>1, <3>2 DEF Single, OnceAsked, OnceMeant
    <3>4. Seen(r)' /\ Wanted(r)'
      BY <1>3, <1>13, <2>3, <3>1, <3>2 DEF Seen, Wanted
    <3> QED BY <2>3, <3>3, <3>4
  <2>4. CASE q # r
    <3>1. rows'[q].status = rows[q].status /\ handle'[q] = handle[q] /\ (q \in cancelled' <=> q \in cancelled)
      BY <1>1, <2>4 DEF TypeScreen
    <3>2. \A b \in Attempts : Under(b)' /\ attempts'[b].row = q =>
              /\ Under(b) /\ attempts[b].row = q /\ attempts'[b].told = attempts[b].told
              /\ Running(b)' => Running(b)
      BY <1>4
    <3> QED BY <1>3, <1>8, <2>1, <2>2, <3>1, <3>2, RowStays
  <2> QED BY <2>3, <2>4
<1>14. Uncrossed'
  BY <1>3, <1>13 DEF Uncrossed
<1>15. RequestedIsWatched'
  <2>1. \A q \in Rows : rows'[q].status = "requested" => rows[q].status = "requested"
    OBVIOUS
  <2> QED BY <1>3, <1>8, <2>1 DEF Inv, RequestedIsWatched
<1>16. QueueIsListed'
  <2>1. ToSet(queue) \subseteq Rows
    BY <1>1 DEF TypePending, ToSet, Rows
  <2> QED BY <1>3, <1>7, <2>1 DEF Inv, QueueIsListed
<1> QED BY <1>6, <1>9, <1>10, <1>11, <1>12, <1>14, <1>15, <1>16 DEF Inv

\* What a settled transfer says of its row.
LEMMA SettledIs ==
    ASSUME Inv, NEW a \in Attempts, Under(a)
    PROVE  /\ attempts[a] \in AttemptRec
           /\ \A r \in Rows : r = attempts[a].row =>
                 /\ handle[r] \in Attempts \cup {None}
                 /\ r \notin crossed =>
                       /\ r \in cancelled \/ (r \in Granted /\ Listed(r) /\ InFlight(r))
                       /\ r \in cancelled => ~InFlight(r)
                       /\ ~AskingFor(r) /\ ~Negotiating(r) /\ r \notin ToSet(queue)
                       /\ Wanted(r) /\ \A b \in Attempts : Under(b) /\ attempts[b].row = r => b = a
<1>1. attempts[a] \in AttemptRec
  BY UnderIs DEF Inv, Typed
<1>2. ASSUME NEW r \in Rows, r = attempts[a].row, r \notin crossed
      PROVE  /\ r \in cancelled \/ (r \in Granted /\ Listed(r) /\ InFlight(r))
             /\ r \in cancelled => ~InFlight(r)
             /\ ~AskingFor(r) /\ ~Negotiating(r) /\ r \notin ToSet(queue)
             /\ Wanted(r) /\ \A b \in Attempts : Under(b) /\ attempts[b].row = r => b = a
  <2>1. Single(r) /\ Seen(r) /\ Wanted(r)
    BY <1>2 DEF Inv, Uncrossed
  <2>2. r \notin cancelled <=> InFlight(r)
    BY <1>2, <2>1 DEF Seen
  <2>3. InFlight(r) => Listed(r) /\ r \in Granted
    BY <2>1 DEF Wanted, InFlight, Listed
  <2>4. ~AskingFor(r) /\ ~Negotiating(r) /\ r \notin ToSet(queue)
    BY <1>2, <2>1 DEF Single, Busy
  <2>5. \A b \in Attempts : Under(b) /\ attempts[b].row = r => b = a
    BY <1>2, <2>1 DEF Single
  <2> QED BY <2>1, <2>2, <2>3, <2>4, <2>5
<1>3. \A r \in Rows : handle[r] \in Attempts \cup {None}
  BY DEF Inv, Typed, TypeScreen
<1> QED BY <1>1, <1>2, <1>3

LEMMA ResolvesKeeps ==
    ASSUME Inv, NEW a \in Attempts, Resolves(a)
    PROVE  Inv'
<1>1. NativeTypeOK /\ TypeScreen /\ TypeBot /\ TypeGhosts
  BY DEF Inv, Typed
<1>2. Under(a)
  BY <1>1, UnderIs DEF Resolves, None
<1>3. PICK r \in Rows : r = attempts[a].row
  BY <1>2, SettledIs, AttemptIs
<1>4. /\ handle' = [handle EXCEPT ![r] = None] /\ rows' = Patched(r, "downloaded")
      /\ attempts' = Ended(a)
      /\ UNCHANGED <<part, spoiled, mixed, cancelled, pending, bot, network, ghosts, acts>>
  BY <1>3 DEF Resolves
<1>5. /\ rows' \in [Rows -> RowRec] /\ \A q \in Rows \ {r} : rows'[q] = rows[q]
      /\ rows'[r].name = rows[r].name
      /\ Listed(r) => rows'[r].status = "downloaded"
      /\ ~Listed(r) => rows'[r] = rows[r]
  BY <1>1, <1>4, PatchedIs DEF TypeScreen, Statuses
<1>6. /\ Listed(r)' <=> Listed(r)
      /\ rows'[r].status \notin {"requested", "downloading", "failed"}
      /\ ~InFlight(r)'
  BY <1>5 DEF Listed, InFlight
<1>7. TypeBot' /\ acts' \in 0..Acts
  BY <1>1, <1>4 DEF TypeBot, TypeGhosts, bot
<1>8. UNCHANGED <<part, spoiled, mixed, pending, network, ghosts>>
      /\ cancelled' \subseteq cancelled /\ cancelled \subseteq cancelled' \cup {r}
  BY <1>4
<1> QED BY <1>2, <1>3, <1>4, <1>5, <1>6, <1>7, <1>8, EndsKeeps

LEMMA RejectsKeeps ==
    ASSUME Inv, NEW a \in Attempts, Rejects(a)
    PROVE  Inv'
<1>1. NativeTypeOK /\ Unmixed /\ TypeScreen /\ TypePending /\ TypeBot /\ TypeGhosts
  BY DEF Inv, Typed
<1>2. Under(a)
  BY <1>1, UnderIs DEF Rejects, None
<1>3. PICK r \in Rows : r = attempts[a].row
  BY <1>2, SettledIs, AttemptIs
<1>4. /\ handle[r] \in Attempts \cup {None}
      /\ r \notin crossed =>
            /\ r \in cancelled \/ (r \in Granted /\ Listed(r) /\ InFlight(r))
            /\ r \in cancelled => ~InFlight(r)
            /\ ~AskingFor(r) /\ ~Negotiating(r) /\ r \notin ToSet(queue)
            /\ Wanted(r) /\ \A b \in Attempts : Under(b) /\ attempts[b].row = r => b = a
  BY <1>2, <1>3, SettledIs
<1>5. UNCHANGED <<part, spoiled, mixed, pending, offers, accepts, agreed, network, ghosts, acts>>
  BY DEF Rejects
<1>6. UNCHANGED <<queue, watchdogs, asking, resumes, Granted, crossed>>
  BY <1>5 DEF pending, ghosts, Granted
<1>7. acts' \in 0..Acts /\ UNCHANGED <<part, spoiled, mixed, pending, network, ghosts>>
  BY <1>1, <1>5 DEF TypeGhosts
<1>8. CASE /\ r \in cancelled
           /\ cancelled' = cancelled \ {r} /\ handle' = [handle EXCEPT ![r] = None]
           /\ attempts' = Ended(a)
           /\ UNCHANGED <<rows, queued, holds>>
  <2>1. TypeBot' /\ rows' \in [Rows -> RowRec]
    BY <1>1, <1>5, <1>8 DEF TypeBot, TypeScreen
  <2>2. (Listed(r)' <=> Listed(r)) /\ (InFlight(r)' <=> InFlight(r)) /\ rows' = rows
    BY <1>8 DEF Listed, InFlight
  <2>3. r \notin crossed =>
           ~InFlight(r)' /\ (r \in Granted \/ rows'[r].status \notin {"requested", "downloading", "failed"})
    BY <1>4, <1>8, <2>2 DEF Wanted
  <2>4. cancelled' \subseteq cancelled /\ cancelled \subseteq cancelled' \cup {r}
    BY <1>8
  <2> QED BY <1>2, <1>3, <1>7, <1>8, <2>1, <2>2, <2>3, <2>4, EndsKeeps
<1>9. CASE /\ r \notin cancelled
           /\ rows' = Patched(r, "failed") /\ handle' = [handle EXCEPT ![r] = None]
           /\ attempts' = Ended(a)
           /\ Withdraws(r) /\ UNCHANGED cancelled
  <2>1. TypeBot'
    BY <1>1, <1>5, <1>9 DEF TypeBot, Withdraws
  <2>2. /\ rows' \in [Rows -> RowRec] /\ \A q \in Rows \ {r} : rows'[q] = rows[q]
        /\ rows'[r].name = rows[r].name
        /\ Listed(r) => rows'[r].status = "failed"
        /\ ~Listed(r) => rows'[r] = rows[r]
    BY <1>1, <1>9, PatchedIs DEF TypeScreen, Statuses
  <2>3. /\ Listed(r)' <=> Listed(r)
        /\ rows'[r].status # "requested" /\ ~InFlight(r)'
    BY <2>2 DEF Listed, InFlight
  <2>4. r \notin crossed => r \in Granted
    BY <1>4, <1>9
  <2>5. cancelled' \subseteq cancelled /\ cancelled \subseteq cancelled' \cup {r}
    BY <1>9
  <2> QED BY <1>2, <1>3, <1>7, <1>9, <2>1, <2>2, <2>3, <2>4, <2>5, EndsKeeps
<1>10. CASE /\ r \notin cancelled
            /\ Launch(Ended(a), r, attempts[a].name, attempts[a].from, attempts[a].sends, FALSE, FALSE)
            /\ UNCHANGED <<queued, holds>>
  <2>1. PICK table \in [Attempts -> Tries] : table = Ended(a)
    BY <1>1, EndedIs
  <2>2. table[a] = NoAttempt /\ \A b \in Attempts \ {a} : table[b] = attempts[b]
    BY <1>1, <2>1, EndedIs
  <2>3. \A b \in Attempts : table[b] = attempts[b] \/ table[b] = NoAttempt
    BY <2>2
  <2>4. PICK n \in Rows, from \in 0..Size, sends \in 0..Size :
           n = attempts[a].name /\ from = attempts[a].from /\ sends = attempts[a].sends
    BY <1>2, SettledIs, AttemptIs
  <2>5. PICK no \in BOOLEAN : Launch(table, r, n, from, sends, no, no)
    BY <1>10, <2>1, <2>4
  <2>6. r \in Names => n = r
    BY <1>2, <1>3, <2>4 DEF Inv, NamesKept
  <2>7. \A q \in Rows \ {r} : handle[q] # None => table[handle[q]] = attempts[handle[q]]
    BY <1>1, <1>3, <2>2 DEF Inv, Handles, TypeScreen
  <2>8. n \notin mixed' => sends = from
    BY <1>1, <1>2, <1>5, <2>4 DEF Unmixed, Whole
  <2>9. TypePending' /\ TypeBot' /\ TypeGhosts'
    BY <1>1, <1>5, <1>6, <1>10 DEF TypePending, TypeBot, TypeGhosts
  <2>10. \A q : (AskingFor(q)' <=> AskingFor(q)) /\ (Negotiating(q)' <=> Negotiating(q))
                /\ (OnceAsked(q)' <=> OnceAsked(q))
    BY <1>6 DEF AskingFor, Negotiating, OnceAsked
  <2>11. \A k \in DOMAIN asking' : \E j \in DOMAIN asking : asking'[k] = asking[j]
    BY <1>6
  <2>12. r \notin crossed =>
              /\ r \in Granted /\ Listed(r) /\ r \notin ToSet(queue)
              /\ ~AskingFor(r)' /\ ~Negotiating(r)'
              /\ \A b \in Attempts : Under(b) /\ attempts[b].row = r => table[b] = NoAttempt
    BY <1>4, <1>10, <2>2, <2>10
  <2>13. /\ UNCHANGED <<part, spoiled, queue, watchdogs, network, Granted, crossed>>
         /\ resumes' \subseteq resumes /\ mixed \subseteq mixed' /\ mixed' \subseteq Rows
    BY <1>1, <1>5, <1>6, NativeIs
  <2>14. \A q \in Rows \ {r} : /\ OnceAsked(q) => OnceAsked(q)'
                               /\ AskingFor(q) => AskingFor(q)'
                               /\ Negotiating(q) => Negotiating(q)'
    BY <2>10
  <2> QED BY <2>3, <2>5, <2>6, <2>7, <2>8, <2>9, <2>11, <2>12, <2>13, <2>14, LaunchKeeps
<1> QED BY <1>3, <1>8, <1>9, <1>10 DEF Rejects

----------------------------------------------------------------------------
(* The theorems.                                                           *)

LEMMA InvInit ==
    ASSUME Init
    PROVE  Inv
<1>1. /\ attempts = [a \in Attempts |-> NoAttempt]
      /\ part \in [Rows -> {[len |-> 0, right |-> TRUE], [len |-> 1, right |-> TRUE]}]
      /\ spoiled = {} /\ mixed = {}
  BY DEF Init, NativeInit
<1>2. \A a \in Attempts : ~Under(a)
  BY <1>1 DEF Under
<1>3. part \in [Rows -> [len : 0..Size, right : BOOLEAN]] /\ \A n \in Rows : part[n].right
  <2>1. {[len |-> 0, right |-> TRUE], [len |-> 1, right |-> TRUE]} \subseteq [len : 0..Size, right : BOOLEAN]
    BY NoneIs
  <2> QED BY <1>1, <2>1
<1>4. NativeTypeOK
  BY <1>1, <1>3, NativeIs DEF Tries
<1>5. Unmixed
  BY <1>1, <1>2, <1>3 DEF Unmixed, Whole
<1>6. PICK listed \in SUBSET Packs :
         rows = [r \in Rows |-> IF r \in listed
                                 THEN [Absent EXCEPT !.status = "available", !.name = File] ELSE Absent]
  BY DEF Init
<1> DEFINE row == [Absent EXCEPT !.status = "available", !.name = File]
<1>7. row \in RowRec /\ row.status = "available" /\ row.name = File
  BY TransfersAssumption DEF Absent, RowRec, Statuses, Rows
<1>8. rows = [r \in Rows |-> IF r \in listed THEN row ELSE Absent]
  BY <1>6
<1> HIDE DEF row
<1>9. /\ rows \in [Rows -> RowRec]
      /\ \A r \in Rows : \/ r \in listed /\ rows[r].status = "available" /\ rows[r].name = File
                         \/ r \notin listed /\ rows[r].status = "absent" /\ rows[r].name = None
  BY <1>7, <1>8, AbsentIs
<1>10. File # None /\ File \in Rows
  BY TransfersAssumption, NoneIs DEF Rows
<1>11. /\ handle = [r \in Rows |-> None] /\ cancelled = {}
       /\ queue = <<>> /\ watchdogs = {} /\ asking = <<>> /\ resumes = {}
       /\ network = TRUE
       /\ queued = {} /\ holds = None /\ offers = {} /\ accepts = {}
       /\ agreed = [n \in Rows |-> 0]
       /\ Granted = {} /\ crossed = {} /\ acts = 0
  BY DEF Init, Granted
<1>12. DOMAIN asking = {} /\ ToSet(queue) = {} /\ asking \in Seq(Plans) /\ queue \in Seq(Packs) /\ Len(asking) = 0
  BY <1>11 DEF ToSet
<1>13. Typed
  BY <1>4, <1>9, <1>11, <1>12, NoneIs, TransfersAssumption
     DEF Typed, TypeScreen, TypePending, TypeBot, TypeGhosts
<1>14. Gone
  BY <1>11 DEF Gone
<1>15. NamesKept
  <2>1. \A r \in Names : r \notin listed /\ r \in Rows
    BY DownloadAssumption DEF Rows
  <2> QED BY <1>2, <1>9, <1>10, <1>11, <1>12, <2>1 DEF NamesKept, Listed
<1>16. Handles /\ RequestedIsWatched /\ QueueIsListed
  BY <1>9, <1>11, <1>12 DEF Handles, RequestedIsWatched, QueueIsListed
<1>17. \A r : ~AskingFor(r) /\ ~Negotiating(r)
  BY <1>11, <1>12 DEF AskingFor, Negotiating
<1>18. ASSUME NEW r \in Rows PROVE Single(r) /\ Seen(r) /\ Wanted(r)
  <2>1. ~InFlight(r) /\ rows[r].status \notin {"requested", "downloading", "failed"}
    BY <1>9 DEF InFlight
  <2>2. Single(r)
    BY <1>2, <1>11, <1>12, <1>17 DEF Single
  <2> QED BY <1>2, <1>12, <1>17, <2>1, <2>2 DEF Seen, Wanted
<1>19. Uncrossed
  BY <1>18 DEF Uncrossed
<1> QED BY <1>5, <1>13, <1>14, <1>15, <1>16, <1>19 DEF Inv

LEMMA InvStutters ==
    ASSUME Inv, UNCHANGED vars
    PROVE  Inv'
<1>1. UNCHANGED <<native, screen, pending, network, ghosts>> /\ UNCHANGED bot /\ acts' = acts
  BY DEF vars
<1>2. TypeBot' /\ acts' \in 0..Acts
  BY <1>1 DEF Inv, Typed, TypeBot, TypeGhosts, bot
<1> QED BY <1>1, <1>2, BesideKeeps

LEMMA InvNext ==
    ASSUME Inv, [Next]_vars
    PROVE  Inv'
<1>1. ASSUME Timers PROVE Inv'
  BY <1>1, WatchdogFiresKeeps, AnsweredKeeps, ResumeGivesUpKeeps DEF Timers
<1>2. ASSUME User PROVE Inv'
  BY <1>2, ReadsCatalogueKeeps, ClearsKeeps, RemovesNetworkKeeps, DownloadsKeeps, TypesKeeps,
     CancelsKeeps, DismissesKeeps DEF User
<1>3. ASSUME Bot PROVE Inv'
  BY <1>3, BotKeeps, ReadsNoticeKeeps, ReadsUnreadableKeeps, ReadsOfferKeeps, ReadsAcceptKeeps
     DEF Bot
<1>4. ASSUME NEW a \in Attempts, Transfer(a) PROVE Inv'
  BY <1>4, ShellKeeps, ProgressKeeps, ListeningKeeps, ResolvesKeeps, RejectsKeeps DEF Transfer
<1> QED BY <1>1, <1>2, <1>3, <1>4, InvStutters DEF Next

LEMMA InvTells ==
    ASSUME Inv
    PROVE  RowsTell /\ FetchesAsAsked
<1>1. TypeOK /\ RequestedIsWatched /\ QueueIsListed /\ NativeTypeOK
  BY TypesAre DEF Inv, Typed
<1>2. ASSUME NEW a \in Attempts, Running(a), ~attempts[a].told, attempts[a].row \notin crossed
      PROVE  /\ InFlight(attempts[a].row) /\ handle[attempts[a].row] = a
             /\ attempts[a].row \in Granted
  <2>1. Under(a) /\ attempts[a].row \in Rows
    BY <1>1, <1>2, UnderIs, AttemptIs
  <2>2. PICK r \in Rows : r = attempts[a].row
    BY <2>1
  <2>3. Single(r) /\ Seen(r) /\ Wanted(r)
    BY <1>2, <2>2 DEF Inv, Uncrossed
  <2>4. InFlight(r) /\ handle[r] = a
    BY <1>2, <2>1, <2>2, <2>3 DEF Single, Seen
  <2> QED BY <2>2, <2>3, <2>4 DEF Wanted, InFlight
<1>3. RunningIsShown
  BY <1>2 DEF RunningIsShown
<1>4. DownloadingRuns
  BY DEF Inv, Uncrossed, Seen, Handles, DownloadingRuns
<1>5. Invited
  BY <1>2 DEF Invited, Granted
<1>6. SavedWhole
  BY <1>1, NativeIs DEF Inv, Unmixed, Whole, SavedWhole
<1> QED BY <1>1, <1>3, <1>4, <1>5, <1>6 DEF RowsTell, FetchesAsAsked

\* What runs has a row that shows and stops it, what says it arrives does, what
\* waits is watched and what is queued is listed, in all that can happen to the
\* rows, the bot and the transfers (Marmotter.tsx 1565-1567, 1930-1942, 2242-2250).
THEOREM RowsAlwaysTell == Spec => []RowsTell
<1>1. Init => Inv
  BY InvInit
<1>2. Inv /\ [Next]_vars => Inv'
  BY InvNext
<1>3. Inv => RowsTell
  BY InvTells
<1> QED BY <1>1, <1>2, <1>3, PTL DEF Spec

\* Only what was asked for is fetched, or what an offer nobody could read has
\* named, and what is saved under a name nothing was mixed up for is the sender's
\* file, whatever its size (view-store.ts 206-218 and 1095-1123,
\* dcc.rs 489-492).
THEOREM AlwaysAsAsked == Spec => []FetchesAsAsked
<1>1. Init => Inv
  BY InvInit
<1>2. Inv /\ [Next]_vars => Inv'
  BY InvNext
<1>3. Inv => FetchesAsAsked
  BY InvTells
<1> QED BY <1>1, <1>2, <1>3, PTL DEF Spec

\* What starts is downloading.
LEMMA StartsShows ==
    ASSUME Inv, NEW plan \in Plans, NEW from \in 0..Size, Starts(plan, from), NEW r \in Rows
    PROVE  rows'[r] = rows[r] \/ rows'[r].status = "downloading"
<1>1. TypeScreen /\ attempts \in [Attempts -> Tries] /\ TypeBot
  BY NativeIs DEF Inv, Typed
<1>2. plan.row \in Rows /\ plan.name \in Rows /\ plan.passive \in BOOLEAN
  BY DEF Plans
<1>3. agreed[plan.name] \in 0..Size
  BY <1>1, <1>2 DEF TypeBot
<1>4. CASE UNCHANGED <<attempts, screen>>
  BY <1>4 DEF screen
<1>5. CASE \E private \in BOOLEAN :
              Launch(attempts, plan.row, plan.name, from, agreed[plan.name], private, plan.passive)
  <2>1. PICK private \in BOOLEAN :
              Launch(attempts, plan.row, plan.name, from, agreed[plan.name], private, plan.passive)
    BY <1>5
  <2>2. PICK a \in Attempts, s \in AttemptRec :
              Begun(attempts, plan.row, plan.name, from, agreed[plan.name], a, s)
    BY <1>1, <1>2, <1>3, <2>1, LaunchIs
  <2> QED BY <2>2 DEF Begun
<1> QED BY <1>4, <1>5, TransfersAssumption DEF Starts

\* A row that was downloading fails with its transfer, or two things crossed.
LEMMA FailsOnlyThere ==
    ASSUME Inv, [Next]_vars, NEW r \in Packs, rows[r].status = "downloading", rows'[r].status = "failed"
    PROVE  r \in crossed' \/ holds' = None
<1>0. r \in Rows /\ rows[r].status # rows'[r].status /\ Listed(r)
  BY DEF Rows, Listed
<1>1. TypeScreen /\ TypePending /\ TypeBot /\ NativeTypeOK /\ 0 \in 0..Size
  BY NoneIs DEF Inv, Typed
<1>2. \A status \in Statuses, q \in Rows : q # r \/ Patched(q, status)[r].status = status
  BY <1>0, <1>1, PatchedIs DEF TypeScreen
<1>3. \A status \in Statuses, q \in Rows : q # r => Patched(q, status)[r] = rows[r]
  BY <1>0, <1>1, PatchedIs DEF TypeScreen
<1>4. CASE UNCHANGED rows
  BY <1>0, <1>4
<1>5. CASE Timers
  <2>1. CASE WatchdogFires
    <3>1. PICK q \in watchdogs : rows' = IF rows[q].status = "requested" THEN Patched(q, "failed") ELSE rows
      BY <2>1 DEF WatchdogFires
    <3>2. q \in Rows
      BY <1>1 DEF TypePending
    <3> QED BY <1>0, <1>3, <3>1, <3>2 DEF Statuses
  <2>2. ASSUME NEW q \in Rows, Answered(q) PROVE FALSE
    <3>1. PICK i \in DOMAIN asking, already \in Answers : ShellAnswers(i, already)
      BY <2>2 DEF Answered
    <3>2. PICK plan : plan = asking[i]
      OBVIOUS
    <3>3. plan \in Plans /\ plan.row \in Rows
      <4>1. asking \in Seq(Plans)
        BY <1>1 DEF TypePending
      <4>2. plan \in Plans
        BY <3>2, <4>1
      <4> QED BY <4>2 DEF Plans
    <3>4. Starts(plan, 0) \/ rows' = Patched(plan.row, "requested")
      BY <3>1, <3>2 DEF ShellAnswers
    <3> QED BY <1>0, <1>1, <1>2, <1>3, <3>3, <3>4, StartsShows DEF Statuses
  <2>3. ASSUME NEW q \in Rows, ResumeGivesUp(q) PROVE FALSE
    <3>1. PICK e \in resumes : Starts(e, 0)
      BY <2>3 DEF ResumeGivesUp
    <3>2. e \in Plans
      BY <1>1 DEF TypePending
    <3> QED BY <1>0, <1>1, <3>1, <3>2, StartsShows
  <2> QED BY <1>5, <2>1, <2>2, <2>3 DEF Timers
<1>6. CASE User
  <2>1. CASE ReadsCatalogue
    <3>1. PICK q \in Packs : ~Listed(q)
             /\ rows' = [rows EXCEPT ![q] = [Absent EXCEPT !.status = "available", !.name = File]]
      BY <2>1 DEF ReadsCatalogue
    <3>2. q # r
      BY <1>0, <3>1
    <3> QED BY <1>0, <1>1, <3>1, <3>2 DEF TypeScreen
  <2>2. CASE Clears
    <3>1. rows'[r] = Absent \/ rows'[r] = rows[r]
      BY <1>0, <2>2 DEF Clears
    <3> QED BY <1>0, <3>1, AbsentIs
  <2>3. CASE RemovesNetwork
    BY <1>0, <2>3 DEF RemovesNetwork
  <2>4. ASSUME NEW q \in Rows, Downloads(q) PROVE FALSE
    <3>1. rows' = Patched(q, "requested") \/ UNCHANGED rows
      BY <2>4 DEF Downloads, screen
    <3> QED BY <1>0, <1>2, <1>3, <3>1 DEF Statuses
  <2>5. ASSUME NEW q \in Rows, Types(q) PROVE FALSE
    <3>1. rows' = [rows EXCEPT ![q].status = "requested", ![q].awaiting = FALSE,
                               ![q].name = IF Listed(q) THEN rows[q].name ELSE q]
      BY <2>5 DEF Types
    <3>2. CASE q = r
      <4> DEFINE row == [rows[q] EXCEPT !.status = "requested", !.awaiting = FALSE,
                                        !.name = IF Listed(q) THEN rows[q].name ELSE q]
      <4>1. rows' = [rows EXCEPT ![q] = row]
        BY <1>1, <3>1 DEF TypeScreen
      <4>2. rows[q] \in RowRec
        BY <1>1 DEF TypeScreen
      <4>3. row.status = "requested"
        BY <4>2 DEF RowRec
      <4> HIDE DEF row
      <4> QED BY <1>0, <1>1, <3>2, <4>1, <4>3 DEF TypeScreen
    <3>3. CASE q # r
      BY <1>0, <1>1, <3>1, <3>3 DEF TypeScreen
    <3> QED BY <3>2, <3>3
  <2>6. ASSUME NEW q \in Rows, Cancels(q) PROVE FALSE
    <3>1. rows' = Patched(q, "available")
      BY <2>6 DEF Cancels
    <3> QED BY <1>0, <1>2, <1>3, <3>1 DEF Statuses
  <2>7. ASSUME NEW q \in Rows, Dismisses(q) PROVE FALSE
    <3>1. rows' = [rows EXCEPT ![q] = Absent]
      BY <2>7 DEF Dismisses
    <3> QED BY <1>0, <1>1, <3>1, AbsentIs DEF TypeScreen
  <2> QED BY <1>6, <2>1, <2>2, <2>3, <2>4, <2>5, <2>6, <2>7 DEF User
<1>7. CASE Bot
  <2>1. CASE ReadsNotice
    <3>1. PICK q \in Packs, kind \in {"sending", "queued", "dropped"} :
             \/ UNCHANGED rows
             \/ /\ rows[q].status = "requested"
                /\ rows' = IF kind = "dropped" THEN Patched(q, "failed")
                           ELSE [Patched(q, "requested") EXCEPT ![q].awaiting = (kind = "sending")]
      BY <2>1 DEF ReadsNotice
    <3>2. CASE UNCHANGED rows
      BY <1>0, <3>2
    <3>3. CASE ~UNCHANGED rows
      <4>1. q # r /\ q \in Rows
        BY <3>1, <3>3 DEF Rows
      <4>2. Patched(q, "failed")[r] = rows[r] /\ Patched(q, "requested")[r] = rows[r]
        BY <1>3, <4>1 DEF Statuses
      <4>3. Patched(q, "requested") \in [Rows -> RowRec]
        BY <1>1, <4>1, PatchedIs DEF TypeScreen, Statuses
      <4> QED BY <1>0, <3>1, <3>3, <4>1, <4>2, <4>3
    <3> QED BY <3>2, <3>3
  <2>2. CASE ReadsOffer
    <3>1. PICK n \in offers : \/ UNCHANGED rows
                              \/ rows' = [rows EXCEPT ![n] = [Absent EXCEPT !.status = "available", !.name = n]]
      BY <2>2 DEF ReadsOffer
    <3>2. n # r
      BY <1>1, DownloadAssumption DEF TypeBot
    <3> QED BY <1>0, <1>1, <3>1, <3>2 DEF TypeScreen
  <2>5. CASE ReadsUnreadable
    <3>1. PICK n \in Names : rows' = [rows EXCEPT ![n] = [Absent EXCEPT !.status = "failed", !.name = n,
                                                                     !.address = "none"]]
      BY <2>5 DEF ReadsUnreadable
    <3>2. n # r
      BY DownloadAssumption
    <3> QED BY <1>0, <1>1, <3>1, <3>2 DEF TypeScreen
  <2>3. CASE ReadsAccept
    <3>1. UNCHANGED rows \/ \E e \in resumes, n \in accepts : Starts(e, agreed[n])
      BY <2>3 DEF ReadsAccept, screen
    <3>2. CASE \E e \in resumes, n \in accepts : Starts(e, agreed[n])
      <4>1. PICK e \in resumes, from \in 0..Size : Starts(e, from)
        BY <1>1, <3>2 DEF TypeBot
      <4>2. e \in Plans
        BY <1>1 DEF TypePending
      <4> QED BY <1>0, <4>1, <4>2, StartsShows
    <3> QED BY <1>4, <3>1, <3>2
  <2>4. CASE BotOpens \/ BotOffers \/ BotGivesUp
    BY <1>0, <2>4 DEF BotOpens, BotOffers, BotGivesUp, Same, screen
  <2> QED BY <1>7, <2>1, <2>2, <2>3, <2>4, <2>5 DEF Bot
<1>8. ASSUME NEW a \in Attempts, Transfer(a) PROVE r \in crossed' \/ holds' = None
  <2>1. CASE Carries(a) \/ Unblocks(a) \/ Ends(a) \/ Unwinds(a)
    BY <1>0, <2>1 DEF Carries, Unblocks, Ends, Unwinds, Beside, screen
  <2>2. CASE Progress(a) \/ Listening(a) \/ Resolves(a) \/ Rejects(a)
    <3>1. Under(a) /\ attempts[a] \in AttemptRec
      BY <1>1, <2>2, UnderIs DEF Progress, Listening, Resolves, Rejects, None
    <3>2. PICK q \in Rows : q = attempts[a].row
      BY <3>1, AttemptIs
    <3>3. CASE Progress(a)
      <4>1. rows' = IF Listed(q) THEN [rows EXCEPT ![q].status = "downloading"] ELSE rows
        BY <3>2, <3>3 DEF Progress
      <4> QED BY <1>0, <1>1, <4>1 DEF TypeScreen
    <3>4. CASE Listening(a)
      <4>1. UNCHANGED rows \/ (rows' = Patched(q, "failed") /\ crossed' = crossed \cup {q})
        BY <3>2, <3>4 DEF Listening
      <4> QED BY <1>0, <1>3, <4>1 DEF Statuses
    <3>5. CASE Resolves(a)
      <4>1. rows' = Patched(q, "downloaded")
        BY <3>2, <3>5 DEF Resolves
      <4> QED BY <1>0, <1>2, <1>3, <4>1 DEF Statuses
    <3>6. CASE Rejects(a)
      <4>1. \/ UNCHANGED rows
            \/ Launch(Ended(a), q, attempts[a].name, attempts[a].from, attempts[a].sends, FALSE, FALSE)
            \/ rows' = Patched(q, "failed") /\ Withdraws(q)
        BY <3>2, <3>6 DEF Rejects
      <4>2. CASE Launch(Ended(a), q, attempts[a].name, attempts[a].from, attempts[a].sends, FALSE, FALSE)
        <5>1. \/ UNCHANGED rows
              \/ \E tried, address :
                    rows' = [rows EXCEPT ![q] = [status |-> "downloading", name |-> attempts[a].name,
                                                 awaiting |-> FALSE, tried |-> tried,
                                                 address |-> address]]
          BY <4>2 DEF Launch
        <5> QED BY <1>0, <1>1, <5>1 DEF TypeScreen
      <4>3. CASE rows' = Patched(q, "failed") /\ Withdraws(q)
        <5>1. q = r
          BY <1>0, <1>3, <4>3 DEF Statuses
        <5> QED BY <4>3, <5>1 DEF Withdraws, InFlight
      <4> QED BY <1>4, <4>1, <4>2, <4>3
    <3> QED BY <2>2, <3>3, <3>4, <3>5, <3>6
  <2> QED BY <1>8, <2>1, <2>2 DEF Transfer
<1>9. CASE UNCHANGED vars
  BY <1>4, <1>9 DEF vars, screen
<1> QED BY <1>5, <1>6, <1>7, <1>8, <1>9 DEF Next

\* A download that fails is not left open at the bot (Marmotter.tsx 1655-1677),
\* unless two things crossed each other for the row. EndsWell, which a run
\* checks, says this and that every row comes to an end.
THEOREM FailureFrees == Spec => FailureFreesSlot
<1>1. Init => Inv
  BY InvInit
<1>2. Inv /\ [Next]_vars => Inv'
  BY InvNext
<1>3. Inv /\ [Next]_vars =>
         [\A r \in Packs \ crossed' :
             rows[r].status = "downloading" /\ rows'[r].status = "failed" => holds' # r]_vars
  <2>1. None \notin Packs
    BY NoneIs DEF Rows
  <2> QED BY <2>1, FailsOnlyThere
<1> QED BY <1>1, <1>2, <1>3, PTL DEF Spec, FailureFreesSlot
=============================================================================
