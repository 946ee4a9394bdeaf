--------------------------- MODULE Profiles_proofs ---------------------------
(***************************************************************************)
(* Proofs about what is configured and where it is kept, for any networks, *)
(* any finite set of references and any passwords, over any launches.      *)
(*                                                                         *)
(* The commands the shell has still to take are the heart of it: what they *)
(* will make of the file and of the keychain is what is held already. So   *)
(* the invariant speaks of the last command of a kind, and of what comes   *)
(* before what.                                                            *)
(***************************************************************************)
EXTENDS Profiles, FiniteSetTheorems, FunctionTheorems, SequenceTheorems, WellFoundedInduction, TLAPS

----------------------------------------------------------------------------
(* Induction up to a bound, over sets.                                     *)

LEMMA LeastOf ==
    ASSUME NEW S, S \subseteq Nat, S # {}
    PROVE  \E n \in S : \A m \in S : n <= m
<1> DEFINE R == OpToRel(<, Nat)
<1>1. \E n \in S : \A m \in S : <<m, n>> \notin R
  <2>1. IsWellFoundedOn(R, Nat)
    BY NatLessThanWellFounded
  <2> HIDE DEF R
  <2> QED BY <2>1, WFMin
<1>2. \E n \in S : \A m \in S : n <= m
  <2>1. PICK n \in S : \A m \in S : <<m, n>> \notin R
    BY <1>1
  <2>2. \A m \in S : ~(m < n)
    BY <2>1 DEF OpToRel
  <2> QED BY <2>2
<1> QED BY <1>2

LEMMA UpTo ==
    ASSUME NEW n \in Nat, NEW G, 0 \in G, \A k \in 1..n : k - 1 \in G => k \in G
    PROVE  0..n \subseteq G
<1> SUFFICES ASSUME 0..n \ G # {} PROVE FALSE
  OBVIOUS
<1>0. 0..n \ G \subseteq Nat
  OBVIOUS
<1>1. PICK k \in 0..n \ G : \A m \in 0..n \ G : k <= m
  BY <1>0, LeastOf
<1>2. k \in 1..n /\ k - 1 \in 0..n /\ ~(k <= k - 1)
  BY <1>1
<1>3. k - 1 \in G
  BY <1>1, <1>2
<1> QED BY <1>1, <1>2, <1>3

LEMMA MaxIs ==
    ASSUME NEW n \in Nat, NEW d \in SUBSET (1..n), n \in d
    PROVE  Max(d) = n
<1>1. \A y \in d : n >= y
  OBVIOUS
<1>2. \A m \in d : (\A y \in d : m >= y) => m = n
  OBVIOUS
<1> QED BY <1>1, <1>2 DEF Max

LEMMA MaxIn ==
    ASSUME NEW n \in Nat, NEW d \in SUBSET (1..n), d # {}
    PROVE  Max(d) \in d
<1> DEFINE above == {k \in 0..n : \A y \in d : k >= y}
<1>1. n \in above /\ above \subseteq Nat
  OBVIOUS
<1>2. PICK m \in above : \A k \in above : m <= k
  <2> HIDE DEF above
  <2> QED BY <1>1, LeastOf
<1>3. m \in d
  <2> SUFFICES ASSUME m \notin d PROVE FALSE
    OBVIOUS
  <2>1. PICK y \in d : TRUE
    OBVIOUS
  <2>2. m >= 1
    BY <1>2, <2>1
  <2>3. \A z \in d : m - 1 >= z
    BY <1>2
  <2>4. m - 1 \in above
    BY <1>2, <2>2, <2>3
  <2> QED BY <1>2, <2>4
<1> QED BY <1>2, <1>3 DEF Max

----------------------------------------------------------------------------
(* Sequences: the last of a kind, what comes before what.                  *)

Has(q, C) == \E i \in 1..Len(q) : q[i] \in C

\* The last member of C in q is in D.
LastIn(q, C, D) ==
    \A i \in 1..Len(q) : q[i] \in C /\ (\A j \in (i + 1)..Len(q) : q[j] \notin C) => q[i] \in D

\* No member of A comes before one of B.
Before(q, A, B) == \A i, j \in 1..Len(q) : i < j /\ q[i] \in A => q[j] \notin B

\* Some of s, in the order they were.
Thinned(w, s, gone) ==
    \E f \in [1..Len(w) -> 1..Len(s)] :
       /\ \A i, j \in 1..Len(w) : i < j => f[i] < f[j]
       /\ \A i \in 1..Len(w) : w[i] = s[f[i]] /\ w[i] \notin gone
       /\ \A j \in 1..Len(s) : s[j] \notin gone => \E i \in 1..Len(w) : f[i] = j

LEMMA ThinnedHas ==
    ASSUME NEW S, NEW s \in Seq(S), NEW w \in Seq(S), NEW gone, Thinned(w, s, gone), NEW C
    PROVE  /\ Has(w, C) => Has(s, C)
           /\ (\A c \in C : c \notin gone) /\ Has(s, C) => Has(w, C)
<1>1. PICK f \in [1..Len(w) -> 1..Len(s)] :
         /\ \A i \in 1..Len(w) : w[i] = s[f[i]]
         /\ \A j \in 1..Len(s) : s[j] \notin gone => \E i \in 1..Len(w) : f[i] = j
  BY DEF Thinned
<1>2. ASSUME Has(w, C) PROVE Has(s, C)
  BY <1>1, <1>2 DEF Has
<1>3. ASSUME \A c \in C : c \notin gone, Has(s, C) PROVE Has(w, C)
  <2>1. PICK j \in 1..Len(s) : s[j] \in C
    BY <1>3 DEF Has
  <2>2. PICK i \in 1..Len(w) : f[i] = j
    BY <1>1, <1>3, <2>1
  <2> QED BY <1>1, <2>1, <2>2 DEF Has
<1> QED BY <1>2, <1>3

LEMMA ThinnedGone ==
    ASSUME NEW S, NEW s \in Seq(S), NEW w \in Seq(S), NEW gone, Thinned(w, s, gone)
    PROVE  ~Has(w, gone)
BY DEF Thinned, Has

LEMMA ThinnedBefore ==
    ASSUME NEW S, NEW s \in Seq(S), NEW w \in Seq(S), NEW gone, Thinned(w, s, gone),
           NEW A, NEW B, Before(s, A, B)
    PROVE  Before(w, A, B)
BY DEF Thinned, Before

LEMMA ThinnedLast ==
    ASSUME NEW S, NEW s \in Seq(S), NEW w \in Seq(S), NEW gone, Thinned(w, s, gone),
           NEW C, NEW D, \A c \in C : c \notin gone, LastIn(s, C, D)
    PROVE  LastIn(w, C, D)
<1>1. PICK f \in [1..Len(w) -> 1..Len(s)] :
         /\ \A i, j \in 1..Len(w) : i < j => f[i] < f[j]
         /\ \A i \in 1..Len(w) : w[i] = s[f[i]] /\ w[i] \notin gone
         /\ \A j \in 1..Len(s) : s[j] \notin gone => \E i \in 1..Len(w) : f[i] = j
  BY DEF Thinned
<1>2. SUFFICES ASSUME NEW i \in 1..Len(w), w[i] \in C,
                      \A j \in (i + 1)..Len(w) : w[j] \notin C
               PROVE  w[i] \in D
  BY DEF LastIn
<1>3. ASSUME NEW j \in (f[i] + 1)..Len(s), s[j] \in C PROVE FALSE
  <2>1. j \in 1..Len(s) /\ f[i] < j
    BY <1>1, <1>3
  <2>2. PICK k \in 1..Len(w) : f[k] = j
    BY <1>1, <1>3, <2>1
  <2>3. ~(k < i) /\ k # i
    BY <1>1, <2>1, <2>2
  <2>4. k \in (i + 1)..Len(w)
    BY <2>3
  <2> QED BY <1>1, <1>2, <1>3, <2>2, <2>4
<1> QED BY <1>1, <1>2, <1>3 DEF LastIn

LEMMA TailHas ==
    ASSUME NEW S, NEW s \in Seq(S), s # <<>>, NEW C
    PROVE  Has(s, C) <=> Head(s) \in C \/ Has(Tail(s), C)
<1>1. /\ Tail(s) \in Seq(S) /\ Len(Tail(s)) = Len(s) - 1 /\ Len(s) \in Nat /\ Len(s) >= 1
      /\ Head(s) = s[1] /\ \A i \in 1..Len(Tail(s)) : Tail(s)[i] = s[i + 1]
  OBVIOUS
<1> DEFINE t == Tail(s)
<1> HIDE DEF t
<1>2. ASSUME Has(s, C), Head(s) \notin C PROVE Has(t, C)
  <2>1. PICK i \in 1..Len(s) : s[i] \in C
    BY <1>2 DEF Has
  <2>2. i - 1 \in 1..Len(t) /\ t[i - 1] = s[i]
    BY <1>1, <1>2, <2>1 DEF t
  <2> QED BY <2>1, <2>2 DEF Has
<1>3. ASSUME Has(t, C) PROVE Has(s, C)
  <2>1. PICK i \in 1..Len(t) : t[i] \in C
    BY <1>3 DEF Has
  <2>2. i + 1 \in 1..Len(s) /\ s[i + 1] = t[i]
    BY <1>1, <2>1 DEF t
  <2> QED BY <2>1, <2>2 DEF Has
<1>4. ASSUME Head(s) \in C PROVE Has(s, C)
  BY <1>1, <1>4 DEF Has
<1> QED BY <1>2, <1>3, <1>4 DEF t

LEMMA TailBefore ==
    ASSUME NEW S, NEW s \in Seq(S), s # <<>>, NEW A, NEW B, Before(s, A, B)
    PROVE  Before(Tail(s), A, B) /\ (Head(s) \in A => ~Has(Tail(s), B))
<1>1. /\ Tail(s) \in Seq(S) /\ Len(Tail(s)) = Len(s) - 1 /\ Len(s) \in Nat /\ Len(s) >= 1
      /\ Head(s) = s[1] /\ \A i \in 1..Len(Tail(s)) : Tail(s)[i] = s[i + 1]
  OBVIOUS
<1> DEFINE t == Tail(s)
<1> HIDE DEF t
<1>2. ASSUME NEW i \in 1..Len(t) PROVE i + 1 \in 1..Len(s) /\ 1 < i + 1 /\ t[i] = s[i + 1]
  BY <1>1 DEF t
<1>3. Before(t, A, B)
  <2> SUFFICES ASSUME NEW i \in 1..Len(t), NEW j \in 1..Len(t), i < j, t[i] \in A
               PROVE  t[j] \notin B
    BY DEF Before
  <2>1. i + 1 \in 1..Len(s) /\ j + 1 \in 1..Len(s) /\ i + 1 < j + 1
    BY <1>2
  <2> QED BY <1>2, <2>1 DEF Before
<1>4. ASSUME Head(s) \in A PROVE ~Has(t, B)
  BY <1>1, <1>2, <1>4 DEF Before, Has
<1> QED BY <1>3, <1>4 DEF t

LEMMA TailLast ==
    ASSUME NEW S, NEW s \in Seq(S), s # <<>>, NEW C, NEW D, LastIn(s, C, D)
    PROVE  /\ LastIn(Tail(s), C, D)
           /\ Head(s) \in C /\ ~Has(Tail(s), C) => Head(s) \in D
<1>1. /\ Tail(s) \in Seq(S) /\ Len(Tail(s)) = Len(s) - 1 /\ Len(s) \in Nat /\ Len(s) >= 1
      /\ Head(s) = s[1] /\ \A i \in 1..Len(Tail(s)) : Tail(s)[i] = s[i + 1]
  OBVIOUS
<1> DEFINE t == Tail(s)
<1> HIDE DEF t
<1>2. ASSUME NEW i \in 1..Len(t) PROVE i + 1 \in 1..Len(s) /\ t[i] = s[i + 1]
  BY <1>1 DEF t
<1>5. ASSUME NEW i \in 2..Len(s) PROVE i - 1 \in 1..Len(t) /\ t[i - 1] = s[i]
  BY <1>1 DEF t
<1>3. LastIn(t, C, D)
  <2> SUFFICES ASSUME NEW i \in 1..Len(t), t[i] \in C, \A j \in (i + 1)..Len(t) : t[j] \notin C
               PROVE  t[i] \in D
    BY DEF LastIn
  <2>1. i + 1 \in 1..Len(s) /\ t[i] = s[i + 1]
    BY <1>2
  <2>2. ASSUME NEW j \in ((i + 1) + 1)..Len(s) PROVE s[j] \notin C
    <3>1. j \in 2..Len(s) /\ j - 1 \in (i + 1)..Len(t)
      BY <1>1 DEF t
    <3> QED BY <1>5, <3>1
  <2> QED BY <2>1, <2>2 DEF LastIn
<1>4. ASSUME Head(s) \in C, ~Has(t, C) PROVE Head(s) \in D
  <2>1. 1 \in 1..Len(s) /\ s[1] \in C /\ 1 + 1 = 2
    BY <1>1, <1>4
  <2>2. \A j \in (1 + 1)..Len(s) : s[j] \notin C
    BY <1>4, <1>5, <2>1 DEF Has
  <2> QED BY <1>1, <2>1, <2>2 DEF LastIn
<1> QED BY <1>3, <1>4 DEF t

\* What is put behind a sequence.
LEMMA Behind ==
    ASSUME NEW S, NEW q \in Seq(S), NEW s \in Seq(S)
    PROVE  /\ q \o s \in Seq(S) /\ Len(q \o s) = Len(q) + Len(s)
           /\ Len(q) \in Nat /\ Len(s) \in Nat
           /\ \A i \in 1..Len(q) : (q \o s)[i] = q[i]
           /\ \A i \in (Len(q) + 1)..(Len(q) + Len(s)) :
                 (q \o s)[i] = s[i - Len(q)] /\ i - Len(q) \in 1..Len(s)
OBVIOUS

LEMMA BehindHas ==
    ASSUME NEW S, NEW q \in Seq(S), NEW s \in Seq(S), NEW C
    PROVE  Has(q \o s, C) <=> Has(q, C) \/ Has(s, C)
<1> DEFINE u == q \o s
<1>1. /\ Len(u) = Len(q) + Len(s) /\ Len(q) \in Nat /\ Len(s) \in Nat
      /\ \A i \in 1..Len(q) : u[i] = q[i]
      /\ \A i \in (Len(q) + 1)..(Len(q) + Len(s)) : u[i] = s[i - Len(q)] /\ i - Len(q) \in 1..Len(s)
  BY Behind
<1> HIDE DEF u
<1>2. ASSUME Has(u, C) PROVE Has(q, C) \/ Has(s, C)
  <2>1. PICK i \in 1..Len(u) : u[i] \in C
    BY <1>2 DEF Has
  <2>2. i \in 1..Len(q) \/ i \in (Len(q) + 1)..(Len(q) + Len(s))
    BY <1>1
  <2> QED BY <1>1, <2>1, <2>2 DEF Has
<1>3. ASSUME Has(q, C) PROVE Has(u, C)
  BY <1>1, <1>3 DEF Has
<1>4. ASSUME Has(s, C) PROVE Has(u, C)
  <2>1. PICK i \in 1..Len(s) : s[i] \in C
    BY <1>4 DEF Has
  <2>2. Len(q) + i \in (Len(q) + 1)..(Len(q) + Len(s)) /\ Len(q) + i \in 1..Len(u)
        /\ (Len(q) + i) - Len(q) = i
    BY <1>1
  <2> QED BY <1>1, <2>1, <2>2 DEF Has
<1> QED BY <1>2, <1>3, <1>4 DEF u

\* None of B is put behind, or there is none of A.
LEMMA BehindBefore ==
    ASSUME NEW S, NEW q \in Seq(S), NEW s \in Seq(S), NEW A, NEW B,
           Before(q, A, B), Before(s, A, B), ~Has(q, A) \/ ~Has(s, B)
    PROVE  Before(q \o s, A, B)
<1> DEFINE u == q \o s
<1>1. /\ Len(u) = Len(q) + Len(s) /\ Len(q) \in Nat /\ Len(s) \in Nat
      /\ \A i \in 1..Len(q) : u[i] = q[i]
      /\ \A i \in (Len(q) + 1)..(Len(q) + Len(s)) : u[i] = s[i - Len(q)] /\ i - Len(q) \in 1..Len(s)
  BY Behind
<1> HIDE DEF u
<1> SUFFICES ASSUME NEW i \in 1..Len(u), NEW j \in 1..Len(u), i < j, u[i] \in A, u[j] \in B
             PROVE  FALSE
  BY DEF Before, u
<1>2. CASE j \in 1..Len(q)
  <2>1. i \in 1..Len(q)
    BY <1>2
  <2> QED BY <1>1, <1>2, <2>1 DEF Before
<1>3. CASE i \notin 1..Len(q)
  <2>1. i \in (Len(q) + 1)..(Len(q) + Len(s)) /\ j \in (Len(q) + 1)..(Len(q) + Len(s))
    BY <1>1, <1>3
  <2>2. i - Len(q) < j - Len(q)
    BY <1>1
  <2> QED BY <1>1, <2>1, <2>2 DEF Before
<1>4. CASE i \in 1..Len(q) /\ j \notin 1..Len(q)
  <2>1. j \in (Len(q) + 1)..(Len(q) + Len(s))
    BY <1>1, <1>4
  <2> QED BY <1>1, <1>4, <2>1 DEF Has
<1> QED BY <1>2, <1>3, <1>4

\* What is put behind has its last in D, or none and q has.
LEMMA BehindLast ==
    ASSUME NEW S, NEW q \in Seq(S), NEW s \in Seq(S), NEW C, NEW D,
           LastIn(s, C, D), LastIn(q, C, D) \/ Has(s, C)
    PROVE  LastIn(q \o s, C, D)
<1> DEFINE u == q \o s
<1>1. /\ Len(u) = Len(q) + Len(s) /\ Len(q) \in Nat /\ Len(s) \in Nat
      /\ \A i \in 1..Len(q) : u[i] = q[i]
      /\ \A i \in (Len(q) + 1)..(Len(q) + Len(s)) : u[i] = s[i - Len(q)] /\ i - Len(q) \in 1..Len(s)
  BY Behind
<1>2. ASSUME NEW k \in 1..Len(s)
      PROVE  Len(q) + k \in 1..Len(u) /\ u[Len(q) + k] = s[k]
             /\ Len(q) + k \in (Len(q) + 1)..Len(u)
  <2>1. Len(q) + k \in (Len(q) + 1)..(Len(q) + Len(s)) /\ (Len(q) + k) - Len(q) = k
    BY <1>1
  <2> QED BY <1>1, <2>1
<1> HIDE DEF u
<1> SUFFICES ASSUME NEW i \in 1..Len(u), u[i] \in C, \A j \in (i + 1)..Len(u) : u[j] \notin C
             PROVE  u[i] \in D
  BY DEF LastIn, u
<1>3. CASE i \in 1..Len(q)
  <2>1. ~Has(s, C)
    <3> SUFFICES ASSUME NEW k \in 1..Len(s), s[k] \in C PROVE FALSE
      BY DEF Has
    <3>1. Len(q) + k \in (i + 1)..Len(u)
      BY <1>1, <1>2, <1>3
    <3> QED BY <1>2, <3>1
  <2>2. \A j \in (i + 1)..Len(q) : q[j] \notin C
    BY <1>1, <1>3
  <2> QED BY <1>1, <1>3, <2>1, <2>2 DEF LastIn
<1>4. CASE i \notin 1..Len(q)
  <2>1. i \in (Len(q) + 1)..(Len(q) + Len(s))
    BY <1>1, <1>4
  <2>2. i - Len(q) \in 1..Len(s) /\ u[i] = s[i - Len(q)]
    BY <1>1, <2>1
  <2>3. ASSUME NEW j \in ((i - Len(q)) + 1)..Len(s) PROVE s[j] \notin C
    <3>1. j \in 1..Len(s) /\ Len(q) + j \in (i + 1)..Len(u)
      BY <1>1, <2>1
    <3> QED BY <1>2, <3>1
  <2> QED BY <2>2, <2>3 DEF LastIn
<1> QED BY <1>3, <1>4

----------------------------------------------------------------------------
(* The commands, and what is left of them when sessions are destroyed.     *)

Commands ==
    [op : {"load"}] \cup [op : {"write"}, what : Contents]
       \cup [op : {"set"}, ref : Refs, value : Passwords]
       \cup [op : {"forget"}, ref : Refs] \cup [op : {"read"}, net : Networks]

\* By what they do.
LoadCalls == {c \in Commands : c.op = "load"}
WriteCalls == {c \in Commands : c.op = "write"}
SecretCalls(r) == {c \in Commands : c.op \in {"set", "forget"} /\ c.ref = r}
ReadCalls(nets) == {c \in Commands : c.op = "read" /\ c.net \in nets}

LEMMA CommandIs ==
    ASSUME NEW c \in Commands
    PROVE  /\ c.op \in {"load", "write", "set", "forget", "read"}
           /\ c.op = "load" => c = [op |-> "load"]
           /\ c.op = "write" => c.what \in Contents
           /\ c.op = "set" => c.ref \in Refs /\ c.value \in Passwords
           /\ c.op = "forget" => c.ref \in Refs
           /\ c.op = "read" => c.net \in Networks
<1>1. CASE c \in [op : {"load"}]
  BY <1>1
<1>2. CASE c \in [op : {"write"}, what : Contents]
  BY <1>2
<1>3. CASE c \in [op : {"set"}, ref : Refs, value : Passwords]
  BY <1>3
<1>4. CASE c \in [op : {"forget"}, ref : Refs]
  BY <1>4
<1>5. CASE c \in [op : {"read"}, net : Networks]
  BY <1>5
<1> QED BY <1>1, <1>2, <1>3, <1>4, <1>5 DEF Commands

LEMMA MakesWrite ==
    ASSUME NEW doc \in Contents
    PROVE  [op |-> "write", what |-> doc] \in WriteCalls
BY DEF WriteCalls, Commands

LEMMA MakesSet ==
    ASSUME NEW r \in Refs, NEW value \in Passwords
    PROVE  [op |-> "set", ref |-> r, value |-> value] \in SecretCalls(r)
BY DEF SecretCalls, Commands

LEMMA MakesForget ==
    ASSUME NEW r \in Refs
    PROVE  [op |-> "forget", ref |-> r] \in SecretCalls(r)
BY DEF SecretCalls, Commands

LEMMA MakesRead ==
    ASSUME NEW n \in Networks
    PROVE  [op |-> "read", net |-> n] \in ReadCalls({n})
BY DEF ReadCalls, Commands

LEMMA MakesLoad == [op |-> "load"] \in LoadCalls
BY DEF LoadCalls, Commands

\* The kinds are apart.
LEMMA Kinds ==
    /\ LoadCalls \subseteq Commands /\ WriteCalls \subseteq Commands
    /\ \A r, nets : SecretCalls(r) \subseteq Commands /\ ReadCalls(nets) \subseteq Commands
    /\ \A c \in Commands :
          /\ c \in LoadCalls => c \notin WriteCalls /\ \A r, nets : c \notin SecretCalls(r) /\ c \notin ReadCalls(nets)
          /\ c \in WriteCalls => \A r, nets : c \notin SecretCalls(r) /\ c \notin ReadCalls(nets)
          /\ \A r, nets : c \in SecretCalls(r) => c \notin ReadCalls(nets) /\ c.ref = r
          /\ \A r, t : r # t /\ c \in SecretCalls(r) => c \notin SecretCalls(t)
BY DEF LoadCalls, WriteCalls, SecretCalls, ReadCalls

Left(nets, rest, c) == IF c.op = "read" /\ c.net \in nets THEN rest ELSE Append(rest, c)

Unfolds(nets, s, g) ==
    g = [d \in SUBSET DOMAIN s |->
            IF d = {} THEN <<>> ELSE Left(nets, g[d \ {Max(d)}], s[Max(d)])]

\* The recursion there is in a fold has a solution.
LEMMA Unfoldable ==
    ASSUME NEW nets, NEW S, NEW s \in Seq(S)
    PROVE  \E g : Unfolds(nets, s, g)
<1> DEFINE Upto(k, g) == g = [d \in SUBSET (1..k) |->
                                IF d = {} THEN <<>> ELSE Left(nets, g[d \ {Max(d)}], s[Max(d)])]
           G == {k \in 0..Len(s) : \E g : Upto(k, g)}
<1>1. 0 \in G
  <2> DEFINE g == [d \in SUBSET (1..0) |-> <<>>]
  <2>1. \A d \in SUBSET (1..0) : d = {}
    OBVIOUS
  <2>2. g = [d \in SUBSET (1..0) |->
                                IF d = {} THEN <<>> ELSE Left(nets, g[d \ {Max(d)}], s[Max(d)])]
    BY <2>1
  <2> QED BY <2>2
<1>2. ASSUME NEW k \in 1..Len(s), k - 1 \in G PROVE k \in G
  <2>1. PICK g : Upto(k - 1, g)
    BY <1>2
  <2> DEFINE h == [d \in SUBSET (1..k) |-> IF k \in d THEN Left(nets, g[d \ {k}], s[k]) ELSE g[d]]
  <2> HIDE DEF Upto
  <2>2. ASSUME NEW d \in SUBSET (1..k)
        PROVE  h[d] = IF d = {} THEN <<>> ELSE Left(nets, h[d \ {Max(d)}], s[Max(d)])
    <3>1. CASE k \in d
      <4>1. Max(d) = k
        BY <3>1, MaxIs
      <4>2. d \ {k} \in SUBSET (1..(k - 1)) /\ d \ {k} \in SUBSET (1..k)
        OBVIOUS
      <4>3. h[d \ {k}] = g[d \ {k}]
        BY <4>2
      <4> QED BY <3>1, <4>1, <4>3
    <3>2. CASE k \notin d
      <4>1. d \in SUBSET (1..(k - 1))
        BY <3>2
      <4>2. h[d] = g[d]
        BY <3>2
      <4>3. g[d] = IF d = {} THEN <<>> ELSE Left(nets, g[d \ {Max(d)}], s[Max(d)])
        BY <2>1, <4>1 DEF Upto
      <4>4. CASE d = {}
        BY <4>2, <4>3, <4>4
      <4>5. CASE d # {}
        <5>1. d \ {Max(d)} \in SUBSET (1..k) /\ k \notin d \ {Max(d)}
          BY <3>2
        <5>2. h[d \ {Max(d)}] = g[d \ {Max(d)}]
          BY <5>1
        <5> QED BY <4>2, <4>3, <4>5, <5>2
      <4> QED BY <4>4, <4>5
    <3> QED BY <3>1, <3>2
  <2>3. Upto(k, h)
    <3>1. h = [d \in SUBSET (1..k) |-> h[d]]
      OBVIOUS
    <3> HIDE DEF h
    <3>2. h = [d \in SUBSET (1..k) |->
                                IF d = {} THEN <<>> ELSE Left(nets, h[d \ {Max(d)}], s[Max(d)])]
      BY <2>2, <3>1
    <3> QED BY <3>2 DEF Upto
  <2> QED BY <1>2, <2>3
<1>3. Len(s) \in G
  <2>1. Len(s) \in Nat
    OBVIOUS
  <2> HIDE DEF G
  <2>2. 0..Len(s) \subseteq G
    BY <1>1, <1>2, <2>1, UpTo
  <2> QED BY <2>1, <2>2
<1>4. PICK g : Upto(Len(s), g)
  BY <1>3
<1>5. DOMAIN s = 1..Len(s)
  OBVIOUS
<1>6. Unfolds(nets, s, g)
  BY <1>4, <1>5 DEF Unfolds
<1> QED BY <1>6

\* What is left is found one after another.
LEMMA LeftSteps ==
    ASSUME NEW nets, NEW S, calls \in Seq(S)
    PROVE  \E f : /\ f = [k \in 0..Len(calls) |-> f[k]]
                  /\ f[0] = <<>> /\ f[Len(calls)] = Without(nets)
                  /\ \A k \in 1..Len(calls) : f[k] = Left(nets, f[k - 1], calls[k])
<1> DEFINE g == CHOOSE g : Unfolds(nets, calls, g)
<1>1. Without(nets) = g[DOMAIN calls]
  BY DEF Without, Left, FoldLeft, MapThenFoldSet, Unfolds
<1>2. Unfolds(nets, calls, g)
  BY Unfoldable
<1> HIDE DEF g
<1> DEFINE f == [k \in 0..Len(calls) |-> g[1..k]]
<1>3. f[0] = <<>>
  <2>1. 1..0 = {} /\ f[0] = g[{}]
    OBVIOUS
  <2> HIDE DEF f
  <2> QED BY <1>2, <2>1 DEF Unfolds
<1>4. f[Len(calls)] = Without(nets)
  BY <1>1
<1>5. ASSUME NEW k \in 1..Len(calls) PROVE f[k] = Left(nets, f[k - 1], calls[k])
  <2>0. DOMAIN calls = 1..Len(calls) /\ Len(calls) \in Nat
    OBVIOUS
  <2>1. 1..k \in SUBSET DOMAIN calls /\ 1..k # {} /\ k \in 1..k
    <3> HIDE DEF f
    <3> QED BY <2>0
  <2>2. Max(1..k) = k
    BY <2>1, MaxIs
  <2>3. g[1..k] = Left(nets, g[(1..k) \ {k}], calls[k])
    BY <1>2, <2>1, <2>2 DEF Unfolds
  <2>4. (1..k) \ {k} = 1..(k - 1)
    OBVIOUS
  <2> QED BY <2>3, <2>4
<1>6. f = [k \in 0..Len(calls) |-> f[k]]
  OBVIOUS
<1> HIDE DEF f
<1> QED BY <1>3, <1>4, <1>5, <1>6

\* Only reads go.
LEMMA WithoutThins ==
    ASSUME NEW nets, calls \in Seq(Commands)
    PROVE  Without(nets) \in Seq(Commands) /\ Thinned(Without(nets), calls, ReadCalls(nets))
<1> DEFINE gone == ReadCalls(nets)
           Thins(w, k) ==
              /\ w \in Seq(Commands)
              /\ \E h \in [1..Len(w) -> 1..k] :
                    /\ \A i, j \in 1..Len(w) : i < j => h[i] < h[j]
                    /\ \A i \in 1..Len(w) : w[i] = calls[h[i]] /\ w[i] \notin gone
                    /\ \A j \in 1..k : calls[j] \notin gone => \E i \in 1..Len(w) : h[i] = j
<1>1. PICK f : /\ f[0] = <<>> /\ f[Len(calls)] = Without(nets)
               /\ \A k \in 1..Len(calls) : f[k] = Left(nets, f[k - 1], calls[k])
  BY LeftSteps
<1> DEFINE G == {k \in 0..Len(calls) : Thins(f[k], k)}
<1>2. Thins(<<>>, 0)
  <2> DEFINE h == [i \in 1..0 |-> i]
  <2>1. 1..0 = {} /\ Len(<<>>) = 0 /\ <<>> \in Seq(Commands)
    OBVIOUS
  <2>2. h \in [1..Len(<<>>) -> 1..0]
    BY <2>1
  <2> HIDE DEF h
  <2> QED BY <2>1, <2>2
<1>3. ASSUME NEW k \in 1..Len(calls), NEW w, Thins(w, k - 1)
      PROVE  Thins(Left(nets, w, calls[k]), k)
  <2>0. w \in Seq(Commands) /\ Len(w) \in Nat /\ calls[k] \in Commands /\ k \in Nat
    BY <1>3
  <2>1. PICK h \in [1..Len(w) -> 1..(k - 1)] :
           /\ \A i, j \in 1..Len(w) : i < j => h[i] < h[j]
           /\ \A i \in 1..Len(w) : w[i] = calls[h[i]] /\ w[i] \notin gone
           /\ \A j \in 1..(k - 1) : calls[j] \notin gone => \E i \in 1..Len(w) : h[i] = j
    BY <1>3
  <2>2. calls[k] \in gone <=> (calls[k].op = "read" /\ calls[k].net \in nets)
    BY <2>0 DEF ReadCalls
  <2> HIDE DEF gone
  <2>3. CASE calls[k] \in gone
    <3>1. Left(nets, w, calls[k]) = w
      BY <2>2, <2>3 DEF Left
    <3>2. h \in [1..Len(w) -> 1..k]
      OBVIOUS
    <3>3. \A j \in 1..k : calls[j] \notin gone => j \in 1..(k - 1)
      BY <2>3
    <3>4. \A j \in 1..k : calls[j] \notin gone => \E i \in 1..Len(w) : h[i] = j
      BY <2>1, <3>3
    <3>5. Thins(w, k)
      BY <2>0, <2>1, <3>2, <3>4
    <3> HIDE DEF Thins
    <3> QED BY <3>1, <3>5
  <2>4. CASE calls[k] \notin gone
    <3> DEFINE u == Append(w, calls[k])
               g == [i \in 1..(Len(w) + 1) |-> IF i = Len(w) + 1 THEN k ELSE h[i]]
    <3>1. Left(nets, w, calls[k]) = u
      BY <2>2, <2>4 DEF Left
    <3>2. /\ u \in Seq(Commands) /\ Len(u) = Len(w) + 1 /\ u[Len(w) + 1] = calls[k]
          /\ \A i \in 1..Len(w) : u[i] = w[i]
      BY <2>0
    <3>3. /\ g \in [1..(Len(w) + 1) -> 1..k] /\ g[Len(w) + 1] = k
          /\ \A i \in 1..Len(w) : g[i] = h[i] /\ g[i] \in 1..(k - 1)
      <4>1. \A i \in 1..(Len(w) + 1) : (IF i = Len(w) + 1 THEN k ELSE h[i]) \in 1..k
        <5> SUFFICES ASSUME NEW i \in 1..(Len(w) + 1), i # Len(w) + 1 PROVE h[i] \in 1..k
          BY <2>0
        <5>1. i \in 1..Len(w)
          BY <2>0
        <5>2. h[i] \in 1..(k - 1)
          BY <5>1
        <5> QED BY <2>0, <5>2
      <4>2. \A i \in 1..Len(w) : i \in 1..(Len(w) + 1) /\ i # Len(w) + 1
        BY <2>0
      <4>3. g \in [1..(Len(w) + 1) -> 1..k]
        BY <4>1
      <4>4. Len(w) + 1 \in 1..(Len(w) + 1)
        BY <2>0
      <4>5. g[Len(w) + 1] = k
        BY <4>4
      <4>6. \A i \in 1..Len(w) : g[i] = h[i] /\ h[i] \in 1..(k - 1)
        BY <4>2
      <4> QED BY <4>3, <4>5, <4>6
    <3> HIDE DEF u, g
    <3>4. \A i, j \in 1..Len(u) : i < j => g[i] < g[j]
      <4> SUFFICES ASSUME NEW i \in 1..Len(u), NEW j \in 1..Len(u), i < j PROVE g[i] < g[j]
        OBVIOUS
      <4>1. i \in 1..Len(w)
        BY <2>0, <3>2
      <4>2. CASE j \in 1..Len(w)
        BY <2>1, <3>3, <4>1, <4>2
      <4>3. CASE j = Len(w) + 1
        BY <3>3, <4>1, <4>3
      <4> QED BY <2>0, <3>2, <4>2, <4>3
    <3>5. \A i \in 1..Len(u) : u[i] = calls[g[i]] /\ u[i] \notin gone
      <4> SUFFICES ASSUME NEW i \in 1..Len(u) PROVE u[i] = calls[g[i]] /\ u[i] \notin gone
        OBVIOUS
      <4>1. CASE i \in 1..Len(w)
        BY <2>1, <3>2, <3>3, <4>1
      <4>2. CASE i = Len(w) + 1
        BY <2>4, <3>2, <3>3, <4>2
      <4> QED BY <2>0, <3>2, <4>1, <4>2
    <3>6. \A j \in 1..k : calls[j] \notin gone => \E i \in 1..Len(u) : g[i] = j
      <4> SUFFICES ASSUME NEW j \in 1..k, calls[j] \notin gone PROVE \E i \in 1..Len(u) : g[i] = j
        OBVIOUS
      <4>1. CASE j = k
        BY <2>0, <3>2, <3>3, <4>1
      <4>2. CASE j # k
        <5>1. j \in 1..(k - 1)
          BY <2>0, <4>2
        <5>2. PICK i \in 1..Len(w) : h[i] = j
          BY <2>1, <5>1
        <5>3. i \in 1..Len(u) /\ g[i] = j
          BY <2>0, <3>2, <3>3, <5>2
        <5> QED BY <5>3
      <4> QED BY <4>1, <4>2
    <3>7. g \in [1..Len(u) -> 1..k]
      BY <3>2, <3>3
    <3>8. Thins(u, k)
      BY <3>2, <3>4, <3>5, <3>6, <3>7
    <3> HIDE DEF Thins
    <3> QED BY <3>1, <3>8
  <2> QED BY <2>3, <2>4
<1> HIDE DEF Thins
<1>4. Len(calls) \in G
  <2>1. Len(calls) \in Nat /\ 0 \in 0..Len(calls)
    OBVIOUS
  <2>2. 0 \in G
    BY <1>1, <1>2, <2>1
  <2>3. ASSUME NEW k \in 1..Len(calls), k - 1 \in G PROVE k \in G
    BY <1>1, <1>3, <2>3
  <2> HIDE DEF G
  <2>4. 0..Len(calls) \subseteq G
    BY <2>1, <2>2, <2>3, UpTo
  <2> QED BY <2>1, <2>4
<1>5. Thins(Without(nets), Len(calls))
  BY <1>1, <1>4
<1> QED BY <1>5 DEF Thins, Thinned

----------------------------------------------------------------------------
(* Profiles, documents, and what the handlers put behind the commands.     *)

Nets == [Networks -> Profile \cup {Absent}]

LEMMA NoneIs == None \notin Refs /\ None \notin Passwords /\ None = "none" /\ Loading = "loading"
BY ProfilesAssumption DEF None, Loading

LEMMA ProfileIs ==
    ASSUME NEW p \in Profile \cup {Absent}
    PROVE  /\ p = [ref |-> p.ref, trusts |-> p.trusts, joins |-> p.joins, there |-> p.there]
           /\ p.ref \in Refs \cup {None} /\ {p.trusts, p.joins, p.there} \subseteq BOOLEAN
           /\ ~p.there => p = Absent /\ p.ref = None
           /\ p.there => p \in Profile
<1>1. CASE p \in Profile
  BY <1>1 DEF Profile
<1>2. CASE p = Absent
  BY <1>2 DEF Absent
<1> QED BY <1>1, <1>2

LEMMA AbsentIs == Absent.there = FALSE /\ Absent.ref = None /\ \A p \in Profile : p.there
BY DEF Absent, Profile

LEMMA ContentsIs ==
    ASSUME NEW doc \in Contents
    PROVE  doc.nets \in Nets /\ doc.identity \in {None, "named"} /\ doc.settings \in 0..1
BY DEF Contents, Nets

LEMMA RefsOfIs ==
    ASSUME NEW p \in Profile \cup {Absent}
    PROVE  /\ RefsOf(p) = IF p.ref = None THEN {} ELSE {p.ref}
           /\ RefsOf(p) \subseteq Refs
BY ProfileIs DEF RefsOf

\* Each of them is forgotten, in whichever order.
LEMMA ForgetIs ==
    ASSUME NEW refs, refs \subseteq Refs
    PROVE  /\ Forget(refs) \in Seq({[op |-> "forget", ref |-> r] : r \in refs})
           /\ \A r \in refs : Has(Forget(refs), {[op |-> "forget", ref |-> r]})
<1> DEFINE k == Cardinality(refs)  q == SetToSeq(refs)
<1>1. IsFiniteSet(refs)
  BY FS_Subset, ProfilesAssumption
<1>2. k \in Nat /\ ExistsBijection(1..k, refs)
  BY <1>1, FS_CardinalityType
<1>3. \E f \in [1..k -> refs] : IsInjective(f)
  BY <1>2 DEF ExistsBijection, Bijection, Injection
<1>4. q \in [1..k -> refs] /\ IsInjective(q)
  BY <1>3 DEF SetToSeq
<1>5. IsFiniteSet(1..k) /\ Cardinality(1..k) = k
  BY <1>2, FS_Interval
<1>6. q \in Injection(1..k, refs)
  BY <1>4 DEF Injection
<1> HIDE DEF q
<1>7. q \in Surjection(1..k, refs)
  BY <1>1, <1>5, <1>6, FS_Injection
<1>8. Forget(refs) = [i \in 1..k |-> [op |-> "forget", ref |-> q[i]]]
  BY DEF Forget, q
<1> HIDE DEF k
<1>9. Forget(refs) \in Seq({[op |-> "forget", ref |-> r] : r \in refs}) /\ Len(Forget(refs)) = k
  BY <1>2, <1>4, <1>8
<1>10. ASSUME NEW r \in refs PROVE Has(Forget(refs), {[op |-> "forget", ref |-> r]})
  <2>1. PICK i \in 1..k : q[i] = r
    BY <1>7 DEF Surjection
  <2>2. Forget(refs)[i] = [op |-> "forget", ref |-> r]
    BY <1>8, <2>1
  <2> QED BY <1>9, <2>2 DEF Has
<1> QED BY <1>9, <1>10

\* What is kept and what is forgotten of passwords.
Keys == {c \in Commands : c.op \in {"set", "forget"}}

LEMMA ForgetType ==
    ASSUME NEW refs, refs \subseteq Refs
    PROVE  /\ Forget(refs) \in Seq(Keys)
           /\ \A r \in refs : Has(Forget(refs), SecretCalls(r))
           /\ \A i \in 1..Len(Forget(refs)) : Forget(refs)[i].op = "forget" /\ Forget(refs)[i].ref \in refs
<1> DEFINE S == {[op |-> "forget", ref |-> r] : r \in refs}
           q == Forget(refs)
<1>1. q \in Seq(S) /\ \A r \in refs : Has(q, {[op |-> "forget", ref |-> r]})
  BY ForgetIs
<1>2. \A c \in S : c \in Keys /\ c.op = "forget" /\ c.ref \in refs
  BY DEF Keys, Commands
<1>3. \A r \in refs : [op |-> "forget", ref |-> r] \in SecretCalls(r)
  BY MakesForget
<1> HIDE DEF S, q
<1>4. q \in Seq(Keys)
  BY <1>1, <1>2
<1>5. \A r \in refs : Has(q, SecretCalls(r))
  BY <1>1, <1>3 DEF Has
<1> QED BY <1>1, <1>2, <1>4, <1>5 DEF q

TypeSeq == TypeOK /\ calls \in Seq(Commands)

\* The commands of before, fewer of their reads, and these behind them.
Goes(gone, u) ==
    \E q \in Seq(Commands) : Thinned(q, calls, ReadCalls(gone)) /\ calls' = q \o u

Written(s, doc, t) == (s \o <<[op |-> "write", what |-> doc]>>) \o t

\* Passwords, the file as it is held now, and passwords that are forgotten.
Persisting(gone, s, doc, t) ==
    /\ s \in Seq(Keys) /\ t \in Seq(Keys)
    /\ doc \in Contents /\ doc.nets = profiles'
    /\ doc.identity = IF identity' = Loading THEN None ELSE identity'
    /\ Goes(gone, Written(s, doc, t))

LEMMA ThinnedSelf ==
    ASSUME NEW S, NEW s \in Seq(S)
    PROVE  Thinned(s, s, ReadCalls({}))
<1> DEFINE f == [i \in 1..Len(s) |-> i]
<1>1. f \in [1..Len(s) -> 1..Len(s)] /\ \A i \in 1..Len(s) : f[i] = i
  OBVIOUS
<1>2. \A c : c \notin ReadCalls({})
  BY DEF ReadCalls
<1>3. Len(s) \in Nat
  OBVIOUS
<1> HIDE DEF f
<1> QED BY <1>1, <1>2, <1>3 DEF Thinned

LEMMA PersistIs ==
    ASSUME NEW nets \in Nets, NEW who \in {Loading, None, "named"}, settings' \in 0..1
    PROVE  \E doc \in Contents :
              /\ doc.nets = nets /\ doc.identity = IF who = Loading THEN None ELSE who
              /\ Persist(nets, who) = <<[op |-> "write", what |-> doc]>>
<1> DEFINE doc == [nets |-> nets, identity |-> IF who = Loading THEN None ELSE who, settings |-> settings']
<1>1. doc \in Contents /\ doc.nets = nets /\ doc.identity = IF who = Loading THEN None ELSE who
  BY DEF Contents, Nets
<1>2. Persist(nets, who) = <<[op |-> "write", what |-> doc]>>
  BY DEF Persist, Write
<1> HIDE DEF doc
<1> QED BY <1>1, <1>2

LEMMA KeepSecretsIs ==
    ASSUME NEW p \in Profile, memory' \in [Refs -> Passwords \cup {None}]
    PROVE  /\ KeepSecrets(p) \in Seq(Keys)
           /\ \/ (p.ref = None \/ memory'[p.ref] = None) /\ KeepSecrets(p) = <<>>
              \/ /\ p.ref \in Refs /\ memory'[p.ref] \in Passwords
                 /\ KeepSecrets(p) = <<[op |-> "set", ref |-> p.ref, value |-> memory'[p.ref]]>>
<1>0. p.ref \in Refs \cup {None}
  BY DEF Profile
<1>1. CASE p.ref = None \/ memory'[p.ref] = None
  BY <1>1 DEF KeepSecrets
<1>2. CASE ~(p.ref = None \/ memory'[p.ref] = None)
  <2> DEFINE v == memory'[p.ref]
             c == [op |-> "set", ref |-> p.ref, value |-> v]
  <2>1. p.ref \in Refs /\ v \in Passwords
    BY <1>0, <1>2
  <2>2. KeepSecrets(p) = <<c>>
    BY <1>2 DEF KeepSecrets
  <2>3. c \in Keys
    BY <2>1 DEF Keys, Commands
  <2>4. <<c>> \in Seq(Keys)
    <3> HIDE DEF c
    <3> QED BY <2>3
  <2> QED BY <2>1, <2>2, <2>4
<1> QED BY <1>1, <1>2

\* What addNetwork() and saveNetwork() come to.
Puts(n, p, s) ==
    /\ profiles' = [profiles EXCEPT ![n] = p]
    /\ \E phase \in {"idle", "dialling"} :
          /\ sessions' = [sessions EXCEPT ![n] = [of |-> p, phase |-> phase, sent |-> None]]
          /\ phase = "dialling" => n \in asked' \/ (There(n) /\ sessions[n].phase # "idle")
    /\ asked \subseteq asked' /\ asked' \subseteq Networks
    /\ \/ (p.ref = None \/ memory'[p.ref] = None) /\ s = <<>>
       \/ /\ p.ref \in Refs /\ memory'[p.ref] \in Passwords
          /\ s = <<[op |-> "set", ref |-> p.ref, value |-> memory'[p.ref]]>>
    /\ \/ /\ p.ref \in Refs /\ (p.ref \notin used \/ (There(n) /\ p.ref = profiles[n].ref))
          /\ \E value \in Passwords : /\ typed' = [typed EXCEPT ![p.ref] = value]
                                      /\ memory' = [memory EXCEPT ![p.ref] = value]
          /\ used' = used \cup {p.ref} /\ freed' = freed \ {p.ref}
          /\ doubtful' = doubtful \ {p.ref}
       \/ /\ p.ref = None \/ (There(n) /\ p.ref = profiles[n].ref)
          /\ UNCHANGED <<typed, memory, used, freed, doubtful>>
    /\ UNCHANGED <<identity, settings, savedSettings, prompts, exported, kept, removed>>
    /\ Parts

LEMMA FreshIs ==
    ASSUME NEW all, NEW known
    PROVE  Fresh(all, known) \subseteq all \ known
BY DEF Fresh

LEMMA TypesIs ==
    ASSUME TypeSeq, NEW ref \in Refs, Types(ref)
    PROVE  /\ \E value \in Passwords : /\ typed' = [typed EXCEPT ![ref] = value]
                                       /\ memory' = [memory EXCEPT ![ref] = value]
           /\ memory' \in [Refs -> Passwords \cup {None}]
           /\ used' = used \cup {ref} /\ freed' = freed \ {ref}
           /\ doubtful' = doubtful \ {ref}
<1>1. PICK value \in Passwords : /\ typed' = [typed EXCEPT ![ref] = value]
                                 /\ memory' = [memory EXCEPT ![ref] = value]
  <2>1. PICK value \in Fresh(Passwords, {typed[ref]}) :
           typed' = [typed EXCEPT ![ref] = value] /\ memory' = [memory EXCEPT ![ref] = value]
    BY DEF Types
  <2>2. value \in Passwords
    BY <2>1, FreshIs
  <2> QED BY <2>1, <2>2
<1>2. memory \in [Refs -> Passwords \cup {None}]
  BY DEF TypeSeq, TypeOK
<1>3. memory' \in [Refs -> Passwords \cup {None}]
  BY <1>1, <1>2
<1> QED BY <1>1, <1>3 DEF Types

LEMMA WithoutIs ==
    ASSUME TypeSeq, NEW gone
    PROVE  Without(gone) \in Seq(Commands) /\ Thinned(Without(gone), calls, ReadCalls(gone))
BY WithoutThins DEF TypeSeq

LEMMA KeysIn == Keys \subseteq Commands /\ Seq(Keys) \subseteq Seq(Commands)
<1>1. Keys \subseteq Commands
  BY DEF Keys
<1> QED BY <1>1

LEMMA BehindWithout ==
    ASSUME TypeSeq, NEW gone, NEW s \in Seq(Keys), NEW doc \in Contents,
           calls' = (Without(gone) \o s) \o <<[op |-> "write", what |-> doc]>>
    PROVE  Goes(gone, Written(s, doc, <<>>))
<1> DEFINE w == <<[op |-> "write", what |-> doc]>>  q == Without(gone)
<1>1. q \in Seq(Commands) /\ Thinned(q, calls, ReadCalls(gone))
  BY WithoutIs
<1>2. s \in Seq(Commands) /\ w \in Seq(Commands)
  <2>1. [op |-> "write", what |-> doc] \in Commands
    BY MakesWrite, Kinds
  <2> QED BY <2>1, KeysIn
<1> HIDE DEF w, q
<1>3. (s \o w) \o <<>> = s \o w /\ (q \o s) \o w = q \o (s \o w)
  BY <1>1, <1>2
<1>4. calls' = q \o ((s \o w) \o <<>>)
  BY <1>3 DEF q, w
<1> QED BY <1>1, <1>4 DEF Goes, Written, w

LEMMA ProfilesType ==
    ASSUME TypeSeq
    PROVE  /\ profiles \in Nets /\ settings \in 0..1 /\ identity \in {Loading, None, "named"}
           /\ \A n \in Networks : /\ profiles[n] \in Profile \cup {Absent}
                                  /\ There(n) => profiles[n] \in Profile
           /\ memory \in [Refs -> Passwords \cup {None}]
<1>1. profiles \in Nets /\ \A n \in Networks : profiles[n] \in Profile \cup {Absent}
  BY DEF TypeSeq, TypeOK, Nets
<1>2. \A n \in Networks : There(n) => profiles[n] \in Profile
  BY <1>1, AbsentIs DEF There
<1> QED BY <1>1, <1>2 DEF TypeSeq, TypeOK

LEMMA AddsIs ==
    ASSUME TypeSeq, NEW n \in Networks, AddsNetwork(n)
    PROVE  \E p \in Profile : \E s, doc :
              Puts(n, p, s) /\ Persisting({n}, s, doc, <<>>) /\ acts' \in 0..Acts
<1>1. PICK ref \in {None} \cup Fresh(Refs, used) :
         /\ Registers(n, [ref |-> ref, trusts |-> FALSE, joins |-> FALSE, there |-> TRUE], TRUE)
         /\ IF ref = None THEN Untyped ELSE Types(ref)
         /\ UNCHANGED settings
         /\ calls' = Without({n})
                     \o KeepSecrets([ref |-> ref, trusts |-> FALSE, joins |-> FALSE, there |-> TRUE])
                     \o Persist(profiles', identity)
  BY DEF AddsNetwork
<1> DEFINE p == [ref |-> ref, trusts |-> FALSE, joins |-> FALSE, there |-> TRUE]
<1>2. ref = None \/ (ref \in Refs /\ ref \notin used)
  BY <1>1, FreshIs
<1>3. p \in Profile /\ p.ref = ref
  BY <1>2 DEF Profile
<1>4. /\ profiles' = [profiles EXCEPT ![n] = p]
      /\ sessions' = [sessions EXCEPT ![n] = [of |-> p, phase |-> "dialling", sent |-> None]]
      /\ calls' = Without({n}) \o KeepSecrets(p) \o Persist(profiles', identity)
  BY <1>1 DEF Registers
<1> HIDE DEF p
<1>5. memory' \in [Refs -> Passwords \cup {None}]
  <2>1. CASE ref = None
    BY <1>1, <2>1, ProfilesType DEF Untyped
  <2>2. CASE ref # None
    BY <1>1, <1>2, <2>2, TypesIs
  <2> QED BY <2>1, <2>2
<1>6. profiles' \in Nets
  BY <1>3, <1>4, ProfilesType DEF Nets
<1>7. /\ identity' = identity /\ settings' \in 0..1 /\ asked' = asked \cup {n} /\ Parts
      /\ UNCHANGED <<savedSettings, prompts, exported, kept, removed>> /\ Act /\ settings' = settings
  BY <1>1, ProfilesType DEF AddsNetwork
<1>8. PICK doc \in Contents :
         /\ doc.nets = profiles' /\ doc.identity = IF identity = Loading THEN None ELSE identity
         /\ Persist(profiles', identity) = <<[op |-> "write", what |-> doc]>>
  <2> DEFINE nets == profiles'
  <2>1. nets \in Nets /\ identity \in {Loading, None, "named"}
    BY <1>6, ProfilesType
  <2> HIDE DEF nets
  <2>2. \E doc \in Contents :
         /\ doc.nets = nets /\ doc.identity = IF identity = Loading THEN None ELSE identity
         /\ Persist(nets, identity) = <<[op |-> "write", what |-> doc]>>
    BY <1>7, <2>1, PersistIs
  <2> QED BY <2>2 DEF nets
<1>9. Persisting({n}, KeepSecrets(p), doc, <<>>)
  <2>1. KeepSecrets(p) \in Seq(Keys) /\ <<>> \in Seq(Keys)
    BY <1>3, <1>5, KeepSecretsIs
  <2>2. calls' = (Without({n}) \o KeepSecrets(p)) \o <<[op |-> "write", what |-> doc]>>
    BY <1>4, <1>8
  <2>3. Goes({n}, Written(KeepSecrets(p), doc, <<>>))
    BY <2>1, <2>2, BehindWithout
  <2> QED BY <1>7, <1>8, <2>1, <2>3 DEF Persisting
<1>10. Puts(n, p, KeepSecrets(p))
  <2>1. \/ (p.ref = None \/ memory'[p.ref] = None) /\ KeepSecrets(p) = <<>>
        \/ /\ p.ref \in Refs /\ memory'[p.ref] \in Passwords
           /\ KeepSecrets(p) = <<[op |-> "set", ref |-> p.ref, value |-> memory'[p.ref]]>>
    BY <1>3, <1>5, KeepSecretsIs
  <2>2. \/ /\ p.ref \in Refs /\ p.ref \notin used
           /\ \E value \in Passwords : /\ typed' = [typed EXCEPT ![p.ref] = value]
                                       /\ memory' = [memory EXCEPT ![p.ref] = value]
           /\ used' = used \cup {p.ref} /\ freed' = freed \ {p.ref}
           /\ doubtful' = doubtful \ {p.ref}
        \/ p.ref = None /\ UNCHANGED <<typed, memory, used, freed, doubtful>>
    <3>1. CASE ref = None
      BY <1>1, <1>3, <3>1 DEF Untyped
    <3>2. CASE ref # None
      BY <1>1, <1>2, <1>3, <3>2, TypesIs
    <3> QED BY <3>1, <3>2
  <2>3. asked \subseteq asked' /\ asked' \subseteq Networks
    BY <1>7 DEF TypeSeq, TypeOK
  <2>4. \E phase \in {"idle", "dialling"} :
          /\ sessions' = [sessions EXCEPT ![n] = [of |-> p, phase |-> phase, sent |-> None]]
          /\ phase = "dialling" => n \in asked' \/ (There(n) /\ sessions[n].phase # "idle")
    BY <1>4, <1>7
  <2> QED BY <1>4, <1>7, <2>1, <2>2, <2>3, <2>4 DEF Puts
<1>11. acts' \in 0..Acts
  BY <1>7, ProfilesAssumption DEF Act, TypeSeq, TypeOK
<1> QED BY <1>3, <1>9, <1>10, <1>11

LEMMA SavesIs ==
    ASSUME TypeSeq, NEW n \in Networks, SavesNetwork(n)
    PROVE  \E p \in Profile : \E s, doc :
              Puts(n, p, s) /\ Persisting({n}, s, doc, <<>>) /\ acts' \in 0..Acts
<1>1. PICK ref \in {None, profiles[n].ref}
                     \cup (IF profiles[n].ref = None THEN Fresh(Refs, used) ELSE {}) :
         /\ Registers(n, [profiles[n] EXCEPT !.ref = ref], sessions[n].phase # "idle")
         /\ Types(ref) \/ (ref \in {None, profiles[n].ref} /\ Untyped)
         /\ UNCHANGED settings
         /\ calls' = Without({n}) \o KeepSecrets([profiles[n] EXCEPT !.ref = ref])
                                  \o Persist(profiles', identity)
  BY DEF SavesNetwork
<1> DEFINE p == [profiles[n] EXCEPT !.ref = ref]
<1>0. There(n) /\ profiles[n] \in Profile /\ profiles[n].ref \in Refs \cup {None}
  <2>1. There(n)
    BY DEF SavesNetwork
  <2>2. profiles[n] \in Profile
    BY <2>1, ProfilesType
  <2> QED BY <2>1, <2>2 DEF Profile
<1>2. \/ ref \in Refs /\ (ref \notin used \/ ref = profiles[n].ref)
      \/ ref = None
  BY <1>0, <1>1, FreshIs
<1>3. p \in Profile /\ p.ref = ref
  BY <1>0, <1>2 DEF Profile
<1>4. /\ profiles' = [profiles EXCEPT ![n] = p]
      /\ sessions' = [sessions EXCEPT ![n] =
            [of |-> p, phase |-> IF sessions[n].phase # "idle" THEN "dialling" ELSE "idle",
             sent |-> None]]
      /\ calls' = Without({n}) \o KeepSecrets(p) \o Persist(profiles', identity)
  BY <1>1 DEF Registers
<1> HIDE DEF p
<1>12. \/ /\ p.ref \in Refs /\ (p.ref \notin used \/ p.ref = profiles[n].ref) /\ Types(p.ref)
       \/ (p.ref = None \/ p.ref = profiles[n].ref) /\ Untyped
  <2>1. CASE Types(ref)
    <3>1. ref # None
      BY <2>1 DEF Types
    <3> QED BY <1>2, <1>3, <2>1, <3>1
  <2>2. CASE ref \in {None, profiles[n].ref} /\ Untyped
    BY <1>3, <2>2
  <2> QED BY <1>1, <2>1, <2>2
<1>5. memory' \in [Refs -> Passwords \cup {None}]
  <2>1. CASE p.ref \in Refs /\ Types(p.ref)
    BY <2>1, TypesIs
  <2>2. CASE Untyped
    BY <2>2, ProfilesType DEF Untyped
  <2> QED BY <1>12, <2>1, <2>2
<1>6. profiles' \in Nets
  BY <1>3, <1>4, ProfilesType DEF Nets
<1>7. /\ identity' = identity /\ settings' \in 0..1 /\ asked' = asked /\ Parts
      /\ UNCHANGED <<savedSettings, prompts, exported, kept, removed>> /\ Act /\ settings' = settings
  BY <1>1, ProfilesType DEF SavesNetwork
<1>8. PICK doc \in Contents :
         /\ doc.nets = profiles' /\ doc.identity = IF identity = Loading THEN None ELSE identity
         /\ Persist(profiles', identity) = <<[op |-> "write", what |-> doc]>>
  <2> DEFINE nets == profiles'
  <2>1. nets \in Nets /\ identity \in {Loading, None, "named"}
    BY <1>6, ProfilesType
  <2> HIDE DEF nets
  <2>2. \E doc \in Contents :
         /\ doc.nets = nets /\ doc.identity = IF identity = Loading THEN None ELSE identity
         /\ Persist(nets, identity) = <<[op |-> "write", what |-> doc]>>
    BY <1>7, <2>1, PersistIs
  <2> QED BY <2>2 DEF nets
<1>9. Persisting({n}, KeepSecrets(p), doc, <<>>)
  <2>1. KeepSecrets(p) \in Seq(Keys) /\ <<>> \in Seq(Keys)
    BY <1>3, <1>5, KeepSecretsIs
  <2>2. calls' = (Without({n}) \o KeepSecrets(p)) \o <<[op |-> "write", what |-> doc]>>
    BY <1>4, <1>8
  <2>3. Goes({n}, Written(KeepSecrets(p), doc, <<>>))
    BY <2>1, <2>2, BehindWithout
  <2> QED BY <1>7, <1>8, <2>1, <2>3 DEF Persisting
<1>10. Puts(n, p, KeepSecrets(p))
  <2>1. \/ (p.ref = None \/ memory'[p.ref] = None) /\ KeepSecrets(p) = <<>>
        \/ /\ p.ref \in Refs /\ memory'[p.ref] \in Passwords
           /\ KeepSecrets(p) = <<[op |-> "set", ref |-> p.ref, value |-> memory'[p.ref]]>>
    BY <1>3, <1>5, KeepSecretsIs
  <2>2. \/ /\ p.ref \in Refs /\ (p.ref \notin used \/ (There(n) /\ p.ref = profiles[n].ref))
           /\ \E value \in Passwords : /\ typed' = [typed EXCEPT ![p.ref] = value]
                                       /\ memory' = [memory EXCEPT ![p.ref] = value]
           /\ used' = used \cup {p.ref} /\ freed' = freed \ {p.ref}
           /\ doubtful' = doubtful \ {p.ref}
        \/ /\ p.ref = None \/ (There(n) /\ p.ref = profiles[n].ref)
           /\ UNCHANGED <<typed, memory, used, freed, doubtful>>
    <3>1. CASE p.ref \in Refs /\ (p.ref \notin used \/ p.ref = profiles[n].ref) /\ Types(p.ref)
      BY <1>0, <3>1, TypesIs
    <3>2. CASE (p.ref = None \/ p.ref = profiles[n].ref) /\ Untyped
      BY <1>0, <3>2 DEF Untyped
    <3> QED BY <1>12, <3>1, <3>2
  <2>3. asked \subseteq asked' /\ asked' \subseteq Networks
    BY <1>7 DEF TypeSeq, TypeOK
  <2>4. \E phase \in {"idle", "dialling"} :
          /\ sessions' = [sessions EXCEPT ![n] = [of |-> p, phase |-> phase, sent |-> None]]
          /\ phase = "dialling" => n \in asked' \/ (There(n) /\ sessions[n].phase # "idle")
    BY <1>0, <1>4, <1>7
  <2> QED BY <1>4, <1>7, <2>1, <2>2, <2>3, <2>4 DEF Puts
<1>11. acts' \in 0..Acts
  BY <1>7, ProfilesAssumption DEF Act, TypeSeq, TypeOK
<1> QED BY <1>3, <1>9, <1>10, <1>11


----------------------------------------------------------------------------
(* What is under way after a handler, from what was and what it adds.      *)

LEMMA GoesHas ==
    ASSUME TypeSeq, NEW gone, NEW u \in Seq(Commands), Goes(gone, u)
    PROVE  /\ calls' \in Seq(Commands)
           /\ \A C : Has(calls', C) => Has(calls, C) \/ Has(u, C)
           /\ \A C : ((\A c \in C : c \notin ReadCalls(gone)) /\ Has(calls, C)) \/ Has(u, C)
                => Has(calls', C)
           /\ \A n \in gone \cap Networks : Has(calls', ReadCalls({n})) => Has(u, ReadCalls({n}))
<1>1. PICK q \in Seq(Commands) : Thinned(q, calls, ReadCalls(gone)) /\ calls' = q \o u
  BY DEF Goes
<1>2. calls \in Seq(Commands)
  BY DEF TypeSeq
<1>3. \A C : Has(q \o u, C) <=> Has(q, C) \/ Has(u, C)
  BY <1>1, BehindHas
<1>4. \A C : /\ Has(q, C) => Has(calls, C)
             /\ (\A c \in C : c \notin ReadCalls(gone)) /\ Has(calls, C) => Has(q, C)
  BY <1>1, <1>2, ThinnedHas
<1>5. ~Has(q, ReadCalls(gone))
  BY <1>1, <1>2, ThinnedGone
<1>6. \A n \in gone \cap Networks : ~Has(q, ReadCalls({n}))
  <2>1. \A n \in gone : ReadCalls({n}) \subseteq ReadCalls(gone)
    BY DEF ReadCalls
  <2> QED BY <1>5, <2>1 DEF Has
<1>7. q \o u \in Seq(Commands)
  BY <1>1
<1> QED BY <1>1, <1>3, <1>4, <1>6, <1>7

LEMMA GoesBefore ==
    ASSUME TypeSeq, NEW gone, NEW u \in Seq(Commands), Goes(gone, u), NEW A, NEW B,
           Before(calls, A, B), Before(u, A, B),
           \/ ~Has(calls, A) \/ ~Has(u, B)
           \/ A \subseteq ReadCalls(gone)
    PROVE  Before(calls', A, B)
<1>1. PICK q \in Seq(Commands) : Thinned(q, calls, ReadCalls(gone)) /\ calls' = q \o u
  BY DEF Goes
<1>2. calls \in Seq(Commands)
  BY DEF TypeSeq
<1>3. Before(q, A, B)
  BY <1>1, <1>2, ThinnedBefore
<1>4. ~Has(q, A) \/ ~Has(u, B)
  <2>1. Has(q, A) => Has(calls, A)
    BY <1>1, <1>2, ThinnedHas
  <2>2. ~Has(q, ReadCalls(gone))
    BY <1>1, <1>2, ThinnedGone
  <2> QED BY <2>1, <2>2 DEF Has
<1> QED BY <1>1, <1>3, <1>4, BehindBefore

LEMMA GoesLast ==
    ASSUME TypeSeq, NEW gone, NEW u \in Seq(Commands), Goes(gone, u), NEW C, NEW D,
           \A c \in C : c \notin ReadCalls(gone),
           LastIn(u, C, D), LastIn(calls, C, D) \/ Has(u, C)
    PROVE  LastIn(calls', C, D)
<1>1. PICK q \in Seq(Commands) : Thinned(q, calls, ReadCalls(gone)) /\ calls' = q \o u
  BY DEF Goes
<1>2. calls \in Seq(Commands)
  BY DEF TypeSeq
<1>3. LastIn(q, C, D) \/ Has(u, C)
  BY <1>1, <1>2, ThinnedLast
<1> QED BY <1>1, <1>3, BehindLast

LEMMA SameGoes ==
    ASSUME TypeSeq, calls' = calls
    PROVE  <<>> \in Seq(Commands) /\ Goes({}, <<>>)
<1>1. calls \in Seq(Commands)
  BY DEF TypeSeq
<1>2. Thinned(calls, calls, ReadCalls({})) /\ calls' = calls \o <<>>
  BY <1>1, ThinnedSelf
<1> QED BY <1>1, <1>2 DEF Goes

LEMMA LessGoes ==
    ASSUME TypeSeq, NEW gone, calls' = Without(gone)
    PROVE  <<>> \in Seq(Commands) /\ Goes(gone, <<>>)
<1> DEFINE q == Without(gone)
<1>1. q \in Seq(Commands) /\ Thinned(q, calls, ReadCalls(gone))
  BY WithoutIs
<1> HIDE DEF q
<1>2. calls' = q \o <<>>
  BY <1>1 DEF q
<1> QED BY <1>1, <1>2 DEF Goes

LEMMA MoreGoes ==
    ASSUME TypeSeq, NEW u \in Seq(Commands), calls' = calls \o u
    PROVE  Goes({}, u)
<1>1. calls \in Seq(Commands)
  BY DEF TypeSeq
<1> QED BY <1>1, ThinnedSelf DEF Goes

LEMMA EmptyIs ==
    /\ \A C : ~Has(<<>>, C)
    /\ \A A, B : Before(<<>>, A, B)
    /\ \A C, D : LastIn(<<>>, C, D)
BY DEF Has, Before, LastIn

LEMMA OneHas ==
    ASSUME NEW c, NEW C
    PROVE  Has(<<c>>, C) <=> c \in C
BY DEF Has

LEMMA NoneBefore ==
    ASSUME NEW S, NEW u \in Seq(S), NEW A, NEW B, ~Has(u, A) \/ ~Has(u, B)
    PROVE  Before(u, A, B)
BY DEF Before, Has

LEMMA AllLast ==
    ASSUME NEW S, NEW u \in Seq(S), NEW C, NEW D, ~Has(u, C \ D)
    PROVE  LastIn(u, C, D)
BY DEF LastIn, Has

LEMMA WrittenIs ==
    ASSUME NEW s \in Seq(Keys), NEW t \in Seq(Keys), NEW doc \in Contents
    PROVE  /\ Written(s, doc, t) \in Seq(Commands)
           /\ \A C : Has(Written(s, doc, t), C)
                <=> (Has(s, C) \/ [op |-> "write", what |-> doc] \in C \/ Has(t, C))
           /\ Has(Written(s, doc, t), WriteCalls)
           /\ \A C : C \subseteq WriteCalls =>
                (Has(Written(s, doc, t), C) <=> [op |-> "write", what |-> doc] \in C)
           /\ ~Has(Written(s, doc, t), LoadCalls)
           /\ \A nets : ~Has(Written(s, doc, t), ReadCalls(nets))
           /\ \A r, C : C \subseteq SecretCalls(r) =>
                (Has(Written(s, doc, t), C) <=> Has(s, C) \/ Has(t, C))
<1> DEFINE c == [op |-> "write", what |-> doc]  u == Written(s, doc, t)
<1>1. c \in WriteCalls /\ c \in Commands
  BY MakesWrite, Kinds
<1> HIDE DEF c
<1>2. s \in Seq(Commands) /\ t \in Seq(Commands) /\ <<c>> \in Seq(Commands)
  BY <1>1, KeysIn
<1>3. s \o <<c>> \in Seq(Commands)
  BY <1>2
<1>4. \A C : Has(s \o <<c>>, C) <=> Has(s, C) \/ c \in C
  BY <1>2, BehindHas, OneHas
<1>5. u = (s \o <<c>>) \o t
  BY DEF Written, c
<1> HIDE DEF u
<1>6. u \in Seq(Commands)
  BY <1>2, <1>3, <1>5
<1>7. \A C : Has(u, C) <=> Has(s, C) \/ c \in C \/ Has(t, C)
  BY <1>2, <1>3, <1>4, <1>5, BehindHas
<1>8. \A k \in Keys : k \notin LoadCalls /\ k \notin WriteCalls /\ \A nets : k \notin ReadCalls(nets)
  BY DEF Keys, LoadCalls, WriteCalls, ReadCalls
<1>9. ASSUME NEW C, \A k \in Keys : k \notin C
      PROVE  ~Has(s, C) /\ ~Has(t, C)
  BY <1>9 DEF Has
<1>10. /\ ~Has(s, WriteCalls) /\ ~Has(t, WriteCalls)
       /\ ~Has(s, LoadCalls) /\ ~Has(t, LoadCalls)
       /\ \A nets : ~Has(s, ReadCalls(nets)) /\ ~Has(t, ReadCalls(nets))
  BY <1>8, <1>9
<1>11. c \notin LoadCalls /\ \A r, nets : c \notin SecretCalls(r) /\ c \notin ReadCalls(nets)
  BY <1>1, Kinds
<1>12. \A C : C \subseteq WriteCalls => ~Has(s, C) /\ ~Has(t, C)
  BY <1>10 DEF Has
<1>13. \A r, C : C \subseteq SecretCalls(r) => c \notin C
  BY <1>11
<1> QED BY <1>1, <1>6, <1>7, <1>10, <1>11, <1>12, <1>13 DEF u, c

----------------------------------------------------------------------------
(* What the other handlers put behind the commands.                        *)

LEMMA Assoc ==
    ASSUME NEW a \in Seq(Commands), NEW b \in Seq(Commands), NEW c \in Seq(Commands)
    PROVE  (a \o b) \o c = a \o (b \o c)
OBVIOUS

LEMMA PersistGoes ==
    ASSUME TypeSeq, NEW gone, NEW q \in Seq(Commands), Thinned(q, calls, ReadCalls(gone)),
           NEW s \in Seq(Keys), NEW t \in Seq(Keys),
           NEW nets \in Nets, NEW who \in {Loading, None, "named"},
           nets = profiles', who = identity', settings' \in 0..1,
           calls' = ((q \o s) \o Persist(nets, who)) \o t
    PROVE  \E doc : Persisting(gone, s, doc, t)
<1>1. PICK doc \in Contents :
         /\ doc.nets = nets /\ doc.identity = IF who = Loading THEN None ELSE who
         /\ Persist(nets, who) = <<[op |-> "write", what |-> doc]>>
  BY PersistIs
<1> DEFINE w == <<[op |-> "write", what |-> doc]>>
<1>2. w \in Seq(Commands) /\ s \in Seq(Commands) /\ t \in Seq(Commands)
  <2>1. [op |-> "write", what |-> doc] \in Commands
    BY MakesWrite, Kinds
  <2> QED BY <2>1, KeysIn
<1>3. calls' = ((q \o s) \o w) \o t
  BY <1>1
<1> HIDE DEF w
<1>4. s \o w \in Seq(Commands) /\ (q \o s) \o w = q \o (s \o w)
  BY <1>2, Assoc
<1>5. (q \o (s \o w)) \o t = q \o ((s \o w) \o t)
  <2> DEFINE v == s \o w
  <2>1. v \in Seq(Commands)
    BY <1>4
  <2> HIDE DEF v
  <2>2. (q \o v) \o t = q \o (v \o t)
    BY <1>2, <2>1, Assoc
  <2> QED BY <2>2 DEF v
<1>6. calls' = q \o ((s \o w) \o t)
  BY <1>3, <1>4, <1>5
<1>7. Goes(gone, Written(s, doc, t))
  BY <1>6 DEF Goes, Written, w
<1>8. doc.nets = profiles' /\ doc.identity = IF identity' = Loading THEN None ELSE identity'
  BY <1>1
<1> QED BY <1>7, <1>8 DEF Persisting

LEMMA NoKeys == <<>> \in Seq(Keys) /\ \A q \in Seq(Commands) : q \o <<>> = q
OBVIOUS

LEMMA ActIs ==
    ASSUME TypeSeq, Act
    PROVE  acts' \in 0..Acts
BY ProfilesAssumption DEF Act, TypeSeq, TypeOK

LEMMA RemovesIs ==
    ASSUME TypeSeq, NEW n \in Networks, RemovesNetwork(n)
    PROVE  /\ \E doc : Persisting({n}, <<>>, doc, Forget(RefsOf(profiles[n])))
           /\ RefsOf(profiles[n]) \subseteq Refs /\ Forget(RefsOf(profiles[n])) \in Seq(Keys)
           /\ profiles' \in Nets
<1>1. /\ There(n) /\ profiles' = [profiles EXCEPT ![n] = Absent]
      /\ settings' = settings /\ identity' = identity
      /\ calls' = Without({n}) \o Persist(profiles', identity) \o Forget(RefsOf(profiles[n]))
  BY DEF RemovesNetwork
<1>2. profiles[n] \in Profile \cup {Absent} /\ identity \in {Loading, None, "named"} /\ settings' \in 0..1
  BY <1>1, ProfilesType
<1>3. RefsOf(profiles[n]) \subseteq Refs
  BY <1>2, RefsOfIs
<1>4. profiles' \in Nets
  BY <1>1, ProfilesType DEF Nets
<1> DEFINE q == Without({n})  t == Forget(RefsOf(profiles[n]))  nets == profiles'
<1>5. q \in Seq(Commands) /\ Thinned(q, calls, ReadCalls({n})) /\ t \in Seq(Keys)
  BY <1>3, WithoutIs, ForgetType
<1>6. nets \in Nets /\ nets = profiles'
  BY <1>4
<1>7. calls' = (q \o Persist(nets, identity)) \o t
  BY <1>1
<1> HIDE DEF q, t, nets
<1>8. calls' = ((q \o <<>>) \o Persist(nets, identity)) \o t
  BY <1>5, <1>7, NoKeys
<1>9. \E doc : Persisting({n}, <<>>, doc, t)
  BY <1>1, <1>2, <1>5, <1>6, <1>8, NoKeys, PersistGoes
<1> QED BY <1>3, <1>4, <1>5, <1>9 DEF t

\* What toggleNetworkAutojoin(), saveIdentity() and the effect that saves the
\* settings come to.
LEMMA SavesAsIs ==
    ASSUME TypeSeq, NEW nets \in Nets, NEW who \in {Loading, None, "named"},
           nets = profiles', who = identity', settings' \in 0..1,
           calls' = calls \o Persist(nets, who)
    PROVE  \E doc : Persisting({}, <<>>, doc, <<>>)
<1>1. calls \in Seq(Commands) /\ Thinned(calls, calls, ReadCalls({}))
  BY ThinnedSelf DEF TypeSeq
<1>2. Persist(nets, who) \in Seq(Commands)
  <2>1. PICK doc \in Contents : Persist(nets, who) = <<[op |-> "write", what |-> doc]>>
    BY PersistIs
  <2>2. [op |-> "write", what |-> doc] \in Commands
    BY MakesWrite, Kinds
  <2> QED BY <2>1, <2>2
<1> DEFINE w == Persist(nets, who)
<1>3. w \in Seq(Commands)
  BY <1>2
<1> HIDE DEF w
<1>4. calls \o w = ((calls \o <<>>) \o w) \o <<>>
  BY <1>1, <1>3
<1>5. calls' = ((calls \o <<>>) \o Persist(nets, who)) \o <<>>
  BY <1>4 DEF w
<1> QED BY <1>1, <1>5, NoKeys, PersistGoes

LEMMA TogglesIs ==
    ASSUME TypeSeq, NEW n \in Networks, TogglesAutojoin(n)
    PROVE  /\ \E doc : Persisting({}, <<>>, doc, <<>>)
           /\ profiles' \in Nets /\ There(n) /\ \A m \in Networks : profiles'[m].ref = profiles[m].ref
           /\ \A m \in Networks : There(m)' <=> There(m)
           /\ profiles' = [profiles EXCEPT ![n].joins = ~profiles[n].joins]
           /\ [profiles[n] EXCEPT !.joins = ~profiles[n].joins] = profiles'[n]
           /\ \A m \in Networks \ {n} : profiles'[m] = profiles[m]
<1>1. /\ There(n) /\ profiles' = [profiles EXCEPT ![n].joins = ~profiles[n].joins]
      /\ settings' = settings /\ identity' = identity
      /\ calls' = calls \o Persist(profiles', identity)
  BY DEF TogglesAutojoin
<1>2. identity \in {Loading, None, "named"} /\ settings' \in 0..1 /\ profiles \in Nets
  BY <1>1, ProfilesType
<1>3. profiles[n] \in Profile
  BY <1>1, ProfilesType
<1> DEFINE p == [profiles[n] EXCEPT !.joins = ~profiles[n].joins]
<1>4. p \in Profile /\ p.ref = profiles[n].ref /\ p.there /\ profiles[n].there
  BY <1>3 DEF Profile
<1>5. profiles' = [profiles EXCEPT ![n] = p]
  BY <1>1
<1> HIDE DEF p
<1>6. profiles' \in Nets /\ profiles'[n] = p /\ \A m \in Networks \ {n} : profiles'[m] = profiles[m]
  BY <1>2, <1>4, <1>5 DEF Nets
<1>7. /\ \A m \in Networks : profiles'[m].ref = profiles[m].ref
      /\ \A m \in Networks : There(m)' <=> There(m)
  BY <1>4, <1>6 DEF There
<1> DEFINE nets == profiles'
<1>8. nets \in Nets /\ nets = profiles' /\ calls' = calls \o Persist(nets, identity)
  BY <1>1, <1>6
<1> HIDE DEF nets
<1>9. \E doc : Persisting({}, <<>>, doc, <<>>)
  BY <1>1, <1>2, <1>8, SavesAsIs
<1> QED BY <1>1, <1>6, <1>7, <1>9 DEF p

LEMMA IdentityIs ==
    ASSUME TypeSeq, SavesIdentity
    PROVE  \E doc : Persisting({}, <<>>, doc, <<>>)
<1>1. /\ identity' = "named" /\ settings' = settings /\ profiles' = profiles
      /\ calls' = calls \o Persist(profiles, identity')
  BY DEF SavesIdentity
<1>2. profiles \in Nets /\ settings' \in 0..1 /\ "named" \in {Loading, None, "named"}
      /\ calls' = calls \o Persist(profiles, "named")
  BY <1>1, ProfilesType
<1> QED BY <1>1, <1>2, SavesAsIs

LEMMA SettingsIs ==
    ASSUME TypeSeq, SavesSettings
    PROVE  \E doc : Persisting({}, <<>>, doc, <<>>)
<1>1. /\ identity' = identity /\ settings' = settings /\ profiles' = profiles
      /\ calls' = calls \o Persist(profiles, identity)
  BY DEF SavesSettings
<1>2. profiles \in Nets /\ settings' \in 0..1 /\ identity \in {Loading, None, "named"}
  BY <1>1, ProfilesType
<1> QED BY <1>1, <1>2, SavesAsIs

\* What applyConfig() lets go of.
Gone(nets) == {n \in Networks : There(n) /\ ~nets[n].there}

LEMMA RefsInAre ==
    ASSUME NEW nets \in Nets, NEW S, S \subseteq Networks
    PROVE  /\ RefsIn(nets, S) \subseteq Refs
           /\ \A n \in S : nets[n].ref # None => nets[n].ref \in RefsIn(nets, S)
           /\ \A r \in RefsIn(nets, S) : \E n \in S : nets[n].ref = r
<1>1. \A n \in S : nets[n] \in Profile \cup {Absent}
  BY DEF Nets
<1>2. \A n \in S : /\ RefsOf(nets[n]) = IF nets[n].ref = None THEN {} ELSE {nets[n].ref}
                   /\ RefsOf(nets[n]) \subseteq Refs
  BY <1>1, RefsOfIs
<1> QED BY <1>2 DEF RefsIn

LEMMA ImportsIs ==
    ASSUME TypeSeq, ImportsConfig
    PROVE  \E from \in exported : \E doc :
              /\ from \in Contents
              /\ LET forgotten == RefsIn(profiles, Gone(from.nets)) \ RefsIn(from.nets, Networks)
                 IN  /\ forgotten \subseteq Refs /\ Forget(forgotten) \in Seq(Keys)
                     /\ Persisting(Networks, Forget(forgotten), doc, <<>>)
              /\ profiles' = from.nets /\ identity' = from.identity /\ settings' = from.settings
              /\ sessions' = [n \in Networks |->
                    IF from.nets[n].there THEN [of |-> from.nets[n], phase |-> "idle", sent |-> None]
                    ELSE NoSession]
              /\ removed' = removed \cup Gone(from.nets)
              /\ freed' = (freed \cup RefsIn(profiles, Gone(from.nets))) \ RefsIn(from.nets, Networks)
<1>1. PICK from \in exported :
         LET gone == {n \in Networks : There(n) /\ ~from.nets[n].there}
             needed == RefsIn(from.nets, Networks)
         IN  /\ profiles' = from.nets
             /\ sessions' = [n \in Networks |->
                   IF from.nets[n].there THEN [NoSession EXCEPT !.of = from.nets[n], !.phase = "idle"]
                   ELSE NoSession]
             /\ settings' = from.settings /\ identity' = from.identity
             /\ calls' = Without(Networks)
                   \o Forget(RefsIn(profiles, gone) \ needed)
                   \o Persist(from.nets, from.identity)
             /\ removed' = removed \cup gone
             /\ freed' = (freed \cup RefsIn(profiles, gone)) \ needed
  BY DEF ImportsConfig
<1> DEFINE F == RefsIn(profiles, Gone(from.nets)) \ RefsIn(from.nets, Networks)
           s == Forget(F)  q == Without(Networks)
<1>2. from \in Contents
  BY DEF TypeSeq, TypeOK
<1>3. from.nets \in Nets /\ from.identity \in {Loading, None, "named"} /\ from.settings \in 0..1
  BY <1>2, ContentsIs
<1>4. F \subseteq Refs
  <2>1. Gone(from.nets) \subseteq Networks
    BY DEF Gone
  <2> QED BY <2>1, ProfilesType, RefsInAre
<1>5. /\ profiles' = from.nets /\ settings' = from.settings /\ identity' = from.identity
      /\ calls' = (q \o s) \o Persist(from.nets, from.identity)
      /\ removed' = removed \cup Gone(from.nets)
      /\ freed' = (freed \cup RefsIn(profiles, Gone(from.nets))) \ RefsIn(from.nets, Networks)
  BY <1>1 DEF Gone
<1>6. sessions' = [n \in Networks |->
                    IF from.nets[n].there THEN [of |-> from.nets[n], phase |-> "idle", sent |-> None]
                    ELSE NoSession]
  <2>1. ASSUME NEW p
        PROVE  [NoSession EXCEPT !.of = p, !.phase = "idle"] = [of |-> p, phase |-> "idle", sent |-> None]
    <3> DEFINE a == [NoSession EXCEPT !.of = p]
    <3>1. a = [of |-> p, phase |-> None, sent |-> None]
      BY DEF NoSession
    <3> HIDE DEF a
    <3>2. [a EXCEPT !.phase = "idle"] = [of |-> p, phase |-> "idle", sent |-> None]
      BY <3>1
    <3> QED BY <3>2 DEF a
  <2> QED BY <1>1, <2>1
<1>7. s \in Seq(Keys) /\ q \in Seq(Commands) /\ Thinned(q, calls, ReadCalls(Networks))
  BY <1>4, ForgetType, WithoutIs
<1> HIDE DEF F, s, q
<1> DEFINE w == Persist(from.nets, from.identity)
<1>8. calls' = ((q \o s) \o w) \o <<>>
  <2>1. PICK doc \in Contents : w = <<[op |-> "write", what |-> doc]>>
    BY <1>3, <1>5, PersistIs
  <2>2. [op |-> "write", what |-> doc] \in Commands
    BY MakesWrite, Kinds
  <2>3. w \in Seq(Commands)
    BY <2>1, <2>2
  <2>4. s \in Seq(Commands)
    BY <1>7, KeysIn
  <2>5. calls' = (q \o s) \o w
    BY <1>5
  <2> HIDE DEF w
  <2>6. (q \o s) \o w \in Seq(Commands)
    BY <1>7, <2>3, <2>4
  <2> QED BY <2>5, <2>6, NoKeys
<1>9. \E doc : Persisting(Networks, s, doc, <<>>)
  BY <1>3, <1>5, <1>7, <1>8, NoKeys, PersistGoes
<1> QED BY <1>2, <1>4, <1>5, <1>6, <1>7, <1>9 DEF s, F

----------------------------------------------------------------------------
(* Types.                                                                  *)

Session == [of : Profile \cup {Absent}, phase : {None, "idle", "dialling", "live"},
            sent : Passwords \cup {None}]

\* But for the commands, and in what a handler changes together.
TypeShown ==
    /\ profiles \in Nets /\ sessions \in [Networks -> Session]
    /\ identity \in {Loading, None, "named"} /\ settings \in 0..1 /\ savedSettings \in 0..1
    /\ memory \in [Refs -> Passwords \cup {None}] /\ prompts \subseteq [net : Networks, of : Profile]
TypeKept ==
    /\ exported \subseteq Contents /\ Cardinality(exported) <= 1 /\ file \in Contents
    /\ keychain \in [Refs -> Passwords \cup {None}]
TypeGhosts ==
    /\ typed \in [Refs -> Passwords \cup {None}]
    /\ used \subseteq Refs /\ freed \subseteq Refs /\ doubtful \subseteq Refs
    /\ asked \subseteq Networks /\ removed \subseteq Networks /\ lost \subseteq Networks
    /\ apart \subseteq Networks \cup {"file"} /\ acts \in 0..Acts

LEMMA TypeIs == TypeSeq <=> TypeShown /\ TypeKept /\ TypeGhosts /\ calls \in Seq(Commands)
<1>1. ASSUME calls \in Seq(Commands)
      PROVE  \A i \in DOMAIN calls :
          calls[i] \in [op : {"load"}] \cup [op : {"write"}, what : Contents]
             \cup [op : {"set"}, ref : Refs, value : Passwords]
             \cup [op : {"forget"}, ref : Refs] \cup [op : {"read"}, net : Networks]
  <2>1. \A i \in DOMAIN calls : calls[i] \in Commands
    BY <1>1
  <2> QED BY <2>1 DEF Commands
<1>2. TypeSeq => TypeShown /\ TypeKept /\ TypeGhosts /\ calls \in Seq(Commands)
  BY DEF TypeSeq, TypeOK, TypeShown, TypeKept, TypeGhosts, Nets, Session
<1>3. ASSUME TypeShown, TypeKept, TypeGhosts, calls \in Seq(Commands)
      PROVE  TypeSeq
  <2>1. sessions \in [Networks -> [of : Profile \cup {Absent}, phase : {None, "idle", "dialling", "live"},
                                  sent : Passwords \cup {None}]]
    BY <1>3 DEF TypeShown, Session
  <2> QED BY <1>1, <1>3, <2>1 DEF TypeSeq, TypeOK, TypeShown, TypeKept, TypeGhosts, Nets
<1> QED BY <1>2, <1>3

LEMMA TypeNext ==
    ASSUME TypeShown', TypeKept', TypeGhosts', calls' \in Seq(Commands)
    PROVE  TypeSeq'
<1>1. (TypeSeq <=> TypeShown /\ TypeKept /\ TypeGhosts /\ calls \in Seq(Commands))'
  BY TypeIs, PTL
<1> QED BY <1>1

LEMMA PartsType ==
    ASSUME TypeSeq, Parts
    PROVE  lost' \subseteq Networks /\ apart' \subseteq Networks \cup {"file"}
<1>1. lost \subseteq Networks
  BY DEF TypeSeq, TypeOK
<1>2. /\ apart' \in {{}, {"file"}}
      /\ lost' = lost \/ lost' = lost \cup {n \in Networks : file.nets[n].there}
  BY DEF Parts
<1> QED BY <1>1, <1>2

LEMMA InitType ==
    ASSUME Init
    PROVE  TypeSeq
<1>1. Blank \in Contents
  BY DEF Blank, Contents
<1>2. NoSession \in Session
  BY DEF NoSession, Session
<1>3. exported = {} /\ Cardinality(exported) = 0
  BY FS_EmptySet DEF Init
<1>4. calls \in Seq(Commands)
  <2>1. [op |-> "load"] \in Commands
    BY MakesLoad, Kinds
  <2> QED BY <2>1 DEF Init
<1>5. TypeShown
  BY <1>2 DEF Init, TypeShown, Nets
<1>6. TypeKept
  BY <1>1, <1>3 DEF Init, TypeKept
<1>7. TypeGhosts
  BY ProfilesAssumption DEF Init, TypeGhosts
<1> QED BY <1>4, <1>5, <1>6, <1>7, TypeIs

LEMMA PersistingType ==
    ASSUME TypeSeq, NEW gone, NEW s, NEW doc, NEW t, Persisting(gone, s, doc, t)
    PROVE  calls' \in Seq(Commands)
BY WrittenIs, GoesHas DEF Persisting

LEMMA TypedType ==
    ASSUME TypeSeq, NEW r \in Refs, NEW value \in Passwords,
           typed' = [typed EXCEPT ![r] = value], memory' = [memory EXCEPT ![r] = value],
           used' = used \cup {r}, freed' = freed \ {r}, doubtful' = doubtful \ {r}
    PROVE  /\ typed' \in [Refs -> Passwords \cup {None}] /\ memory' \in [Refs -> Passwords \cup {None}]
           /\ used' \subseteq Refs /\ freed' \subseteq Refs /\ doubtful' \subseteq Refs
BY DEF TypeSeq, TypeOK

LEMMA PutsType ==
    ASSUME TypeSeq, NEW n \in Networks, NEW p \in Profile, NEW s, NEW doc,
           Puts(n, p, s), Persisting({n}, s, doc, <<>>), acts' \in 0..Acts
    PROVE  TypeSeq'
<1>0. TypeShown /\ TypeKept /\ TypeGhosts
  BY TypeIs
<1>1. calls' \in Seq(Commands)
  BY PersistingType
<1>2. /\ typed' \in [Refs -> Passwords \cup {None}] /\ memory' \in [Refs -> Passwords \cup {None}]
      /\ used' \subseteq Refs /\ freed' \subseteq Refs /\ doubtful' \subseteq Refs
  <2>1. CASE UNCHANGED <<typed, memory, used, freed, doubtful>>
    BY <2>1 DEF TypeSeq, TypeOK
  <2>2. CASE /\ p.ref \in Refs
             /\ \E value \in Passwords : /\ typed' = [typed EXCEPT ![p.ref] = value]
                                         /\ memory' = [memory EXCEPT ![p.ref] = value]
             /\ used' = used \cup {p.ref} /\ freed' = freed \ {p.ref}
             /\ doubtful' = doubtful \ {p.ref}
    BY <2>2, TypedType
  <2> QED BY <2>1, <2>2 DEF Puts
<1>3. PICK phase \in {"idle", "dialling"} :
         sessions' = [sessions EXCEPT ![n] = [of |-> p, phase |-> phase, sent |-> None]]
  BY DEF Puts
<1>4. sessions' \in [Networks -> Session]
  <2>1. [of |-> p, phase |-> phase, sent |-> None] \in Session
    BY DEF Session
  <2>2. sessions \in [Networks -> Session]
    BY <1>0 DEF TypeShown
  <2> QED BY <1>3, <2>1, <2>2
<1>5. profiles' \in Nets
  BY <1>0 DEF TypeShown, Puts, Nets
<1>6. lost' \subseteq Networks /\ apart' \subseteq Networks \cup {"file"}
  BY PartsType DEF Puts
<1>7. TypeShown'
  BY <1>0, <1>2, <1>4, <1>5 DEF TypeShown, Puts
<1>8. TypeKept'
  BY <1>0 DEF TypeKept, Puts, kept
<1>9. TypeGhosts'
  BY <1>0, <1>2, <1>6 DEF TypeGhosts, Puts
<1> QED BY <1>1, <1>7, <1>8, <1>9, TypeNext

LEMMA RemovesType ==
    ASSUME TypeSeq, NEW n \in Networks, RemovesNetwork(n)
    PROVE  TypeSeq'
<1>0. TypeShown /\ TypeKept /\ TypeGhosts
  BY TypeIs
<1>1. calls' \in Seq(Commands) /\ profiles' \in Nets
  BY RemovesIs, PersistingType
<1>2. /\ sessions' = [sessions EXCEPT ![n] = NoSession] /\ Act /\ Parts
      /\ asked' = asked \ {n} /\ removed' = removed \cup {n}
      /\ freed' = freed \cup RefsOf(profiles[n])
      /\ UNCHANGED <<identity, settings, savedSettings, memory, prompts, exported, file, keychain,
                     typed, used, doubtful>>
  BY DEF RemovesNetwork, kept
<1>3. lost' \subseteq Networks /\ apart' \subseteq Networks \cup {"file"} /\ acts' \in 0..Acts
  BY <1>2, PartsType, ActIs
<1>4. RefsOf(profiles[n]) \subseteq Refs
  BY RemovesIs
<1>5. NoSession \in Session
  BY DEF NoSession, Session
<1>6. TypeShown'
  BY <1>0, <1>1, <1>2, <1>5 DEF TypeShown
<1>7. TypeKept'
  BY <1>0, <1>2 DEF TypeKept
<1>8. TypeGhosts'
  BY <1>0, <1>2, <1>3, <1>4 DEF TypeGhosts
<1> QED BY <1>1, <1>6, <1>7, <1>8, TypeNext

LEMMA ImportsType ==
    ASSUME TypeSeq, ImportsConfig
    PROVE  TypeSeq'
<1>0. TypeShown /\ TypeKept /\ TypeGhosts
  BY TypeIs
<1>1. PICK from \in exported :
              /\ from \in Contents /\ \E s, doc : Persisting(Networks, s, doc, <<>>)
              /\ profiles' = from.nets /\ identity' = from.identity /\ settings' = from.settings
              /\ sessions' = [n \in Networks |->
                    IF from.nets[n].there THEN [of |-> from.nets[n], phase |-> "idle", sent |-> None]
                    ELSE NoSession]
              /\ removed' = removed \cup Gone(from.nets)
              /\ freed' = (freed \cup RefsIn(profiles, Gone(from.nets))) \ RefsIn(from.nets, Networks)
  BY ImportsIs
<1>2. from.nets \in Nets /\ from.identity \in {None, "named"} /\ from.settings \in 0..1
  BY <1>1, ContentsIs
<1>3. calls' \in Seq(Commands)
  BY <1>1, PersistingType
<1>4. /\ asked' = {} /\ Parts /\ Act
      /\ UNCHANGED <<savedSettings, memory, prompts, exported, file, keychain, typed, used, doubtful>>
  BY DEF ImportsConfig, kept
<1>5. lost' \subseteq Networks /\ apart' \subseteq Networks \cup {"file"} /\ acts' \in 0..Acts
  BY <1>4, PartsType, ActIs
<1>6. Gone(from.nets) \subseteq Networks /\ RefsIn(profiles, Gone(from.nets)) \subseteq Refs
  <2>1. Gone(from.nets) \subseteq Networks
    BY DEF Gone
  <2> QED BY <2>1, ProfilesType, RefsInAre
<1>7. sessions' \in [Networks -> Session]
  <2>1. NoSession \in Session
    BY DEF NoSession, Session
  <2>2. ASSUME NEW n \in Networks PROVE [of |-> from.nets[n], phase |-> "idle", sent |-> None] \in Session
    <3>1. from.nets[n] \in Profile \cup {Absent}
      BY <1>2 DEF Nets
    <3> QED BY <3>1 DEF Session
  <2> QED BY <1>1, <2>1, <2>2
<1>8. TypeShown'
  BY <1>0, <1>1, <1>2, <1>4, <1>7 DEF TypeShown
<1>9. TypeKept'
  BY <1>0, <1>4 DEF TypeKept
<1>10. TypeGhosts'
  BY <1>0, <1>1, <1>4, <1>5, <1>6 DEF TypeGhosts
<1> QED BY <1>3, <1>8, <1>9, <1>10, TypeNext

LEMMA LeftType ==
    ASSUME TypeSeq, NEW gone
    PROVE  Without(gone) \in Seq(Commands)
BY WithoutIs

LEMMA TogglesType ==
    ASSUME TypeSeq, NEW n \in Networks, TogglesAutojoin(n)
    PROVE  TypeSeq'
<1>0. TypeShown /\ TypeKept /\ TypeGhosts
  BY TypeIs
<1>1. calls' \in Seq(Commands) /\ profiles' \in Nets
  BY TogglesIs, PersistingType
<1>2. /\ Act /\ Parts
      /\ UNCHANGED <<sessions, identity, settings, savedSettings, memory, prompts, exported, file, keychain>>
      /\ UNCHANGED <<typed, used, freed, asked, removed, doubtful>>
  BY DEF TogglesAutojoin, kept
<1>3. lost' \subseteq Networks /\ apart' \subseteq Networks \cup {"file"} /\ acts' \in 0..Acts
  BY <1>2, PartsType, ActIs
<1>4. TypeShown'
  BY <1>0, <1>1, <1>2 DEF TypeShown
<1>5. TypeKept'
  BY <1>0, <1>2 DEF TypeKept
<1>6. TypeGhosts'
  BY <1>0, <1>2, <1>3 DEF TypeGhosts
<1> QED BY <1>1, <1>4, <1>5, <1>6, TypeNext

LEMMA IdentityType ==
    ASSUME TypeSeq, SavesIdentity
    PROVE  TypeSeq'
<1>0. TypeShown /\ TypeKept /\ TypeGhosts
  BY TypeIs
<1>1. calls' \in Seq(Commands)
  BY IdentityIs, PersistingType
<1>2. /\ Act /\ Parts /\ identity' = "named"
      /\ UNCHANGED <<profiles, sessions, settings, savedSettings, memory, prompts, exported, file, keychain>>
      /\ UNCHANGED <<typed, used, freed, asked, removed, doubtful>>
  BY DEF SavesIdentity, kept
<1>3. lost' \subseteq Networks /\ apart' \subseteq Networks \cup {"file"} /\ acts' \in 0..Acts
  BY <1>2, PartsType, ActIs
<1>4. TypeShown'
  BY <1>0, <1>2 DEF TypeShown
<1>5. TypeKept'
  BY <1>0, <1>2 DEF TypeKept
<1>6. TypeGhosts'
  BY <1>0, <1>2, <1>3 DEF TypeGhosts
<1> QED BY <1>1, <1>4, <1>5, <1>6, TypeNext

LEMMA SettingsType ==
    ASSUME TypeSeq, SavesSettings
    PROVE  TypeSeq'
<1>0. TypeShown /\ TypeKept /\ TypeGhosts
  BY TypeIs
<1>1. calls' \in Seq(Commands)
  BY SettingsIs, PersistingType
<1>2. /\ Parts /\ savedSettings' = settings
      /\ UNCHANGED <<profiles, sessions, identity, settings, memory, prompts, exported, file, keychain>>
      /\ UNCHANGED <<typed, used, freed, asked, removed, doubtful, acts>>
  BY DEF SavesSettings, kept
<1>3. lost' \subseteq Networks /\ apart' \subseteq Networks \cup {"file"}
  BY <1>2, PartsType
<1>4. TypeShown'
  BY <1>0, <1>2 DEF TypeShown
<1>5. TypeKept'
  BY <1>0, <1>2 DEF TypeKept
<1>6. TypeGhosts'
  BY <1>0, <1>2, <1>3 DEF TypeGhosts
<1> QED BY <1>1, <1>4, <1>5, <1>6, TypeNext

LEMMA ReconnectsType ==
    ASSUME TypeSeq, NEW n \in Networks, Reconnects(n)
    PROVE  TypeSeq' /\ profiles' = profiles
<1>0. TypeShown /\ TypeKept /\ TypeGhosts
  BY TypeIs
<1>1. calls' \in Seq(Commands)
  BY LeftType DEF Reconnects
<1>2. /\ Act /\ asked' = asked \cup {n}
      /\ profiles' = [profiles EXCEPT ![n] = profiles[n]]
      /\ sessions' = [sessions EXCEPT ![n] = [of |-> profiles[n], phase |-> "dialling", sent |-> None]]
      /\ UNCHANGED <<identity, settings, savedSettings, memory, prompts, exported, file, keychain>>
      /\ UNCHANGED <<typed, used, freed, removed, lost, apart, doubtful>>
  BY DEF Reconnects, Registers, kept
<1>3. acts' \in 0..Acts
  BY <1>2, ActIs
<1>4. profiles' = profiles
  BY <1>0, <1>2 DEF TypeShown, Nets
<1>5. [of |-> profiles[n], phase |-> "dialling", sent |-> None] \in Session
  BY <1>0 DEF TypeShown, Nets, Session
<1>6. TypeShown'
  BY <1>0, <1>2, <1>4, <1>5 DEF TypeShown
<1>7. TypeKept'
  BY <1>0, <1>2 DEF TypeKept
<1>8. TypeGhosts'
  BY <1>0, <1>2, <1>3 DEF TypeGhosts
<1> QED BY <1>1, <1>4, <1>6, <1>7, <1>8, TypeNext

LEMMA SessionEdits ==
    ASSUME TypeSeq, NEW n \in Networks
    PROVE  /\ \A phase \in {"idle", "dialling", "live"} :
                [sessions EXCEPT ![n].phase = phase] \in [Networks -> Session]
           /\ \A sent \in Passwords \cup {None} :
                [sessions EXCEPT ![n].sent = sent] \in [Networks -> Session]
           /\ \A phase \in {"idle", "dialling", "live"}, sent \in Passwords \cup {None} :
                [sessions EXCEPT ![n].phase = phase, ![n].sent = sent] \in [Networks -> Session]
<1>1. sessions \in [Networks -> Session]
  BY TypeIs DEF TypeShown
<1>2. /\ \A f \in [Networks -> Session], phase \in {"idle", "dialling", "live"} :
            [f EXCEPT ![n].phase = phase] \in [Networks -> Session]
      /\ \A f \in [Networks -> Session], sent \in Passwords \cup {None} :
            [f EXCEPT ![n].sent = sent] \in [Networks -> Session]
  BY DEF Session
<1>3. ASSUME NEW phase \in {"idle", "dialling", "live"}, NEW sent \in Passwords \cup {None}
      PROVE  [sessions EXCEPT ![n].phase = phase, ![n].sent = sent] \in [Networks -> Session]
  BY <1>1, <1>2, <1>3
<1> QED BY <1>1, <1>2, <1>3

LEMMA DisconnectsType ==
    ASSUME TypeSeq, NEW n \in Networks, Disconnects(n)
    PROVE  TypeSeq'
<1>0. TypeShown /\ TypeKept /\ TypeGhosts /\ calls \in Seq(Commands)
  BY TypeIs
<1>1. /\ Act /\ sessions' = [sessions EXCEPT ![n].phase = "idle"] /\ asked' = asked \ {n}
      /\ UNCHANGED <<profiles, identity, settings, savedSettings, memory, prompts, exported, calls>>
      /\ UNCHANGED <<file, keychain, typed, used, freed, removed, lost, apart, doubtful>>
  BY DEF Disconnects, kept
<1>2. acts' \in 0..Acts /\ sessions' \in [Networks -> Session]
  BY <1>1, ActIs, SessionEdits
<1>3. TypeShown'
  BY <1>0, <1>1, <1>2 DEF TypeShown
<1>4. TypeKept'
  BY <1>0, <1>1 DEF TypeKept
<1>5. TypeGhosts'
  BY <1>0, <1>1, <1>2 DEF TypeGhosts
<1> QED BY <1>0, <1>1, <1>3, <1>4, <1>5, TypeNext

\* A prompt as a profile that is to be trusted.
LEMMA AcceptsIs ==
    ASSUME TypeSeq, Accepts
    PROVE  \E prompt \in prompts : \E p \in Profile :
              /\ prompt.net \in Networks /\ p.ref = prompt.of.ref /\ p.there
              /\ profiles' = [profiles EXCEPT ![prompt.net] = p]
              /\ sessions' = [sessions EXCEPT ![prompt.net] = [of |-> p, phase |-> "dialling", sent |-> None]]
              /\ prompts' = {} /\ calls' = Without({prompt.net})
              /\ asked' = asked \cup {prompt.net} /\ apart' = apart \cup {prompt.net}
              /\ freed' = freed \ RefsOf(p)
              /\ UNCHANGED <<identity, settings, savedSettings, memory, exported, file, keychain>>
              /\ UNCHANGED <<typed, used, removed, lost, doubtful, acts>>
<1>1. PICK prompt \in prompts :
       LET n == prompt.net  p == [prompt.of EXCEPT !.trusts = TRUE]
       IN  /\ Registers(n, p, TRUE)
           /\ prompts' = {}
           /\ calls' = Without({n})
           /\ asked' = asked \cup {n} /\ apart' = apart \cup {n}
           /\ freed' = freed \ RefsOf(p)
           /\ UNCHANGED <<identity, settings, savedSettings, memory, exported, kept>>
           /\ UNCHANGED <<typed, used, removed, lost, doubtful, acts>>
  BY DEF Accepts
<1>2. prompt.net \in Networks /\ prompt.of \in Profile
  BY DEF TypeSeq, TypeOK
<1> DEFINE p == [prompt.of EXCEPT !.trusts = TRUE]
<1>3. p \in Profile /\ p.ref = prompt.of.ref /\ p.there
  BY <1>2 DEF Profile
<1> QED BY <1>1, <1>2, <1>3 DEF Registers, kept

LEMMA AcceptsType ==
    ASSUME TypeSeq, Accepts
    PROVE  TypeSeq'
<1>0. TypeShown /\ TypeKept /\ TypeGhosts
  BY TypeIs
<1>1. PICK prompt \in prompts : \E p \in Profile :
              /\ prompt.net \in Networks /\ p.ref = prompt.of.ref /\ p.there
              /\ profiles' = [profiles EXCEPT ![prompt.net] = p]
              /\ sessions' = [sessions EXCEPT ![prompt.net] = [of |-> p, phase |-> "dialling", sent |-> None]]
              /\ prompts' = {} /\ calls' = Without({prompt.net})
              /\ asked' = asked \cup {prompt.net} /\ apart' = apart \cup {prompt.net}
              /\ freed' = freed \ RefsOf(p)
              /\ UNCHANGED <<identity, settings, savedSettings, memory, exported, file, keychain>>
              /\ UNCHANGED <<typed, used, removed, lost, doubtful, acts>>
  BY AcceptsIs
<1>2. PICK p \in Profile :
              /\ prompt.net \in Networks
              /\ profiles' = [profiles EXCEPT ![prompt.net] = p]
              /\ sessions' = [sessions EXCEPT ![prompt.net] = [of |-> p, phase |-> "dialling", sent |-> None]]
              /\ freed' = freed \ RefsOf(p)
  BY <1>1
<1>3. calls' \in Seq(Commands)
  BY <1>1, LeftType
<1>4. [of |-> p, phase |-> "dialling", sent |-> None] \in Session
  BY DEF Session
<1>5. TypeShown'
  BY <1>0, <1>1, <1>2, <1>4 DEF TypeShown, Nets
<1>6. TypeKept'
  BY <1>0, <1>1 DEF TypeKept
<1>7. TypeGhosts'
  BY <1>0, <1>1, <1>2 DEF TypeGhosts
<1> QED BY <1>3, <1>5, <1>6, <1>7, TypeNext

LEMMA ChangesType ==
    ASSUME TypeSeq, ChangesSettings
    PROVE  TypeSeq'
<1>0. TypeShown /\ TypeKept /\ TypeGhosts /\ calls \in Seq(Commands)
  BY TypeIs
<1>1. /\ Act /\ settings' \in 0..1
      /\ UNCHANGED <<profiles, sessions, identity, savedSettings, memory, prompts, exported, calls>>
      /\ UNCHANGED <<file, keychain, typed, used, freed, asked, removed, lost, apart, doubtful>>
  BY DEF ChangesSettings, kept, ghosts
<1>2. acts' \in 0..Acts
  BY <1>1, ActIs
<1>3. TypeShown' /\ TypeKept' /\ TypeGhosts'
  BY <1>0, <1>1, <1>2 DEF TypeShown, TypeKept, TypeGhosts
<1> QED BY <1>0, <1>1, <1>3, TypeNext

LEMMA ExportsIs ==
    ASSUME TypeSeq, Exports
    PROVE  \E doc \in Contents :
              /\ exported' = {doc} /\ doc.nets = profiles /\ Act
              /\ UNCHANGED <<profiles, sessions, identity, settings, savedSettings, memory, prompts, calls>>
              /\ UNCHANGED <<file, keychain, typed, used, freed, asked, removed, lost, apart, doubtful>>
<1>1. /\ Act /\ Loaded /\ exported' = {[nets |-> profiles, identity |-> identity, settings |-> settings]}
      /\ UNCHANGED <<profiles, sessions, identity, settings, savedSettings, memory, prompts, calls>>
      /\ UNCHANGED <<file, keychain, typed, used, freed, asked, removed, lost, apart, doubtful>>
  BY DEF Exports, shown, kept, ghosts
<1>2. identity \in {None, "named"} /\ profiles \in Nets /\ settings \in 0..1
  BY <1>1, ProfilesType DEF Loaded
<1> DEFINE doc == [nets |-> profiles, identity |-> identity, settings |-> settings]
<1>3. doc \in Contents /\ doc.nets = profiles
  BY <1>2 DEF Contents, Nets
<1>4. exported' = {doc}
  BY <1>1
<1> HIDE DEF doc
<1> QED BY <1>1, <1>3, <1>4

LEMMA ExportsType ==
    ASSUME TypeSeq, Exports
    PROVE  TypeSeq'
<1>0. TypeShown /\ TypeKept /\ TypeGhosts /\ calls \in Seq(Commands)
  BY TypeIs
<1>1. PICK doc \in Contents :
              /\ exported' = {doc} /\ doc.nets = profiles /\ Act
              /\ UNCHANGED <<profiles, sessions, identity, settings, savedSettings, memory, prompts, calls>>
              /\ UNCHANGED <<file, keychain, typed, used, freed, asked, removed, lost, apart, doubtful>>
  BY ExportsIs
<1>2. acts' \in 0..Acts
  BY <1>1, ActIs
<1>3. Cardinality(exported') <= 1
  BY <1>1, FS_Singleton
<1>4. TypeShown' /\ TypeGhosts'
  BY <1>0, <1>1, <1>2 DEF TypeShown, TypeGhosts
<1>5. TypeKept'
  BY <1>0, <1>1, <1>3 DEF TypeKept
<1> QED BY <1>0, <1>1, <1>4, <1>5, TypeNext

LEMMA QuitsType ==
    ASSUME TypeSeq, Quits
    PROVE  TypeSeq'
<1>0. TypeShown /\ TypeKept /\ TypeGhosts
  BY TypeIs
<1>1. /\ Act /\ profiles' = [n \in Networks |-> Absent] /\ sessions' = [n \in Networks |-> NoSession]
      /\ identity' = Loading /\ settings' = 0 /\ savedSettings' = 0
      /\ memory' = [ref \in Refs |-> None] /\ prompts' = {}
      /\ calls' = <<[op |-> "load"]>>
      /\ asked' = {} /\ apart' = {}
      /\ doubtful' = doubtful \cup
          {calls[i].ref : i \in {j \in DOMAIN calls : calls[j].op \in {"set", "forget"}}}
      /\ UNCHANGED <<exported, file, keychain, typed, used, freed, removed, lost>>
  BY DEF Quits, kept
<1>2. acts' \in 0..Acts
  BY <1>1, ActIs
<1>3. doubtful' \subseteq Refs
  <2>1. \A j \in DOMAIN calls : calls[j] \in Commands
    BY DEF TypeSeq
  <2>2. \A j \in DOMAIN calls : calls[j].op \in {"set", "forget"} => calls[j].ref \in Refs
    BY <2>1, CommandIs
  <2> QED BY <1>0, <1>1, <2>2 DEF TypeGhosts
<1>4. calls' \in Seq(Commands)
  <2>1. [op |-> "load"] \in Commands
    BY MakesLoad, Kinds
  <2> QED BY <1>1, <2>1
<1>5. NoSession \in Session
  BY DEF NoSession, Session
<1>6. TypeShown'
  BY <1>0, <1>1, <1>5 DEF TypeShown, Nets
<1>7. TypeKept'
  BY <1>0, <1>1 DEF TypeKept
<1>8. TypeGhosts'
  BY <1>0, <1>1, <1>2, <1>3 DEF TypeGhosts
<1> QED BY <1>4, <1>6, <1>7, <1>8, TypeNext

\* What a connection puts behind the commands.
LEMMA ConnectsIs ==
    ASSUME TypeSeq, NEW n \in Networks, Connects(n)
    PROVE  \E u \in Seq(Commands) :
              /\ Goes({}, u)
              /\ IF sessions[n].of.ref = None THEN u = <<>> ELSE u = <<[op |-> "read", net |-> n]>>
<1>1. calls' = IF sessions[n].of.ref = None THEN calls
               ELSE Append(calls, [op |-> "read", net |-> n])
  BY DEF Connects
<1>2. CASE sessions[n].of.ref = None
  BY <1>1, <1>2, SameGoes
<1>3. CASE sessions[n].of.ref # None
  <2> DEFINE c == [op |-> "read", net |-> n]
  <2>1. c \in Commands
    BY MakesRead, Kinds
  <2>2. calls' = Append(calls, c) /\ calls \in Seq(Commands)
    BY <1>1, <1>3 DEF TypeSeq
  <2> HIDE DEF c
  <2>3. <<c>> \in Seq(Commands) /\ calls' = calls \o <<c>>
    BY <2>1, <2>2
  <2>4. Goes({}, <<c>>)
    BY <2>3, MoreGoes
  <2> QED BY <1>3, <2>3, <2>4 DEF c
<1> QED BY <1>2, <1>3

LEMMA ConnectsType ==
    ASSUME TypeSeq, NEW n \in Networks, Connects(n)
    PROVE  TypeSeq'
<1>0. TypeShown /\ TypeKept /\ TypeGhosts
  BY TypeIs
<1>1. calls' \in Seq(Commands)
  BY ConnectsIs, GoesHas
<1>2. /\ sessions' = [sessions EXCEPT ![n].phase = "live", ![n].sent = None]
      /\ UNCHANGED <<profiles, identity, settings, savedSettings, memory, prompts, exported, acts>>
      /\ UNCHANGED <<file, keychain, typed, used, freed, asked, removed, lost, apart, doubtful>>
  BY DEF Connects, kept, ghosts
<1>3. sessions' \in [Networks -> Session]
  BY <1>2, SessionEdits
<1>4. TypeShown' /\ TypeKept' /\ TypeGhosts'
  BY <1>0, <1>2, <1>3 DEF TypeShown, TypeKept, TypeGhosts
<1> QED BY <1>1, <1>4, TypeNext

LEMMA FailsType ==
    ASSUME TypeSeq, NEW n \in Networks, FailsVerification(n), sessions[n].of \in Profile
    PROVE  TypeSeq'
<1>0. TypeShown /\ TypeKept /\ TypeGhosts /\ calls \in Seq(Commands)
  BY TypeIs
<1>2. /\ sessions' = [sessions EXCEPT ![n].phase = "idle"]
      /\ prompts' = prompts \cup {[net |-> n, of |-> sessions[n].of]}
      /\ UNCHANGED <<profiles, identity, settings, savedSettings, memory, exported, calls, acts>>
      /\ UNCHANGED <<file, keychain, typed, used, freed, asked, removed, lost, apart, doubtful>>
  BY DEF FailsVerification, kept, ghosts
<1>3. sessions' \in [Networks -> Session]
  BY <1>2, SessionEdits
<1>4. TypeShown' /\ TypeKept' /\ TypeGhosts'
  BY <1>0, <1>2, <1>3 DEF TypeShown, TypeKept, TypeGhosts
<1> QED BY <1>0, <1>2, <1>4, TypeNext

LEMMA DropsType ==
    ASSUME TypeSeq, NEW n \in Networks, Drops(n)
    PROVE  TypeSeq'
<1>0. TypeShown /\ TypeKept /\ TypeGhosts
  BY TypeIs
<1>1. calls' \in Seq(Commands)
  BY LeftType DEF Drops
<1>2. /\ sessions' = [sessions EXCEPT ![n].phase = "dialling"]
      /\ UNCHANGED <<profiles, identity, settings, savedSettings, memory, prompts, exported, acts>>
      /\ UNCHANGED <<file, keychain, typed, used, freed, asked, removed, lost, apart, doubtful>>
  BY DEF Drops, kept, ghosts
<1>3. sessions' \in [Networks -> Session]
  BY <1>2, SessionEdits
<1>4. TypeShown' /\ TypeKept' /\ TypeGhosts'
  BY <1>0, <1>2, <1>3 DEF TypeShown, TypeKept, TypeGhosts
<1> QED BY <1>1, <1>4, TypeNext

\* prefs_read: the sessions that change wait for no password any more.
LEMMA ReadsIs ==
    ASSUME TypeSeq, Reads
    PROVE  \E found \in Contents : \E gone : \E w :
              /\ identity' = found.identity /\ settings' = found.settings
              /\ savedSettings' = found.settings
              /\ profiles' = [n \in Networks |-> IF found.nets[n].there THEN found.nets[n] ELSE profiles[n]]
              /\ sessions' = [n \in Networks |->
                    IF found.nets[n].there THEN [of |-> found.nets[n], phase |-> "idle", sent |-> None]
                    ELSE sessions[n]]
              /\ \/ found = file /\ UNCHANGED <<apart, lost>>
                 \/ apart' = {"file"} /\ lost' = lost \cup {n \in Networks : file.nets[n].there}
              /\ gone \subseteq Networks /\ \A n \in Networks \ gone : sessions'[n] = sessions[n]
              /\ w \in Seq(Commands) /\ Thinned(w, calls, ReadCalls(gone)) /\ calls' = Tail(w)
              /\ calls # <<>> /\ Head(calls).op = "load"
              /\ freed' = freed \ RefsIn(profiles', Networks)
              /\ UNCHANGED <<memory, prompts, exported, file, keychain, typed, used, asked, removed,
                             doubtful, acts>>
<1>1. PICK found \in {file, Blank} :
         /\ Finish(found)
         /\ \/ found = file /\ UNCHANGED <<apart, lost>>
            \/ apart' = {"file"} /\ lost' = lost \cup {n \in Networks : file.nets[n].there}
  BY DEF Reads
<1>2. found \in Contents
  BY <1>1 DEF TypeSeq, TypeOK, Blank, Contents
<1> DEFINE gone == {n \in Networks : sessions'[n] # sessions[n]}
           w == Without(gone)
<1>3. w \in Seq(Commands) /\ Thinned(w, calls, ReadCalls(gone))
  BY WithoutIs
<1>4. gone \subseteq Networks /\ \A n \in Networks \ gone : sessions'[n] = sessions[n]
  OBVIOUS
<1>5. /\ calls # <<>> /\ Head(calls).op = "load" /\ calls' = Tail(w)
      /\ freed' = freed \ RefsIn(profiles', Networks)
      /\ UNCHANGED <<memory, prompts, exported, file, keychain, typed, used, asked, removed,
                     doubtful, acts>>
  BY DEF Reads, kept
<1>6. sessions' = [n \in Networks |->
                    IF found.nets[n].there THEN [of |-> found.nets[n], phase |-> "idle", sent |-> None]
                    ELSE sessions[n]]
  <2>1. ASSUME NEW p
        PROVE  [NoSession EXCEPT !.of = p, !.phase = "idle"] = [of |-> p, phase |-> "idle", sent |-> None]
    <3> DEFINE a == [NoSession EXCEPT !.of = p]
    <3>1. a = [of |-> p, phase |-> None, sent |-> None]
      BY DEF NoSession
    <3> HIDE DEF a
    <3>2. [a EXCEPT !.phase = "idle"] = [of |-> p, phase |-> "idle", sent |-> None]
      BY <3>1
    <3> QED BY <3>2 DEF a
  <2> QED BY <1>1, <2>1 DEF Finish
<1>7. /\ identity' = found.identity /\ settings' = found.settings
      /\ savedSettings' = found.settings
      /\ profiles' = [n \in Networks |-> IF found.nets[n].there THEN found.nets[n] ELSE profiles[n]]
  BY <1>1 DEF Finish
<1> HIDE DEF gone, w
<1> QED BY <1>1, <1>2, <1>3, <1>4, <1>5, <1>6, <1>7

LEMMA ThinnedLoad ==
    ASSUME NEW w \in Seq(Commands), TypeSeq, NEW gone, Thinned(w, calls, ReadCalls(gone)),
           calls # <<>>, Head(calls).op = "load"
    PROVE  w # <<>>
<1>1. Head(calls) = calls[1] /\ Len(calls) \in Nat /\ 1 \in 1..Len(calls) /\ calls[1] \in Commands
  BY DEF TypeSeq
<1>2. calls[1] \in LoadCalls
  BY <1>1 DEF LoadCalls
<1>3. Has(calls, LoadCalls) /\ \A c \in LoadCalls : c \notin ReadCalls(gone)
  BY <1>1, <1>2, Kinds DEF Has
<1>4. Has(w, LoadCalls)
  BY <1>3, ThinnedHas DEF TypeSeq
<1> QED BY <1>4, EmptyIs

LEMMA ReadsType ==
    ASSUME TypeSeq, Reads
    PROVE  TypeSeq'
<1>0. TypeShown /\ TypeKept /\ TypeGhosts
  BY TypeIs
<1>1. PICK found \in Contents : \E gone : \E w :
              /\ identity' = found.identity /\ settings' = found.settings
              /\ savedSettings' = found.settings
              /\ profiles' = [n \in Networks |-> IF found.nets[n].there THEN found.nets[n] ELSE profiles[n]]
              /\ sessions' = [n \in Networks |->
                    IF found.nets[n].there THEN [of |-> found.nets[n], phase |-> "idle", sent |-> None]
                    ELSE sessions[n]]
              /\ \/ found = file /\ UNCHANGED <<apart, lost>>
                 \/ apart' = {"file"} /\ lost' = lost \cup {n \in Networks : file.nets[n].there}
              /\ w \in Seq(Commands) /\ Thinned(w, calls, ReadCalls(gone)) /\ calls' = Tail(w)
              /\ calls # <<>> /\ Head(calls).op = "load"
              /\ freed' = freed \ RefsIn(profiles', Networks)
              /\ UNCHANGED <<memory, prompts, exported, file, keychain, typed, used, asked, removed,
                             doubtful, acts>>
  BY ReadsIs
<1>2. found.nets \in Nets /\ found.identity \in {None, "named"} /\ found.settings \in 0..1
  BY ContentsIs
<1>3. calls' \in Seq(Commands)
  <2>1. PICK gone, w :
           /\ w \in Seq(Commands) /\ Thinned(w, calls, ReadCalls(gone)) /\ calls' = Tail(w)
           /\ calls # <<>> /\ Head(calls).op = "load"
    BY <1>1
  <2>2. w # <<>>
    BY <2>1, ThinnedLoad
  <2> QED BY <2>1, <2>2
<1>4. sessions' \in [Networks -> Session]
  <2>1. ASSUME NEW n \in Networks PROVE [of |-> found.nets[n], phase |-> "idle", sent |-> None] \in Session
    <3>1. found.nets[n] \in Profile \cup {Absent}
      BY <1>2 DEF Nets
    <3> QED BY <3>1 DEF Session
  <2> QED BY <1>0, <1>1, <2>1 DEF TypeShown
<1>5. profiles' \in Nets
  BY <1>0, <1>1, <1>2 DEF TypeShown, Nets
<1>6. TypeShown'
  BY <1>0, <1>1, <1>2, <1>4, <1>5 DEF TypeShown
<1>7. TypeKept'
  BY <1>0, <1>1 DEF TypeKept
<1>8. TypeGhosts'
  BY <1>0, <1>1 DEF TypeGhosts
<1> QED BY <1>3, <1>6, <1>7, <1>8, TypeNext

LEMMA CallIs ==
    ASSUME TypeSeq, NEW op, Call(op)
    PROVE  /\ calls # <<>> /\ calls \in Seq(Commands) /\ calls' = Tail(calls)
           /\ Head(calls).op = op /\ Head(calls) \in Commands /\ calls' \in Seq(Commands)
BY DEF TypeSeq, Call

LEMMA WritesType ==
    ASSUME TypeSeq, Writes
    PROVE  TypeSeq'
<1>0. TypeShown /\ TypeKept /\ TypeGhosts
  BY TypeIs
<1>1. /\ calls' \in Seq(Commands) /\ Head(calls).what \in Contents
  BY CallIs, CommandIs DEF Writes
<1>2. /\ \/ file' = Head(calls).what /\ UNCHANGED apart
         \/ apart' = {"file"} /\ UNCHANGED file
      /\ UNCHANGED <<profiles, sessions, identity, settings, savedSettings, memory, prompts, exported>>
      /\ UNCHANGED <<keychain, typed, used, freed, asked, removed, lost, doubtful, acts>>
  BY DEF Writes, shown
<1>3. TypeShown' /\ TypeKept' /\ TypeGhosts'
  BY <1>0, <1>1, <1>2 DEF TypeShown, TypeKept, TypeGhosts
<1> QED BY <1>1, <1>3, TypeNext

LEMMA SetsType ==
    ASSUME TypeSeq, Sets \/ Forgets
    PROVE  TypeSeq'
<1>0. TypeShown /\ TypeKept /\ TypeGhosts
  BY TypeIs
<1>1. calls' \in Seq(Commands) /\ Head(calls).ref \in Refs
      /\ (Sets => Head(calls).value \in Passwords)
  BY CallIs, CommandIs DEF Sets, Forgets
<1>2. /\ \/ keychain' \in {[keychain EXCEPT ![Head(calls).ref] = Head(calls).value]} /\ UNCHANGED doubtful /\ Sets
         \/ keychain' = [keychain EXCEPT ![Head(calls).ref] = None] /\ UNCHANGED doubtful
         \/ doubtful' = doubtful \cup {Head(calls).ref} /\ UNCHANGED keychain
      /\ UNCHANGED <<profiles, sessions, identity, settings, savedSettings, memory, prompts, exported>>
      /\ UNCHANGED <<file, typed, used, freed, asked, removed, lost, apart, acts>>
  BY DEF Sets, Forgets, shown
<1>3. TypeShown' /\ TypeKept' /\ TypeGhosts'
  BY <1>0, <1>1, <1>2 DEF TypeShown, TypeKept, TypeGhosts
<1> QED BY <1>1, <1>3, TypeNext

----------------------------------------------------------------------------
(* Each network's session.                                                 *)

SessAt(n) ==
    /\ There(n) <=> sessions[n].phase # None
    /\ There(n) => [sessions[n].of EXCEPT !.joins = profiles[n].joins] = profiles[n]
    /\ ~There(n) => sessions[n].of = Absent
    /\ sessions[n].phase \in {"dialling", "live"} => n \in asked

Sess == \A n \in Networks : SessAt(n)

LEMMA SessIs ==
    ASSUME TypeSeq, Sess, NEW n \in Networks
    PROVE  /\ sessions[n] \in Session /\ sessions[n].of.ref = profiles[n].ref
           /\ There(n) => sessions[n].of \in Profile /\ sessions[n].of.there
<1>1. sessions[n] \in Session /\ sessions[n].of \in Profile \cup {Absent}
      /\ profiles[n] \in Profile \cup {Absent}
  BY TypeIs DEF TypeShown, Session, Nets
<1>2. SessAt(n)
  BY DEF Sess
<1>3. CASE ~There(n)
  BY <1>1, <1>2, <1>3, ProfileIs, AbsentIs DEF There, SessAt
<1>4. CASE There(n)
  <2> DEFINE o == sessions[n].of  p == profiles[n]
  <2>1. [o EXCEPT !.joins = p.joins] = p /\ p \in Profile
    BY <1>2, <1>4, ProfilesType DEF SessAt
  <2>2. o \in Profile \cup {Absent}
    BY <1>1
  <2> HIDE DEF o, p
  <2>3. o.there = p.there /\ o.ref = p.ref
    <3>1. o = [ref |-> o.ref, trusts |-> o.trusts, joins |-> o.joins, there |-> o.there]
      BY <2>2, ProfileIs
    <3>2. [o EXCEPT !.joins = p.joins]
             = [ref |-> o.ref, trusts |-> o.trusts, joins |-> p.joins, there |-> o.there]
      BY <3>1
    <3>3. p = [ref |-> o.ref, trusts |-> o.trusts, joins |-> p.joins, there |-> o.there]
      BY <2>1, <3>2
    <3> QED BY <3>3
  <2>4. o \in Profile /\ o.there
    BY <2>1, <2>2, <2>3, AbsentIs
  <2> QED BY <1>1, <2>3, <2>4 DEF o, p
<1> QED BY <1>3, <1>4

LEMMA SessSame ==
    ASSUME NEW n \in Networks, SessAt(n), profiles'[n] = profiles[n],
           sessions'[n].of = sessions[n].of, sessions'[n].phase = sessions[n].phase,
           n \in asked => n \in asked'
    PROVE  SessAt(n)'
BY DEF SessAt, There

LEMMA SessNew ==
    ASSUME NEW n \in Networks, NEW p \in Profile, NEW phase \in {"idle", "dialling"}, NEW sent,
           profiles'[n] = p, sessions'[n] = [of |-> p, phase |-> phase, sent |-> sent],
           phase = "dialling" => n \in asked'
    PROVE  SessAt(n)'
<1>1. p.there /\ [p EXCEPT !.joins = p.joins] = p
  BY DEF Profile
<1>2. phase # None
  BY DEF None
<1> QED BY <1>1, <1>2 DEF SessAt, There

LEMMA SessGone ==
    ASSUME NEW n \in Networks, profiles'[n] = Absent, sessions'[n] = NoSession
    PROVE  SessAt(n)'
<1>1. sessions'[n].phase = None /\ sessions'[n].of = Absent
  BY DEF NoSession
<1>2. None \notin {"dialling", "live"}
  BY DEF None
<1> QED BY <1>1, <1>2, AbsentIs DEF SessAt, There

LEMMA PutsSess ==
    ASSUME TypeSeq, Sess, NEW n \in Networks, NEW p \in Profile, NEW s, Puts(n, p, s)
    PROVE  Sess'
<1>1. PICK phase \in {"idle", "dialling"} :
         /\ sessions' = [sessions EXCEPT ![n] = [of |-> p, phase |-> phase, sent |-> None]]
         /\ phase = "dialling" => n \in asked' \/ (There(n) /\ sessions[n].phase # "idle")
  BY DEF Puts
<1>2. profiles' = [profiles EXCEPT ![n] = p] /\ asked \subseteq asked'
  BY DEF Puts
<1>3. profiles \in Nets /\ sessions \in [Networks -> Session]
  BY TypeIs DEF TypeShown
<1>4. phase = "dialling" => n \in asked'
  <2>1. There(n) /\ sessions[n].phase # "idle" => n \in asked
    BY <1>3 DEF Sess, SessAt, Session
  <2> QED BY <1>1, <1>2, <2>1
<1>5. SessAt(n)'
  <2>1. profiles'[n] = p /\ sessions'[n] = [of |-> p, phase |-> phase, sent |-> None]
    BY <1>1, <1>2, <1>3 DEF Nets
  <2> QED BY <1>4, <2>1, SessNew
<1>6. ASSUME NEW m \in Networks, m # n PROVE SessAt(m)'
  <2>1. profiles'[m] = profiles[m] /\ sessions'[m] = sessions[m]
    BY <1>1, <1>2, <1>3, <1>6 DEF Nets
  <2>2. SessAt(m) /\ (m \in asked => m \in asked')
    BY <1>2 DEF Sess
  <2> QED BY <2>1, <2>2, SessSame
<1> QED BY <1>5, <1>6 DEF Sess

LEMMA RemovesSess ==
    ASSUME TypeSeq, Sess, NEW n \in Networks, RemovesNetwork(n)
    PROVE  Sess'
<1>1. /\ profiles' = [profiles EXCEPT ![n] = Absent] /\ sessions' = [sessions EXCEPT ![n] = NoSession]
      /\ asked' = asked \ {n}
  BY DEF RemovesNetwork
<1>2. profiles \in Nets /\ sessions \in [Networks -> Session]
  BY TypeIs DEF TypeShown
<1>3. SessAt(n)'
  <2>1. profiles'[n] = Absent /\ sessions'[n] = NoSession
    BY <1>1, <1>2 DEF Nets
  <2> QED BY <2>1, SessGone
<1>4. ASSUME NEW m \in Networks, m # n PROVE SessAt(m)'
  <2>1. profiles'[m] = profiles[m] /\ sessions'[m] = sessions[m]
    BY <1>1, <1>2, <1>4 DEF Nets
  <2>2. SessAt(m) /\ (m \in asked => m \in asked')
    BY <1>1, <1>4 DEF Sess
  <2> QED BY <2>1, <2>2, SessSame
<1> QED BY <1>3, <1>4 DEF Sess

LEMMA TogglesSess ==
    ASSUME TypeSeq, Sess, NEW n \in Networks, TogglesAutojoin(n)
    PROVE  Sess'
<1>1. sessions' = sessions /\ asked' = asked
  BY DEF TogglesAutojoin
<1>2. /\ There(n) /\ \A m \in Networks : There(m)' <=> There(m)
      /\ [profiles[n] EXCEPT !.joins = ~profiles[n].joins] = profiles'[n]
      /\ \A m \in Networks \ {n} : profiles'[m] = profiles[m]
  BY TogglesIs
<1>3. SessAt(n)'
  <2> DEFINE o == sessions[n].of  p == profiles[n]  k == profiles'[n]
  <2>1. [o EXCEPT !.joins = p.joins] = p /\ p \in Profile
    BY <1>2, ProfilesType DEF Sess, SessAt
  <2>2. o \in Profile
    BY <1>2, SessIs
  <2>3. k = [p EXCEPT !.joins = ~p.joins]
    BY <1>2
  <2>4. [o EXCEPT !.joins = k.joins] = k
    <3> HIDE DEF o, p, k
    <3>1. o = [ref |-> o.ref, trusts |-> o.trusts, joins |-> o.joins, there |-> o.there]
          /\ p = [ref |-> p.ref, trusts |-> p.trusts, joins |-> p.joins, there |-> p.there]
      BY <2>1, <2>2, ProfileIs
    <3>2. p = [ref |-> o.ref, trusts |-> o.trusts, joins |-> p.joins, there |-> o.there]
      BY <2>1, <3>1
    <3>3. k = [ref |-> o.ref, trusts |-> o.trusts, joins |-> ~p.joins, there |-> o.there]
      BY <2>3, <3>2
    <3>4. [o EXCEPT !.joins = k.joins]
            = [ref |-> o.ref, trusts |-> o.trusts, joins |-> k.joins, there |-> o.there]
      BY <3>1
    <3> QED BY <3>3, <3>4
  <2> HIDE DEF o, p, k
  <2>5. There(n)' /\ sessions[n].phase # None
    BY <1>2 DEF Sess, SessAt
  <2>6. sessions'[n].of = o /\ profiles'[n] = k /\ sessions'[n].phase = sessions[n].phase
        /\ (sessions[n].phase \in {"dialling", "live"} => n \in asked)
    BY <1>1 DEF o, k, Sess, SessAt
  <2> QED BY <1>1, <2>4, <2>5, <2>6 DEF SessAt
<1>4. ASSUME NEW m \in Networks, m # n PROVE SessAt(m)'
  <2>1. profiles'[m] = profiles[m] /\ SessAt(m)
    BY <1>2, <1>4 DEF Sess
  <2> QED BY <1>1, <2>1, SessSame
<1> QED BY <1>3, <1>4 DEF Sess

LEMMA SameSess ==
    ASSUME Sess, profiles' = profiles, sessions' = sessions, asked' = asked
    PROVE  Sess'
BY DEF Sess, SessAt, There

LEMMA ReconnectsSess ==
    ASSUME TypeSeq, Sess, NEW n \in Networks, Reconnects(n)
    PROVE  Sess'
<1>1. /\ There(n) /\ asked' = asked \cup {n} /\ profiles' = profiles
      /\ sessions' = [sessions EXCEPT ![n] = [of |-> profiles[n], phase |-> "dialling", sent |-> None]]
  BY ReconnectsType DEF Reconnects, Registers
<1>2. profiles \in Nets /\ sessions \in [Networks -> Session] /\ profiles[n] \in Profile
  BY <1>1, TypeIs, ProfilesType DEF TypeShown
<1>3. SessAt(n)'
  <2>1. profiles'[n] = profiles[n] /\ sessions'[n] = [of |-> profiles[n], phase |-> "dialling", sent |-> None]
    BY <1>1, <1>2
  <2> QED BY <1>1, <1>2, <2>1, SessNew
<1>4. ASSUME NEW m \in Networks, m # n PROVE SessAt(m)'
  <2>1. profiles'[m] = profiles[m] /\ sessions'[m] = sessions[m]
    BY <1>1, <1>2, <1>4
  <2>2. SessAt(m) /\ (m \in asked => m \in asked')
    BY <1>1 DEF Sess
  <2> QED BY <2>1, <2>2, SessSame
<1> QED BY <1>3, <1>4 DEF Sess

\* One session's phase, password or both.
LEMMA EditsSess ==
    ASSUME TypeSeq, Sess, NEW n \in Networks, profiles' = profiles,
           sessions' \in [Networks -> Session],
           \A m \in Networks \ {n} : sessions'[m] = sessions[m],
           sessions'[n].of = sessions[n].of,
           \/ sessions'[n].phase = sessions[n].phase
           \/ sessions[n].phase # None /\ sessions'[n].phase # None,
           \A m \in Networks \ {n} : m \in asked => m \in asked',
           sessions'[n].phase \in {"dialling", "live"} => n \in asked'
    PROVE  Sess'
<1>1. SessAt(n)'
  BY DEF Sess, SessAt, There
<1>2. ASSUME NEW m \in Networks, m # n PROVE SessAt(m)'
  <2>1. SessAt(m) /\ sessions'[m] = sessions[m] /\ (m \in asked => m \in asked')
    BY <1>2 DEF Sess
  <2> QED BY <2>1, SessSame
<1> QED BY <1>1, <1>2 DEF Sess

LEMMA EditIs ==
    ASSUME TypeSeq, NEW n \in Networks
    PROVE  /\ \A phase : LET f == [sessions EXCEPT ![n].phase = phase]
                         IN  /\ \A m \in Networks \ {n} : f[m] = sessions[m]
                             /\ f[n].of = sessions[n].of /\ f[n].phase = phase
                             /\ f[n].sent = sessions[n].sent
           /\ \A sent : LET f == [sessions EXCEPT ![n].sent = sent]
                        IN  /\ \A m \in Networks \ {n} : f[m] = sessions[m]
                            /\ f[n].of = sessions[n].of /\ f[n].phase = sessions[n].phase
                            /\ f[n].sent = sent
           /\ \A phase, sent : LET f == [sessions EXCEPT ![n].phase = phase, ![n].sent = sent]
                               IN  /\ \A m \in Networks \ {n} : f[m] = sessions[m]
                                   /\ f[n].of = sessions[n].of /\ f[n].phase = phase
                                   /\ f[n].sent = sent
<1>1. sessions \in [Networks -> Session]
  BY TypeIs DEF TypeShown
<1> QED BY <1>1 DEF Session

LEMMA DisconnectsSess ==
    ASSUME TypeSeq, Sess, NEW n \in Networks, Disconnects(n)
    PROVE  Sess'
<1>1. /\ sessions' = [sessions EXCEPT ![n].phase = "idle"] /\ asked' = asked \ {n}
      /\ profiles' = profiles /\ sessions[n].phase \in {"dialling", "live"}
  BY DEF Disconnects
<1>2. sessions' \in [Networks -> Session] /\ None \notin {"idle", "dialling", "live"}
  BY <1>1, SessionEdits DEF None
<1>3. /\ \A m \in Networks \ {n} : sessions'[m] = sessions[m]
      /\ sessions'[n].of = sessions[n].of /\ sessions'[n].phase = "idle"
  BY <1>1, EditIs
<1> QED BY <1>1, <1>2, <1>3, EditsSess

LEMMA ConnectsSess ==
    ASSUME TypeSeq, Sess, NEW n \in Networks, Connects(n)
    PROVE  Sess'
<1>1. /\ sessions' = [sessions EXCEPT ![n].phase = "live", ![n].sent = None] /\ asked' = asked
      /\ profiles' = profiles /\ sessions[n].phase = "dialling"
  BY DEF Connects, ghosts
<1>2. sessions' \in [Networks -> Session] /\ None \notin {"idle", "dialling", "live"}
  BY <1>1, SessionEdits DEF None
<1>3. /\ \A m \in Networks \ {n} : sessions'[m] = sessions[m]
      /\ sessions'[n].of = sessions[n].of /\ sessions'[n].phase = "live"
  BY <1>1, EditIs
<1>4. n \in asked
  BY <1>1 DEF Sess, SessAt
<1> QED BY <1>1, <1>2, <1>3, <1>4, EditsSess

LEMMA FailsSess ==
    ASSUME TypeSeq, Sess, NEW n \in Networks, FailsVerification(n)
    PROVE  Sess' /\ sessions[n].of \in Profile /\ There(n)
<1>1. /\ sessions' = [sessions EXCEPT ![n].phase = "idle"] /\ asked' = asked
      /\ profiles' = profiles /\ sessions[n].phase = "dialling"
  BY DEF FailsVerification, ghosts
<1>2. sessions' \in [Networks -> Session] /\ None \notin {"idle", "dialling", "live"}
  BY <1>1, SessionEdits DEF None
<1>3. /\ \A m \in Networks \ {n} : sessions'[m] = sessions[m]
      /\ sessions'[n].of = sessions[n].of /\ sessions'[n].phase = "idle"
  BY <1>1, EditIs
<1>4. There(n)
  BY <1>1, <1>2 DEF Sess, SessAt
<1> QED BY <1>1, <1>2, <1>3, <1>4, SessIs, EditsSess

LEMMA DropsSess ==
    ASSUME TypeSeq, Sess, NEW n \in Networks, Drops(n)
    PROVE  Sess'
<1>1. /\ sessions' = [sessions EXCEPT ![n].phase = "dialling"] /\ asked' = asked
      /\ profiles' = profiles /\ sessions[n].phase = "live"
  BY DEF Drops, ghosts
<1>2. sessions' \in [Networks -> Session] /\ None \notin {"idle", "dialling", "live"}
  BY <1>1, SessionEdits DEF None
<1>3. /\ \A m \in Networks \ {n} : sessions'[m] = sessions[m]
      /\ sessions'[n].of = sessions[n].of /\ sessions'[n].phase = "dialling"
  BY <1>1, EditIs
<1>4. n \in asked
  BY <1>1 DEF Sess, SessAt
<1> QED BY <1>1, <1>2, <1>3, <1>4, EditsSess

LEMMA AcceptsSess ==
    ASSUME TypeSeq, Sess, Accepts
    PROVE  Sess'
<1>1. PICK prompt \in prompts : \E p \in Profile :
              /\ prompt.net \in Networks
              /\ profiles' = [profiles EXCEPT ![prompt.net] = p]
              /\ sessions' = [sessions EXCEPT ![prompt.net] = [of |-> p, phase |-> "dialling", sent |-> None]]
              /\ asked' = asked \cup {prompt.net}
  BY AcceptsIs
<1>2. PICK p \in Profile :
              /\ profiles' = [profiles EXCEPT ![prompt.net] = p]
              /\ sessions' = [sessions EXCEPT ![prompt.net] = [of |-> p, phase |-> "dialling", sent |-> None]]
  BY <1>1
<1>3. profiles \in Nets /\ sessions \in [Networks -> Session]
  BY TypeIs DEF TypeShown
<1> DEFINE n == prompt.net
<1>4. SessAt(n)'
  <2>1. profiles'[n] = p /\ sessions'[n] = [of |-> p, phase |-> "dialling", sent |-> None]
    BY <1>1, <1>2, <1>3 DEF Nets
  <2>2. n \in Networks /\ n \in asked'
    BY <1>1
  <2> QED BY <2>1, <2>2, SessNew
<1>5. ASSUME NEW m \in Networks, m # n PROVE SessAt(m)'
  <2>1. profiles'[m] = profiles[m] /\ sessions'[m] = sessions[m]
    BY <1>2, <1>3, <1>5 DEF Nets
  <2>2. SessAt(m) /\ (m \in asked => m \in asked')
    BY <1>1 DEF Sess
  <2> QED BY <2>1, <2>2, SessSame
<1> QED BY <1>4, <1>5 DEF Sess

LEMMA ImportsSess ==
    ASSUME TypeSeq, ImportsConfig
    PROVE  Sess'
<1>1. PICK from \in exported :
              /\ from \in Contents /\ profiles' = from.nets
              /\ sessions' = [n \in Networks |->
                    IF from.nets[n].there THEN [of |-> from.nets[n], phase |-> "idle", sent |-> None]
                    ELSE NoSession]
  BY ImportsIs
<1>2. ASSUME NEW n \in Networks PROVE SessAt(n)'
  <2>1. from.nets[n] \in Profile \cup {Absent}
    BY <1>1, ContentsIs DEF Nets
  <2>2. CASE from.nets[n].there
    <3>1. from.nets[n] \in Profile /\ profiles'[n] = from.nets[n]
          /\ sessions'[n] = [of |-> from.nets[n], phase |-> "idle", sent |-> None]
      BY <1>1, <2>1, <2>2, ProfileIs
    <3> DEFINE phase == "idle"
    <3>2. phase \in {"idle", "dialling"} /\ phase # "dialling"
      OBVIOUS
    <3>3. sessions'[n] = [of |-> from.nets[n], phase |-> phase, sent |-> None]
      BY <3>1
    <3> HIDE DEF phase
    <3> QED BY <3>1, <3>2, <3>3, SessNew
  <2>3. CASE ~from.nets[n].there
    <3>1. profiles'[n] = Absent /\ sessions'[n] = NoSession
      BY <1>1, <2>1, <2>3, ProfileIs
    <3> QED BY <3>1, SessGone
  <2> QED BY <2>2, <2>3
<1> QED BY <1>2 DEF Sess

LEMMA QuitsSess ==
    ASSUME \/ Init /\ profiles' = profiles /\ sessions' = sessions
           \/ Quits
    PROVE  Sess'
<1>1. \A n \in Networks : profiles'[n] = Absent /\ sessions'[n] = NoSession
  BY DEF Init, Quits
<1> QED BY <1>1, SessGone DEF Sess

LEMMA ReadsSess ==
    ASSUME TypeSeq, Sess, Reads
    PROVE  Sess'
<1>1. PICK found \in Contents :
              /\ profiles' = [n \in Networks |-> IF found.nets[n].there THEN found.nets[n] ELSE profiles[n]]
              /\ sessions' = [n \in Networks |->
                    IF found.nets[n].there THEN [of |-> found.nets[n], phase |-> "idle", sent |-> None]
                    ELSE sessions[n]]
              /\ asked' = asked
  BY ReadsIs
<1>2. ASSUME NEW n \in Networks PROVE SessAt(n)'
  <2>1. found.nets[n] \in Profile \cup {Absent}
    BY <1>1, ContentsIs DEF Nets
  <2>2. CASE found.nets[n].there
    <3> DEFINE phase == "idle"
    <3>1. found.nets[n] \in Profile /\ profiles'[n] = found.nets[n]
          /\ sessions'[n] = [of |-> found.nets[n], phase |-> phase, sent |-> None]
      BY <1>1, <2>1, <2>2, ProfileIs
    <3>2. phase \in {"idle", "dialling"} /\ phase # "dialling"
      OBVIOUS
    <3> HIDE DEF phase
    <3> QED BY <3>1, <3>2, SessNew
  <2>3. CASE ~found.nets[n].there
    <3>1. profiles'[n] = profiles[n] /\ sessions'[n] = sessions[n] /\ SessAt(n)
      BY <1>1, <2>3 DEF Sess
    <3> QED BY <1>1, <3>1, SessSame
  <2> QED BY <2>2, <2>3
<1> QED BY <1>2 DEF Sess

----------------------------------------------------------------------------
(* Whose a reference is: of one network, wherever it is kept.              *)

Fit(own, nets, S) == \A n \in Networks : nets[n].ref # None => nets[n].ref \in S /\ own[nets[n].ref] = n

Owner == [Refs -> Networks \cup {None}]

\* Writes of documents in which one is another's.
Misfits(own, S) == {c \in WriteCalls : ~Fit(own, c.what.nets, S)}

OwnedBy(own) ==
    /\ Fit(own, profiles, used) /\ Fit(own, file.nets, used)
    /\ \A doc \in exported : Fit(own, doc.nets, used)
    /\ \A p \in prompts : p.of.ref # None => p.of.ref \in used /\ own[p.of.ref] = p.net
    /\ ~Has(calls, Misfits(own, used))

Owned == \E own \in Owner : OwnedBy(own)

LEMMA OnesOwn ==
    ASSUME Owned, NEW n \in Networks, NEW m \in Networks, profiles[n].ref # None,
           profiles[n].ref = profiles[m].ref
    PROVE  n = m
BY DEF Owned, OwnedBy, Fit

\* Ownership with one reference more.
Grows(own, next, S, r, n) ==
    /\ \A nets : Fit(own, nets, S) => Fit(next, nets, S \cup {r})
    /\ \A s \in S : next[s] = own[s]
    /\ next[r] = n

\* Nothing there was is another's because of a reference there was not.
LEMMA FitMore ==
    ASSUME NEW own \in Owner, NEW S, S \subseteq Refs, NEW r \in Refs, NEW n \in Networks,
           r \notin S \/ own[r] = n
    PROVE  \E next \in Owner : Grows(own, next, S, r, n)
<1> DEFINE next == [own EXCEPT ![r] = n]
<1>1. next \in Owner /\ next[r] = n /\ \A s \in Refs \ {r} : next[s] = own[s]
  BY DEF Owner
<1>2. \A s \in S : next[s] = own[s]
  BY <1>1
<1> HIDE DEF next
<1>3. \A nets : Fit(own, nets, S) => Fit(next, nets, S \cup {r})
  BY <1>2 DEF Fit
<1> QED BY <1>1, <1>2, <1>3 DEF Grows

LEMMA PutsOwned ==
    ASSUME TypeSeq, Owned, NEW n \in Networks, NEW p \in Profile, NEW s, NEW doc,
           Puts(n, p, s), Persisting({n}, s, doc, <<>>)
    PROVE  Owned'
<1>1. PICK own \in Owner : OwnedBy(own)
  BY DEF Owned
<1>2. /\ profiles' = [profiles EXCEPT ![n] = p] /\ profiles \in Nets
      /\ UNCHANGED <<prompts, exported, file>> /\ p.ref \in Refs \cup {None}
      /\ used \subseteq Refs
  BY TypeIs DEF Puts, kept, TypeShown, TypeGhosts, Profile
<1>3. \A S : \A fit \in Owner : Fit(fit, profiles', S) => ~Has(Written(s, doc, <<>>), Misfits(fit, S))
  <2>1. \A fit, S : [op |-> "write", what |-> doc] \in Misfits(fit, S) <=> ~Fit(fit, doc.nets, S)
    <3> DEFINE c == [op |-> "write", what |-> doc]
    <3>1. c \in WriteCalls /\ c.what = doc
      BY MakesWrite DEF Persisting
    <3> HIDE DEF c
    <3>2. \A fit, S : c \in Misfits(fit, S) <=> ~Fit(fit, doc.nets, S)
      BY <3>1 DEF Misfits
    <3> QED BY <3>2 DEF c
  <2>2. \A fit, S : Misfits(fit, S) \subseteq WriteCalls
    BY DEF Misfits
  <2>3. doc.nets = profiles' /\ doc \in Contents /\ s \in Seq(Keys) /\ <<>> \in Seq(Keys)
    BY DEF Persisting
  <2> QED BY <2>1, <2>2, <2>3, WrittenIs
<1>4. ASSUME NEW next \in Owner, NEW S, S = used', Fit(next, profiles', S),
             \A nets : Fit(own, nets, used) => Fit(next, nets, S),
             \A t \in used : next[t] = own[t] /\ t \in S
      PROVE  Owned'
  <2>1. ~Has(calls, Misfits(next, S))
    <3>1. Misfits(next, S) \subseteq Misfits(own, used)
      BY <1>4 DEF Misfits
    <3> QED BY <1>1, <3>1 DEF OwnedBy, Has
  <2>2. ~Has(calls', Misfits(next, S))
    <3>1. ~Has(Written(s, doc, <<>>), Misfits(next, S)) /\ Goes({n}, Written(s, doc, <<>>))
      BY <1>3, <1>4 DEF Persisting
    <3>2. Written(s, doc, <<>>) \in Seq(Commands)
      BY WrittenIs DEF Persisting
    <3> QED BY <2>1, <3>1, <3>2, GoesHas
  <2>3. Fit(next, file'.nets, S) /\ \A from \in exported' : Fit(next, from.nets, S)
    BY <1>1, <1>2, <1>4 DEF OwnedBy
  <2>4. \A q \in prompts' : q.of.ref # None => q.of.ref \in S /\ next[q.of.ref] = q.net
    BY <1>1, <1>2, <1>4 DEF OwnedBy
  <2>5. OwnedBy(next)'
    BY <1>4, <2>2, <2>3, <2>4 DEF OwnedBy
  <2> QED BY <2>5 DEF Owned
<1>5. CASE used' = used /\ (p.ref = None \/ p.ref = profiles[n].ref)
  <2>1. Fit(own, profiles', used)
    BY <1>1, <1>2, <1>5 DEF OwnedBy, Fit, Nets
  <2> QED BY <1>4, <1>5, <2>1
<1>6. CASE /\ p.ref \in Refs /\ (p.ref \notin used \/ (There(n) /\ p.ref = profiles[n].ref))
           /\ used' = used \cup {p.ref}
  <2>1. p.ref \notin used \/ own[p.ref] = n
    <3>1. p.ref # None
      BY <1>6, NoneIs
    <3> QED BY <1>1, <1>6, <3>1 DEF OwnedBy, Fit
  <2>2. PICK next \in Owner : Grows(own, next, used, p.ref, n)
    <3> DEFINE r == p.ref
    <3>1. r \in Refs /\ (r \notin used \/ own[r] = n) /\ used \subseteq Refs
      BY <1>2, <1>6, <2>1
    <3> HIDE DEF r
    <3>2. \E next \in Owner : Grows(own, next, used, r, n)
      BY <3>1, FitMore
    <3> QED BY <3>2 DEF r
  <2>3. Fit(next, profiles, used \cup {p.ref}) /\ next[p.ref] = n
    BY <1>1, <2>2 DEF OwnedBy, Grows
  <2>4. Fit(next, profiles', used \cup {p.ref})
    BY <1>2, <2>3 DEF Fit, Nets
  <2>5. used' = used \cup {p.ref} /\ \A t \in used : t \in used \cup {p.ref}
    BY <1>6
  <2>6. /\ \A nets : Fit(own, nets, used) => Fit(next, nets, used \cup {p.ref})
        /\ \A t \in used : next[t] = own[t]
    BY <2>2 DEF Grows
  <2> QED BY <1>4, <2>4, <2>5, <2>6
<1>7. \/ used' = used /\ (p.ref = None \/ p.ref = profiles[n].ref)
      \/ /\ p.ref \in Refs /\ (p.ref \notin used \/ (There(n) /\ p.ref = profiles[n].ref))
         /\ used' = used \cup {p.ref}
  BY DEF Puts
<1> QED BY <1>5, <1>6, <1>7

\* Everything else is of what there was: the documents under way and what is
\* put behind them.
LEMMA StaysOwned ==
    ASSUME TypeSeq, NEW own \in Owner, OwnedBy(own), used' = used,
           Fit(own, profiles', used), Fit(own, file'.nets, used),
           \A doc \in exported' : Fit(own, doc.nets, used),
           \A p \in prompts' : p.of.ref # None => p.of.ref \in used /\ own[p.of.ref] = p.net,
           ~Has(calls', Misfits(own, used))
    PROVE  Owned'
<1>1. OwnedBy(own)'
  BY DEF OwnedBy
<1> QED BY <1>1 DEF Owned

LEMMA PersistingOwned ==
    ASSUME TypeSeq, NEW own \in Owner, OwnedBy(own), NEW gone, NEW s, NEW doc, NEW t,
           Persisting(gone, s, doc, t), Fit(own, profiles', used)
    PROVE  ~Has(calls', Misfits(own, used))
<1> DEFINE c == [op |-> "write", what |-> doc]
<1>1. c \in WriteCalls /\ c.what = doc
  BY MakesWrite DEF Persisting
<1> HIDE DEF c
<1>2. c \notin Misfits(own, used) /\ Misfits(own, used) \subseteq WriteCalls
  BY <1>1 DEF Misfits, Persisting
<1>3. ~Has(Written(s, doc, t), Misfits(own, used)) /\ Written(s, doc, t) \in Seq(Commands)
  BY <1>2, WrittenIs DEF Persisting, c
<1>4. Goes(gone, Written(s, doc, t)) /\ ~Has(calls, Misfits(own, used))
  BY DEF Persisting, OwnedBy
<1> QED BY <1>3, <1>4, GoesHas

LEMMA GoesOwned ==
    ASSUME TypeSeq, NEW own \in Owner, OwnedBy(own), NEW gone, Goes(gone, <<>>)
    PROVE  ~Has(calls', Misfits(own, used))
<1>1. <<>> \in Seq(Commands) /\ ~Has(calls, Misfits(own, used))
  BY DEF OwnedBy
<1> QED BY <1>1, EmptyIs, GoesHas

\* No document is put behind those there are.
LEMMA QuietOwned ==
    ASSUME TypeSeq, Owned, UNCHANGED <<profiles, prompts, exported, file, used>>,
           \A C : C \subseteq WriteCalls /\ Has(calls', C) => Has(calls, C)
    PROVE  Owned'
<1>1. PICK own \in Owner : OwnedBy(own)
  BY DEF Owned
<1>2. Misfits(own, used) \subseteq WriteCalls
  BY DEF Misfits
<1>3. ~Has(calls', Misfits(own, used))
  BY <1>1, <1>2 DEF OwnedBy
<1> QED BY <1>1, <1>3, StaysOwned DEF OwnedBy

LEMMA LessOwned ==
    ASSUME TypeSeq, Owned, NEW gone, Goes(gone, <<>>),
           UNCHANGED <<profiles, prompts, exported, file, used>>
    PROVE  Owned'
<1>1. <<>> \in Seq(Commands)
  OBVIOUS
<1>2. \A C : Has(calls', C) => Has(calls, C)
  BY <1>1, EmptyIs, GoesHas
<1> QED BY <1>2, QuietOwned

LEMMA TailOwned ==
    ASSUME TypeSeq, Owned, calls # <<>>, calls' = Tail(calls),
           UNCHANGED <<profiles, prompts, exported, file, used>>
    PROVE  Owned'
<1>1. \A C : Has(calls', C) => Has(calls, C)
  BY TailHas DEF TypeSeq
<1> QED BY <1>1, QuietOwned

LEMMA ConnectsOwned ==
    ASSUME TypeSeq, Owned, NEW n \in Networks, Connects(n)
    PROVE  Owned'
<1>1. PICK u \in Seq(Commands) :
         /\ Goes({}, u)
         /\ IF sessions[n].of.ref = None THEN u = <<>> ELSE u = <<[op |-> "read", net |-> n]>>
  BY ConnectsIs
<1>2. \A C : C \subseteq WriteCalls => ~Has(u, C)
  <2>1. \A C : C \subseteq WriteCalls => [op |-> "read", net |-> n] \notin C
    BY MakesRead, Kinds
  <2> QED BY <1>1, <2>1, OneHas, EmptyIs
<1>3. \A C : C \subseteq WriteCalls /\ Has(calls', C) => Has(calls, C)
  BY <1>1, <1>2, GoesHas
<1>4. UNCHANGED <<profiles, prompts, exported, file, used>>
  BY DEF Connects, kept, ghosts
<1> QED BY <1>3, <1>4, QuietOwned

LEMMA RemovesOwned ==
    ASSUME TypeSeq, Owned, NEW n \in Networks, RemovesNetwork(n)
    PROVE  Owned'
<1>1. PICK own \in Owner : OwnedBy(own)
  BY DEF Owned
<1>2. /\ profiles' = [profiles EXCEPT ![n] = Absent] /\ profiles \in Nets
      /\ UNCHANGED <<prompts, exported, file, used>>
  BY ProfilesType DEF RemovesNetwork, kept
<1>3. Fit(own, profiles', used)
  BY <1>1, <1>2, AbsentIs DEF OwnedBy, Fit, Nets
<1>4. ~Has(calls', Misfits(own, used))
  BY <1>1, <1>3, RemovesIs, PersistingOwned
<1> QED BY <1>1, <1>2, <1>3, <1>4, StaysOwned DEF OwnedBy

LEMMA ImportsOwned ==
    ASSUME TypeSeq, Owned, ImportsConfig
    PROVE  Owned'
<1>1. PICK own \in Owner : OwnedBy(own)
  BY DEF Owned
<1>2. PICK from \in exported : profiles' = from.nets /\ \E s, doc : Persisting(Networks, s, doc, <<>>)
  BY ImportsIs
<1>3. UNCHANGED <<prompts, exported, file, used>>
  BY DEF ImportsConfig, kept
<1>4. Fit(own, profiles', used)
  BY <1>1, <1>2 DEF OwnedBy
<1>5. ~Has(calls', Misfits(own, used))
  BY <1>1, <1>2, <1>4, PersistingOwned
<1> QED BY <1>1, <1>3, <1>4, <1>5, StaysOwned DEF OwnedBy

LEMMA SavesOwned ==
    ASSUME TypeSeq, Owned,
           \/ \E n \in Networks : TogglesAutojoin(n)
           \/ SavesIdentity
           \/ SavesSettings
    PROVE  Owned'
<1>1. PICK own \in Owner : OwnedBy(own)
  BY DEF Owned
<1>2. UNCHANGED <<prompts, exported, file, used>> /\ \A m \in Networks : profiles'[m].ref = profiles[m].ref
  BY TogglesIs DEF TogglesAutojoin, SavesIdentity, SavesSettings, kept
<1>3. \E doc : Persisting({}, <<>>, doc, <<>>)
  BY TogglesIs, IdentityIs, SettingsIs
<1>4. Fit(own, profiles', used)
  BY <1>1, <1>2 DEF OwnedBy, Fit
<1>5. ~Has(calls', Misfits(own, used))
  BY <1>1, <1>3, <1>4, PersistingOwned
<1> QED BY <1>1, <1>2, <1>4, <1>5, StaysOwned DEF OwnedBy

LEMMA AcceptsOwned ==
    ASSUME TypeSeq, Owned, Accepts
    PROVE  Owned'
<1>1. PICK own \in Owner : OwnedBy(own)
  BY DEF Owned
<1>2. PICK prompt \in prompts : \E p \in Profile :
              /\ prompt.net \in Networks /\ p.ref = prompt.of.ref
              /\ profiles' = [profiles EXCEPT ![prompt.net] = p]
              /\ prompts' = {} /\ calls' = Without({prompt.net})
              /\ UNCHANGED <<exported, file, used>>
  BY AcceptsIs
<1>3. Fit(own, profiles', used)
  <2>1. PICK p \in Profile : p.ref = prompt.of.ref /\ profiles' = [profiles EXCEPT ![prompt.net] = p]
    BY <1>2
  <2>2. profiles \in Nets
    BY ProfilesType
  <2> QED BY <1>1, <1>2, <2>1, <2>2 DEF OwnedBy, Fit, Nets
<1>4. Goes({prompt.net}, <<>>)
  BY <1>2, LessGoes
<1>5. ~Has(calls', Misfits(own, used))
  BY <1>1, <1>4, GoesOwned
<1> QED BY <1>1, <1>2, <1>3, <1>5, StaysOwned DEF OwnedBy

LEMMA ExportsOwned ==
    ASSUME TypeSeq, Owned, Exports
    PROVE  Owned'
<1>1. PICK own \in Owner : OwnedBy(own)
  BY DEF Owned
<1>2. PICK doc \in Contents : /\ exported' = {doc} /\ doc.nets = profiles
                              /\ UNCHANGED <<profiles, prompts, calls, file, used>>
  BY ExportsIs
<1> QED BY <1>1, <1>2, StaysOwned DEF OwnedBy

LEMMA FailsOwned ==
    ASSUME TypeSeq, Sess, Owned, NEW n \in Networks, FailsVerification(n)
    PROVE  Owned'
<1>1. PICK own \in Owner : OwnedBy(own)
  BY DEF Owned
<1>2. /\ prompts' = prompts \cup {[net |-> n, of |-> sessions[n].of]}
      /\ UNCHANGED <<profiles, exported, calls, file, used>>
  BY DEF FailsVerification, kept, ghosts
<1>3. sessions[n].of.ref = profiles[n].ref
  BY SessIs
<1>4. sessions[n].of.ref # None => sessions[n].of.ref \in used /\ own[sessions[n].of.ref] = n
  BY <1>1, <1>3 DEF OwnedBy, Fit
<1>5. \A p \in prompts' : p.of.ref # None => p.of.ref \in used /\ own[p.of.ref] = p.net
  BY <1>1, <1>2, <1>4 DEF OwnedBy
<1> QED BY <1>1, <1>2, <1>5, StaysOwned DEF OwnedBy

LEMMA QuitsOwned ==
    ASSUME TypeSeq, Owned, Quits
    PROVE  Owned'
<1>1. PICK own \in Owner : OwnedBy(own)
  BY DEF Owned
<1>2. /\ profiles' = [n \in Networks |-> Absent] /\ prompts' = {} /\ calls' = <<[op |-> "load"]>>
      /\ UNCHANGED <<exported, file, used>>
  BY DEF Quits, kept
<1>3. Fit(own, profiles', used)
  BY <1>2, AbsentIs DEF Fit
<1>4. ~Has(calls', Misfits(own, used))
  <2>1. [op |-> "load"] \notin Misfits(own, used)
    BY MakesLoad, Kinds DEF Misfits
  <2> QED BY <1>2, <2>1, OneHas
<1> QED BY <1>1, <1>2, <1>3, <1>4, StaysOwned DEF OwnedBy

LEMMA ReadsOwned ==
    ASSUME TypeSeq, Owned, Reads
    PROVE  Owned'
<1>1. PICK own \in Owner : OwnedBy(own)
  BY DEF Owned
<1>2. PICK found \in {file, Blank} :
         profiles' = [n \in Networks |-> IF found.nets[n].there THEN found.nets[n] ELSE profiles[n]]
  BY DEF Reads, Finish
<1>3. Fit(own, found.nets, used)
  BY <1>1, <1>2, AbsentIs DEF OwnedBy, Fit, Blank
<1>4. Fit(own, profiles', used)
  BY <1>1, <1>2, <1>3 DEF OwnedBy, Fit
<1>5. UNCHANGED <<prompts, exported, file, used>>
  BY DEF Reads, kept
<1>6. ~Has(calls', Misfits(own, used))
  <2>1. PICK gone, w : /\ w \in Seq(Commands) /\ Thinned(w, calls, ReadCalls(gone)) /\ calls' = Tail(w)
                       /\ calls # <<>> /\ Head(calls).op = "load"
    BY ReadsIs
  <2>2. w # <<>> /\ calls \in Seq(Commands)
    BY <2>1, ThinnedLoad DEF TypeSeq
  <2>3. ~Has(w, Misfits(own, used))
    BY <1>1, <2>1, <2>2, ThinnedHas DEF OwnedBy
  <2> QED BY <2>1, <2>2, <2>3, TailHas
<1> QED BY <1>1, <1>4, <1>5, <1>6, StaysOwned DEF OwnedBy

LEMMA WritesOwned ==
    ASSUME TypeSeq, Owned, Writes
    PROVE  Owned'
<1>1. PICK own \in Owner : OwnedBy(own)
  BY DEF Owned
<1>2. /\ calls # <<>> /\ calls' = Tail(calls) /\ calls \in Seq(Commands)
      /\ Head(calls) \in Commands /\ Head(calls).op = "write"
  BY CallIs DEF Writes
<1>3. /\ UNCHANGED <<profiles, prompts, exported, used>>
      /\ file' = Head(calls).what \/ file' = file
  BY DEF Writes, shown
<1>4. Head(calls) \notin Misfits(own, used) /\ ~Has(calls', Misfits(own, used))
  BY <1>1, <1>2, TailHas DEF OwnedBy
<1>5. Fit(own, file'.nets, used)
  <2>1. Head(calls) \in WriteCalls
    BY <1>2 DEF WriteCalls
  <2> QED BY <1>1, <1>3, <1>4, <2>1 DEF OwnedBy, Misfits
<1> QED BY <1>1, <1>3, <1>4, <1>5, StaysOwned DEF OwnedBy

----------------------------------------------------------------------------
(* The file, and what it will be.                                          *)

Matches(doc) == doc.identity = identity /\ \A n \in Networks \ apart : doc.nets[n] = profiles[n]

Current == {c \in WriteCalls : Matches(c.what)}

\* As it starts: nothing was done before the file is read.
Untouched ==
    /\ ~Loaded /\ ~Has(calls, WriteCalls) /\ prompts = {}
    /\ \A n \in Networks : ~There(n)

Stored ==
    /\ Before(calls, Commands, LoadCalls)
    /\ ~Loaded => Has(calls, LoadCalls)
    /\ "file" \notin apart /\ Has(calls, LoadCalls) => Untouched
    /\ "file" \notin apart /\ ~Has(calls, LoadCalls) =>
          /\ LastIn(calls, WriteCalls, Current)
          /\ Has(calls, WriteCalls) \/ Matches(file)

LEMMA UnreadIs ==
    ASSUME TypeSeq
    PROVE  Unread <=> Has(calls, LoadCalls)
<1>1. calls \in Seq(Commands) /\ DOMAIN calls = 1..Len(calls)
  BY DEF TypeSeq
<1>2. \A i \in 1..Len(calls) : calls[i].op = "load" <=> calls[i] \in LoadCalls
  BY <1>1 DEF LoadCalls
<1> QED BY <1>1, <1>2 DEF Unread, Has

\* The document that is written last is what is held.
LEMMA PersistingStored ==
    ASSUME TypeSeq, Stored, NEW gone, NEW s, NEW doc, NEW t, Persisting(gone, s, doc, t), Parts,
           identity' = Loading => identity = Loading
    PROVE  Stored'
<1> DEFINE u == Written(s, doc, t)  c == [op |-> "write", what |-> doc]
<1>1. u \in Seq(Commands) /\ ~Has(u, LoadCalls) /\ Has(u, WriteCalls) /\ Goes(gone, u)
  BY WrittenIs DEF Persisting
<1>2. \A C : C \subseteq WriteCalls => (Has(u, C) <=> c \in C)
  BY WrittenIs DEF Persisting
<1>3. c \in WriteCalls /\ c.what = doc
  BY MakesWrite DEF Persisting
<1>4. doc.nets = profiles' /\ doc.identity = IF identity' = Loading THEN None ELSE identity'
  BY DEF Persisting
<1> HIDE DEF u, c
<1>5. /\ Has(calls', WriteCalls)
      /\ Has(calls', LoadCalls) <=> Has(calls, LoadCalls)
  <2>1. \A d \in LoadCalls : d \notin ReadCalls(gone)
    BY Kinds
  <2> QED BY <1>1, <2>1, GoesHas
<1>6. Before(calls', Commands, LoadCalls)
  <2>1. Before(calls, Commands, LoadCalls) /\ Before(u, Commands, LoadCalls)
    BY <1>1, NoneBefore DEF Stored
  <2> QED BY <1>1, <2>1, GoesBefore
<1>7. ~Loaded' => Has(calls', LoadCalls)
  BY <1>5 DEF Stored, Loaded
<1>8. "file" \notin apart' => ~Has(calls, LoadCalls) /\ apart' = {}
  BY UnreadIs DEF Parts
<1>9. ASSUME "file" \notin apart'
      PROVE  LastIn(calls', WriteCalls, Current')
  <2>1. identity' # Loading /\ apart' = {}
    BY <1>5, <1>7, <1>8, <1>9 DEF Loaded
  <2>2. c \in Current'
    BY <1>3, <1>4, <2>1 DEF Current, Matches
  <2> DEFINE D == Current'
  <2>3. ~Has(u, WriteCalls \ D)
    BY <1>2, <2>2
  <2> HIDE DEF D
  <2>4. LastIn(u, WriteCalls, D)
    BY <1>1, <2>3, AllLast
  <2>5. \A d \in WriteCalls : d \notin ReadCalls(gone)
    BY Kinds
  <2>6. LastIn(calls', WriteCalls, D)
    BY <1>1, <2>4, <2>5, GoesLast
  <2> QED BY <2>6 DEF D
<1> QED BY <1>5, <1>6, <1>7, <1>8, <1>9 DEF Stored

\* Nothing is written or read.
LEMMA QuietStored ==
    ASSUME TypeSeq, Stored, NEW gone, NEW u \in Seq(Commands), Goes(gone, u),
           ~Has(u, LoadCalls), ~Has(u, WriteCalls),
           identity' = identity, file' = file, apart \subseteq apart',
           \A n \in Networks \ apart' : profiles'[n] = profiles[n],
           Untouched => prompts' = {} /\ \A n \in Networks : ~There(n)'
    PROVE  Stored'
<1>1. /\ Has(calls', WriteCalls) <=> Has(calls, WriteCalls)
      /\ Has(calls', LoadCalls) <=> Has(calls, LoadCalls)
  <2>1. \A d \in LoadCalls \cup WriteCalls : d \notin ReadCalls(gone)
    BY Kinds
  <2> QED BY <2>1, GoesHas
<1>2. Before(calls', Commands, LoadCalls)
  <2>1. Before(calls, Commands, LoadCalls) /\ Before(u, Commands, LoadCalls)
    BY NoneBefore DEF Stored
  <2> QED BY <2>1, GoesBefore
<1>3. "file" \notin apart' /\ Has(calls', LoadCalls) => Untouched'
  BY <1>1 DEF Stored, Untouched, Loaded
<1>4. \A doc : Matches(doc) => Matches(doc)'
  BY DEF Matches
<1>5. ASSUME "file" \notin apart', ~Has(calls', LoadCalls)
      PROVE  LastIn(calls', WriteCalls, Current') /\ (Has(calls', WriteCalls) \/ Matches(file)')
  <2>1. LastIn(calls, WriteCalls, Current) /\ (Has(calls, WriteCalls) \/ Matches(file))
    BY <1>1, <1>5 DEF Stored
  <2>2. LastIn(calls, WriteCalls, Current')
    BY <1>4, <2>1 DEF LastIn, Current
  <2>3. \A d \in WriteCalls : d \notin ReadCalls(gone)
    BY Kinds
  <2> DEFINE D == Current'
  <2>4. LastIn(u, WriteCalls, D) /\ LastIn(calls, WriteCalls, D)
    <3>1. ~Has(u, WriteCalls \ D)
      BY DEF Has
    <3> HIDE DEF D
    <3>2. LastIn(u, WriteCalls, D)
      BY <3>1, AllLast
    <3> QED BY <2>2, <3>2 DEF D
  <2>5. LastIn(calls', WriteCalls, D)
    <3> HIDE DEF D
    <3> QED BY <2>3, <2>4, GoesLast
  <2>6. Matches(file) => Matches(file)'
    BY DEF Matches
  <2> QED BY <1>1, <2>1, <2>5, <2>6
<1>6. ~Loaded' => Has(calls', LoadCalls)
  BY <1>1 DEF Stored, Loaded
<1> QED BY <1>2, <1>3, <1>5, <1>6 DEF Stored

\* A call that is neither is taken.
LEMMA TailStored ==
    ASSUME TypeSeq, Stored, calls # <<>>, calls' = Tail(calls),
           Head(calls).op \notin {"load", "write"},
           UNCHANGED <<identity, file, apart, profiles, prompts>>
    PROVE  Stored'
<1>0. calls \in Seq(Commands) /\ Head(calls) \notin LoadCalls /\ Head(calls) \notin WriteCalls
  BY DEF TypeSeq, LoadCalls, WriteCalls
<1>1. /\ Has(calls', WriteCalls) <=> Has(calls, WriteCalls)
      /\ Has(calls', LoadCalls) <=> Has(calls, LoadCalls)
  BY <1>0, TailHas
<1>2. Before(calls', Commands, LoadCalls)
  BY <1>0, TailBefore DEF Stored
<1>3. Untouched => Untouched'
  BY <1>1 DEF Untouched, Loaded, There
<1>4. Current' = Current /\ (Matches(file)' <=> Matches(file))
  BY DEF Current, Matches
<1>5. LastIn(calls, WriteCalls, Current) => LastIn(calls', WriteCalls, Current)
  BY <1>0, TailLast
<1>6. ~Loaded' => Has(calls', LoadCalls)
  BY <1>1 DEF Stored, Loaded
<1> QED BY <1>1, <1>2, <1>3, <1>4, <1>5, <1>6 DEF Stored

LEMMA WritesStored ==
    ASSUME TypeSeq, Stored, Writes
    PROVE  Stored'
<1>0. /\ calls \in Seq(Commands) /\ calls # <<>> /\ calls' = Tail(calls)
      /\ Head(calls) \in Commands /\ Head(calls).op = "write"
  BY CallIs DEF Writes
<1>1. Head(calls) \in WriteCalls /\ Head(calls) \notin LoadCalls
  BY <1>0 DEF WriteCalls, LoadCalls
<1>2. /\ \/ file' = Head(calls).what /\ apart' = apart
         \/ apart' = {"file"}
      /\ UNCHANGED <<profiles, identity, prompts>>
  BY DEF Writes, shown
<1>3. /\ Has(calls', LoadCalls) <=> Has(calls, LoadCalls)
      /\ Has(calls, WriteCalls) /\ Before(calls', Commands, LoadCalls)
  BY <1>0, <1>1, TailHas, TailBefore DEF Stored
<1>4. ASSUME "file" \notin apart', ~Has(calls', LoadCalls)
      PROVE  LastIn(calls', WriteCalls, Current') /\ (Has(calls', WriteCalls) \/ Matches(file)')
  <2>1. file' = Head(calls).what /\ apart' = apart
    BY <1>2, <1>4
  <2>2. LastIn(calls, WriteCalls, Current)
    BY <1>3, <1>4, <2>1 DEF Stored
  <2>3. LastIn(calls', WriteCalls, Current) /\ (~Has(calls', WriteCalls) => Head(calls) \in Current)
    BY <1>0, <1>1, <2>2, TailLast
  <2>4. \A doc : Matches(doc) <=> Matches(doc)'
    BY <1>2, <2>1 DEF Matches
  <2>5. Current' = Current
    BY <2>4 DEF Current
  <2>6. Head(calls) \in Current => Matches(file)'
    BY <1>2, <2>1 DEF Current, Matches
  <2> QED BY <2>3, <2>5, <2>6
<1>5. "file" \notin apart' /\ Has(calls', LoadCalls) => Untouched'
  BY <1>2, <1>3 DEF Stored, Untouched
<1>6. ~Loaded' => Has(calls', LoadCalls)
  BY <1>2, <1>3 DEF Stored, Loaded
<1> QED BY <1>3, <1>4, <1>5, <1>6 DEF Stored

\* The load is the first there is, and the only one.
LEMMA LoadFirst ==
    ASSUME TypeSeq, Stored, Reads
    PROVE  \E gone, w :
              /\ w \in Seq(Commands) /\ Thinned(w, calls, ReadCalls(gone)) /\ calls' = Tail(w) /\ w # <<>>
              /\ gone \subseteq Networks /\ \A n \in Networks \ gone : sessions'[n] = sessions[n]
              /\ Head(w) \in LoadCalls /\ Has(calls, LoadCalls) /\ ~Has(calls', LoadCalls)
              /\ Before(w, Commands, LoadCalls)
              /\ \A C : Has(calls', C) => Has(calls, C)
<1>1. PICK gone, w : /\ w \in Seq(Commands) /\ Thinned(w, calls, ReadCalls(gone)) /\ calls' = Tail(w)
                     /\ gone \subseteq Networks /\ \A n \in Networks \ gone : sessions'[n] = sessions[n]
                     /\ calls # <<>> /\ Head(calls).op = "load"
  BY ReadsIs
<1>2. w # <<>> /\ calls \in Seq(Commands)
  BY <1>1, ThinnedLoad DEF TypeSeq
<1>3. Before(w, Commands, LoadCalls)
  BY <1>1, <1>2, ThinnedBefore DEF Stored
<1>4. Has(calls, LoadCalls) /\ \A c \in LoadCalls : c \notin ReadCalls(gone)
  <2>1. Head(calls) = calls[1] /\ 1 \in 1..Len(calls) /\ calls[1] \in Commands
    BY <1>1, <1>2
  <2>2. calls[1] \in LoadCalls
    BY <1>1, <2>1 DEF LoadCalls
  <2> QED BY <2>1, <2>2, Kinds DEF Has
<1>5. Has(w, LoadCalls)
  BY <1>1, <1>2, <1>4, ThinnedHas
<1>6. Head(w) \in LoadCalls
  <2>1. PICK i \in 1..Len(w) : w[i] \in LoadCalls
    BY <1>5 DEF Has
  <2>2. Len(w) \in Nat /\ 1 \in 1..Len(w) /\ w[1] \in Commands /\ Head(w) = w[1]
    BY <1>1, <1>2
  <2>3. ~(1 < i)
    BY <1>3, <2>1, <2>2 DEF Before
  <2>4. i = 1
    BY <2>1, <2>2, <2>3
  <2> QED BY <2>1, <2>2, <2>4
<1>7. ~Has(calls', LoadCalls)
  <2>1. Head(w) \in Commands
    BY <1>6, Kinds
  <2> QED BY <1>1, <1>2, <1>3, <2>1, TailBefore
<1>8. \A C : Has(calls', C) => Has(calls, C)
  BY <1>1, <1>2, ThinnedHas, TailHas
<1> QED BY <1>1, <1>2, <1>3, <1>4, <1>6, <1>7, <1>8

LEMMA ReadsStored ==
    ASSUME TypeSeq, Stored, Reads
    PROVE  Stored'
<1>1. PICK found \in Contents :
              /\ identity' = found.identity
              /\ profiles' = [n \in Networks |-> IF found.nets[n].there THEN found.nets[n] ELSE profiles[n]]
              /\ \/ found = file /\ UNCHANGED <<apart, lost>>
                 \/ apart' = {"file"}
              /\ file' = file
  BY ReadsIs
<1>2. PICK gone, w :
              /\ w \in Seq(Commands) /\ Thinned(w, calls, ReadCalls(gone)) /\ calls' = Tail(w) /\ w # <<>>
              /\ Head(w) \in LoadCalls /\ Has(calls, LoadCalls) /\ ~Has(calls', LoadCalls)
              /\ Before(w, Commands, LoadCalls)
              /\ \A C : Has(calls', C) => Has(calls, C)
  BY LoadFirst
<1>3. Before(calls', Commands, LoadCalls)
  BY <1>2, TailBefore
<1>4. identity' # Loading
  BY <1>1, ContentsIs, NoneIs
<1>5. ASSUME "file" \notin apart'
      PROVE  LastIn(calls', WriteCalls, Current') /\ Matches(file)'
  <2>1. found = file /\ apart' = apart
    BY <1>1, <1>5
  <2>2. Untouched
    BY <1>2, <1>5, <2>1 DEF Stored
  <2>3. ~Has(calls', WriteCalls)
    BY <1>2, <2>2 DEF Untouched
  <2>4. LastIn(calls', WriteCalls, Current')
    BY <2>3 DEF LastIn, Has
  <2>5. ASSUME NEW n \in Networks PROVE file.nets[n] = profiles'[n]
    <3>1. file.nets[n] \in Profile \cup {Absent} /\ profiles[n] \in Profile \cup {Absent}
      <4>1. file \in Contents
        BY DEF TypeSeq, TypeOK
      <4> QED BY <4>1, ContentsIs, ProfilesType DEF Nets
    <3>2. profiles[n] = Absent
      BY <2>2, <3>1, ProfileIs DEF Untouched, There
    <3> QED BY <1>1, <2>1, <3>1, <3>2, ProfileIs
  <2>6. Matches(file)'
    BY <1>1, <2>1, <2>5 DEF Matches
  <2> QED BY <2>4, <2>6
<1> QED BY <1>2, <1>3, <1>4, <1>5 DEF Stored, Loaded

LEMMA QuitsStored ==
    ASSUME Quits
    PROVE  Stored'
<1>1. /\ calls' = <<[op |-> "load"]>> /\ identity' = Loading /\ prompts' = {}
      /\ profiles' = [n \in Networks |-> Absent]
  BY DEF Quits
<1>2. Has(calls', LoadCalls) /\ ~Has(calls', WriteCalls)
  BY <1>1, OneHas, MakesLoad, Kinds
<1>3. Before(calls', Commands, LoadCalls)
  BY <1>1 DEF Before
<1>4. Untouched'
  BY <1>1, <1>2, AbsentIs DEF Untouched, Loaded, There
<1> QED BY <1>2, <1>3, <1>4 DEF Stored

\* Documents with a network, and without it.
With(n) == {c \in WriteCalls : c.what.nets[n].there}
Lacking(n) == {c \in WriteCalls : ~c.what.nets[n].there}

LastsAt(n) ==
    /\ Before(calls, With(n), Lacking(n))
    /\ file.nets[n].there => ~Has(calls, Lacking(n)) /\ (Has(calls, LoadCalls) \/ There(n))
    /\ Has(calls, With(n)) => There(n)

Lasts == \A n \in Networks : n \notin removed \cup lost => LastsAt(n)

LEMMA PersistingLasts ==
    ASSUME TypeSeq, Lasts, NEW gone, NEW s, NEW doc, NEW t, Persisting(gone, s, doc, t), Parts,
           removed \subseteq removed', file' = file,
           \A n \in Networks : n \notin removed' /\ There(n) => There(n)'
    PROVE  Lasts'
<1> DEFINE u == Written(s, doc, t)  c == [op |-> "write", what |-> doc]
<1>1. u \in Seq(Commands) /\ ~Has(u, LoadCalls) /\ Goes(gone, u)
  BY WrittenIs DEF Persisting
<1>2. \A C : C \subseteq WriteCalls => (Has(u, C) <=> c \in C)
  BY WrittenIs DEF Persisting
<1>3. c \in WriteCalls /\ c.what = doc /\ doc.nets = profiles'
  BY MakesWrite DEF Persisting
<1> HIDE DEF u, c
<1>4. ASSUME NEW n \in Networks, n \notin removed' \cup lost'
      PROVE  LastsAt(n)'
  <2>1. LastsAt(n) /\ (There(n) => There(n)') /\ n \notin lost'
    <3>1. lost \subseteq lost'
      BY DEF Parts
    <3> QED BY <1>4, <3>1 DEF Lasts
  <2>2. With(n) \subseteq WriteCalls /\ Lacking(n) \subseteq WriteCalls
    BY DEF With, Lacking
  <2>3. /\ Has(u, With(n)) <=> There(n)'
        /\ Has(u, Lacking(n)) <=> ~There(n)'
    <3>1. /\ c \in With(n) <=> There(n)'
          /\ c \in Lacking(n) <=> ~There(n)'
      BY <1>3 DEF With, Lacking, There
    <3> QED BY <1>2, <2>2, <3>1
  <2>4. \A C : Has(calls', C) => Has(calls, C) \/ Has(u, C)
    BY <1>1, GoesHas
  <2>5. file.nets[n].there => ~Has(calls, LoadCalls)
    <3>1. Unread => lost' = lost \cup {m \in Networks : file.nets[m].there}
      BY DEF Parts
    <3> QED BY <2>1, <3>1, UnreadIs
  <2>6. Before(calls', With(n), Lacking(n))
    <3>1. Before(calls, With(n), Lacking(n)) /\ (Has(calls, With(n)) => ~Has(u, Lacking(n)))
      BY <2>1, <2>3 DEF LastsAt
    <3>2. Before(u, With(n), Lacking(n))
      BY <1>1, <2>3, NoneBefore
    <3> QED BY <1>1, <3>1, <3>2, GoesBefore
  <2>7. file'.nets[n].there => ~Has(calls', Lacking(n)) /\ There(n)'
    BY <2>1, <2>3, <2>4, <2>5 DEF LastsAt
  <2>8. Has(calls', With(n)) => There(n)'
    BY <2>1, <2>3, <2>4 DEF LastsAt
  <2> QED BY <2>6, <2>7, <2>8 DEF LastsAt
<1> QED BY <1>4 DEF Lasts

\* Nothing more is written, and nothing is taken away.
LEMMA QuietLasts ==
    ASSUME TypeSeq, Lasts, file' = file, removed' = removed, lost' = lost,
           \A n \in Networks : There(n) => There(n)',
           \A n \in Networks : Before(calls, With(n), Lacking(n)) => Before(calls', With(n), Lacking(n)),
           \A C : C \subseteq WriteCalls /\ Has(calls', C) => Has(calls, C),
           Has(calls, LoadCalls) => Has(calls', LoadCalls)
    PROVE  Lasts'
<1>1. ASSUME NEW n \in Networks, n \notin removed' \cup lost'
      PROVE  LastsAt(n)'
  <2>1. LastsAt(n)
    BY <1>1 DEF Lasts
  <2>2. With(n) \subseteq WriteCalls /\ Lacking(n) \subseteq WriteCalls
    BY DEF With, Lacking
  <2> QED BY <2>1, <2>2 DEF LastsAt
<1> QED BY <1>1 DEF Lasts

LEMMA GoesLasts ==
    ASSUME TypeSeq, Lasts, NEW gone, NEW u \in Seq(Commands), Goes(gone, u),
           ~Has(u, WriteCalls),
           file' = file, removed' = removed, lost' = lost,
           \A n \in Networks : There(n) => There(n)'
    PROVE  Lasts'
<1>1. \A C : C \subseteq WriteCalls => ~Has(u, C)
  BY DEF Has
<1>2. \A C : C \subseteq WriteCalls /\ Has(calls', C) => Has(calls, C)
  BY <1>1, GoesHas
<1>3. Has(calls, LoadCalls) => Has(calls', LoadCalls)
  BY GoesHas, Kinds
<1>4. ASSUME NEW n \in Networks, Before(calls, With(n), Lacking(n))
      PROVE  Before(calls', With(n), Lacking(n))
  <2>1. Lacking(n) \subseteq WriteCalls
    BY DEF Lacking
  <2>2. ~Has(u, Lacking(n))
    BY <1>1, <2>1
  <2>3. Before(u, With(n), Lacking(n))
    BY <2>2, NoneBefore
  <2> QED BY <1>4, <2>2, <2>3, GoesBefore
<1> QED BY <1>2, <1>3, <1>4, QuietLasts

LEMMA TailLasts ==
    ASSUME TypeSeq, Lasts, calls # <<>>, calls' = Tail(calls),
           Head(calls).op \notin {"load", "write"},
           UNCHANGED <<file, removed, lost, profiles>>
    PROVE  Lasts'
<1>0. calls \in Seq(Commands) /\ Head(calls) \notin LoadCalls
  BY DEF TypeSeq, LoadCalls
<1>1. \A C : Has(calls', C) => Has(calls, C)
  BY <1>0, TailHas
<1>2. Has(calls, LoadCalls) => Has(calls', LoadCalls)
  BY <1>0, TailHas
<1>3. ASSUME NEW n \in Networks, Before(calls, With(n), Lacking(n))
      PROVE  Before(calls', With(n), Lacking(n))
  BY <1>0, <1>3, TailBefore
<1> QED BY <1>1, <1>2, <1>3, QuietLasts DEF There

\* What is written has each network the file had.
LEMMA WritesLasts ==
    ASSUME TypeSeq, Lasts, Writes
    PROVE  /\ Lasts'
           /\ \A n \in Networks : file.nets[n].there /\ ~file'.nets[n].there => n \in removed \cup lost
<1>0. /\ calls \in Seq(Commands) /\ calls # <<>> /\ calls' = Tail(calls)
      /\ Head(calls) \in WriteCalls
  BY CallIs DEF Writes, WriteCalls
<1>1. /\ file' = Head(calls).what \/ file' = file
      /\ UNCHANGED <<profiles, removed, lost>>
  BY DEF Writes, shown
<1>2. \A C : Has(calls, C) <=> Head(calls) \in C \/ Has(calls', C)
  BY <1>0, TailHas
<1>3. ASSUME NEW n \in Networks, n \notin removed \cup lost
      PROVE  LastsAt(n)' /\ (file.nets[n].there => file'.nets[n].there)
  <2>1. LastsAt(n)
    BY <1>3 DEF Lasts
  <2>2. /\ Before(calls', With(n), Lacking(n))
        /\ Head(calls) \in With(n) => ~Has(calls', Lacking(n))
    BY <1>0, <2>1, TailBefore DEF LastsAt
  <2>3. Head(calls) \in With(n) \/ Head(calls) \in Lacking(n)
    BY <1>0 DEF With, Lacking
  <2>4. Head(calls) \notin LoadCalls
    BY <1>0, Kinds
  <2>5. There(n)' <=> There(n)
    BY <1>1 DEF There
  <2>6. Has(calls', With(n)) => There(n)'
    BY <1>2, <2>1, <2>5 DEF LastsAt
  <2>7. file.nets[n].there => file'.nets[n].there
    BY <1>1, <1>2, <2>1, <2>3 DEF LastsAt, With
  <2>8. file'.nets[n].there => ~Has(calls', Lacking(n)) /\ (Has(calls', LoadCalls) \/ There(n)')
    <3>1. CASE file' = file
      BY <1>2, <2>1, <2>4, <2>5, <3>1 DEF LastsAt
    <3>2. CASE file' = Head(calls).what
      <4>1. file'.nets[n].there => Head(calls) \in With(n)
        BY <1>0, <3>2 DEF With
      <4> QED BY <1>2, <2>1, <2>2, <2>5, <4>1 DEF LastsAt
    <3> QED BY <1>1, <3>1, <3>2
  <2> QED BY <2>2, <2>6, <2>7, <2>8 DEF LastsAt
<1>4. Lasts'
  BY <1>1, <1>3 DEF Lasts
<1> QED BY <1>3, <1>4

LEMMA ReadsLasts ==
    ASSUME TypeSeq, Stored, Lasts, Reads
    PROVE  Lasts'
<1>1. PICK found \in Contents :
              /\ profiles' = [n \in Networks |-> IF found.nets[n].there THEN found.nets[n] ELSE profiles[n]]
              /\ \/ found = file /\ UNCHANGED <<apart, lost>>
                 \/ lost' = lost \cup {n \in Networks : file.nets[n].there}
              /\ file' = file /\ removed' = removed
  BY ReadsIs
<1>2. PICK gone, w :
              /\ w \in Seq(Commands) /\ Thinned(w, calls, ReadCalls(gone)) /\ calls' = Tail(w) /\ w # <<>>
              /\ \A C : Has(calls', C) => Has(calls, C)
  BY LoadFirst
<1>3. ASSUME NEW n \in Networks, n \notin removed' \cup lost'
      PROVE  LastsAt(n)'
  <2>1. LastsAt(n)
    BY <1>1, <1>3 DEF Lasts
  <2>2. There(n) => There(n)'
    BY <1>1 DEF There
  <2>3. file.nets[n].there => There(n)'
    BY <1>1, <1>3 DEF There
  <2>4. Before(calls', With(n), Lacking(n))
    <3>1. Before(w, With(n), Lacking(n))
      BY <1>2, <2>1, ThinnedBefore DEF LastsAt, TypeSeq
    <3> QED BY <1>2, <3>1, TailBefore
  <2>5. Has(calls', With(n)) => There(n)'
    BY <1>2, <2>1, <2>2 DEF LastsAt
  <2>6. file'.nets[n].there => ~Has(calls', Lacking(n)) /\ There(n)'
    BY <1>1, <1>2, <2>1, <2>3 DEF LastsAt
  <2> QED BY <2>4, <2>5, <2>6 DEF LastsAt
<1> QED BY <1>3 DEF Lasts

LEMMA QuitsLasts ==
    ASSUME TypeSeq, Quits
    PROVE  Lasts'
<1>1. calls' = <<[op |-> "load"]>>
  BY DEF Quits
<1>2. \A n : [op |-> "load"] \notin With(n) /\ [op |-> "load"] \notin Lacking(n)
  BY MakesLoad, Kinds DEF With, Lacking
<1>3. \A n : ~Has(calls', With(n)) /\ ~Has(calls', Lacking(n))
  BY <1>1, <1>2, OneHas
<1>4. Has(calls', LoadCalls)
  BY <1>1, OneHas, MakesLoad
<1>5. \A n : Before(calls', With(n), Lacking(n))
  BY <1>1 DEF Before
<1> QED BY <1>3, <1>4, <1>5 DEF Lasts, LastsAt

----------------------------------------------------------------------------
(* The keychain, and what it will be.                                      *)

\* What may come last for a reference.
Right(r) ==
    {c \in SecretCalls(r) : (c.op = "set" => c.value = typed[r]) /\ (r \in freed => c.op = "forget")}

Served(r) == keychain[r] \in {None, typed[r]} /\ (r \in freed => keychain[r] = None)

SecretAt(r) ==
    /\ memory[r] \in {None, typed[r]}
    /\ LastIn(calls, SecretCalls(r), Right(r))
    /\ r \notin doubtful => Has(calls, SecretCalls(r)) \/ Served(r)

Sent(n) ==
    LET s == sessions[n]
    IN  s.phase = "live" /\ s.sent # None =>
           s.of.ref # None /\ (s.of.ref \in doubtful \/ s.sent = typed[s.of.ref])

\* A password that is waited for is what the commands before make it.
AnswersAt(n) ==
    /\ profiles[n].ref \notin freed
    /\ Has(calls, ReadCalls({n})) => profiles[n].ref # None
    /\ Before(calls, ReadCalls({n}), SecretCalls(profiles[n].ref))
    /\ Sent(n)

Secrets == (\A r \in Refs : SecretAt(r)) /\ \A n \in Networks : AnswersAt(n)

LEMMA RightLast ==
    ASSUME NEW r, LastIn(calls, SecretCalls(r), Right(r)), typed'[r] = typed[r],
           r \in freed' => r \in freed
    PROVE  LastIn(calls, SecretCalls(r), Right(r)')
<1>1. \A c \in Right(r) : c \in Right(r)'
  BY DEF Right
<1> QED BY <1>1 DEF LastIn

LEMMA GoesSecret ==
    ASSUME TypeSeq, Secrets, NEW gone, NEW u \in Seq(Commands), Goes(gone, u),
           \A n \in Networks \ gone : profiles'[n].ref = profiles[n].ref,
           \A n \in Networks : profiles'[n].ref \notin freed',
           \A n \in Networks : Has(u, ReadCalls({n})) => n \notin gone /\ profiles'[n].ref # None,
           \A n \in Networks : n \in gone \/ ~Has(u, SecretCalls(profiles'[n].ref)),
           \A r \in Refs : memory'[r] \in {None, typed'[r]},
           \A r \in Refs : ~Has(u, SecretCalls(r) \ Right(r)'),
           \A r \in Refs : \/ Has(u, SecretCalls(r))
                           \/ /\ typed'[r] = typed[r] /\ keychain'[r] = keychain[r]
                              /\ r \in freed' => r \in freed
                              /\ r \in doubtful => r \in doubtful',
           \A n \in Networks : Sent(n)'
    PROVE  Secrets'
<1>1. /\ \A C : Has(calls', C) => Has(calls, C) \/ Has(u, C)
      /\ \A C : ((\A c \in C : c \notin ReadCalls(gone)) /\ Has(calls, C)) \/ Has(u, C)
            => Has(calls', C)
      /\ \A n \in gone \cap Networks : Has(calls', ReadCalls({n})) => Has(u, ReadCalls({n}))
  BY GoesHas
<1>2. \A r : \A c \in SecretCalls(r) : c \notin ReadCalls(gone)
  BY Kinds
<1>3. ASSUME NEW r \in Refs PROVE SecretAt(r)'
  <2>1. SecretAt(r)
    BY DEF Secrets
  <2> DEFINE C == SecretCalls(r)  D == Right(r)'
  <2>2. LastIn(calls, C, D) \/ Has(u, C)
    BY <2>1, RightLast DEF SecretAt
  <2>3. ~Has(u, C \ D) /\ \A c \in C : c \notin ReadCalls(gone)
    BY <1>2
  <2>4. LastIn(calls', C, D)
    <3> HIDE DEF C, D
    <3>1. LastIn(u, C, D)
      BY <2>3, AllLast
    <3> QED BY <2>2, <2>3, <3>1, GoesLast
  <2>5. Has(calls, C) \/ Has(u, C) => Has(calls', C)
    BY <1>1, <2>3
  <2>6. r \notin doubtful' => Has(calls', C) \/ Served(r)'
    <3>1. CASE Has(u, C)
      BY <2>5, <3>1
    <3>2. CASE /\ typed'[r] = typed[r] /\ keychain'[r] = keychain[r]
               /\ r \in freed' => r \in freed
               /\ r \in doubtful => r \in doubtful'
      <4>1. Served(r) => Served(r)'
        BY <3>2 DEF Served
      <4> QED BY <2>1, <2>5, <3>2, <4>1 DEF SecretAt
    <3> QED BY <3>1, <3>2
  <2> QED BY <2>4, <2>6 DEF SecretAt
<1>4. ASSUME NEW n \in Networks PROVE AnswersAt(n)'
  <2>1. AnswersAt(n)
    BY DEF Secrets
  <2>2. CASE n \in gone
    <3>1. ~Has(calls', ReadCalls({n}))
      BY <1>1, <2>2
    <3>2. Before(calls', ReadCalls({n}), SecretCalls(profiles'[n].ref))
      <4>1. calls' \in Seq(Commands)
        BY GoesHas
      <4> QED BY <3>1, <4>1, NoneBefore
    <3> QED BY <3>1, <3>2 DEF AnswersAt
  <2>3. CASE n \notin gone
    <3> DEFINE A == ReadCalls({n})  B == SecretCalls(profiles[n].ref)
    <3>1. profiles'[n].ref = profiles[n].ref /\ ~Has(u, B) /\ Before(calls, A, B)
      BY <2>1, <2>3 DEF AnswersAt
    <3> HIDE DEF A, B
    <3>2. Before(calls', A, B)
      <4>1. Before(u, A, B)
        BY <3>1, NoneBefore
      <4> QED BY <3>1, <4>1, GoesBefore
    <3>3. Has(calls', ReadCalls({n})) => profiles'[n].ref # None
      BY <1>1, <2>1, <3>1 DEF AnswersAt
    <3> QED BY <3>1, <3>2, <3>3 DEF AnswersAt, A, B
  <2> QED BY <2>2, <2>3
<1> QED BY <1>3, <1>4 DEF Secrets

\* A session as it was, or one that has sent nothing.
LEMMA SentSame ==
    ASSUME NEW n \in Networks, Sent(n),
           \/ sessions'[n].phase # "live" \/ sessions'[n].sent = None
           \/ /\ sessions'[n] = sessions[n]
              /\ sessions[n].of.ref # None => typed'[sessions[n].of.ref] = typed[sessions[n].of.ref]
              /\ sessions[n].of.ref \in doubtful => sessions[n].of.ref \in doubtful'
    PROVE  Sent(n)'
BY DEF Sent

\* No password is kept or forgotten.
LEMMA QuietSecret ==
    ASSUME TypeSeq, Secrets, NEW gone, NEW u \in Seq(Commands), Goes(gone, u),
           \A n \in Networks \ gone : profiles'[n].ref = profiles[n].ref,
           \A n \in Networks : profiles'[n].ref \notin freed',
           \A n \in Networks : Has(u, ReadCalls({n})) => n \notin gone /\ profiles'[n].ref # None,
           \A r : ~Has(u, SecretCalls(r)),
           UNCHANGED <<memory, typed, keychain, doubtful>>, freed' \subseteq freed,
           \A n \in Networks : \/ sessions'[n].phase # "live" \/ sessions'[n].sent = None
                               \/ sessions'[n] = sessions[n]
    PROVE  Secrets'
<1>1. \A n \in Networks : Sent(n)'
  <2>1. \A n \in Networks : Sent(n)
    BY DEF Secrets, AnswersAt
  <2> QED BY <2>1, SentSame
<1>2. \A r \in Refs : memory'[r] \in {None, typed'[r]}
  BY DEF Secrets, SecretAt
<1>3. \A r \in Refs : ~Has(u, SecretCalls(r) \ Right(r)')
  <2>1. \A r \in Refs : ~Has(u, SecretCalls(r))
    OBVIOUS
  <2> QED BY <2>1 DEF Has
<1> QED BY <1>1, <1>2, <1>3, GoesSecret

LEMMA WrittenQuiet ==
    ASSUME NEW doc \in Contents
    PROVE  /\ \A r : ~Has(Written(<<>>, doc, <<>>), SecretCalls(r))
           /\ \A n : ~Has(Written(<<>>, doc, <<>>), ReadCalls({n}))
           /\ Written(<<>>, doc, <<>>) \in Seq(Commands)
<1>1. <<>> \in Seq(Keys)
  OBVIOUS
<1> QED BY <1>1, WrittenIs, EmptyIs

LEMMA SavesSecret ==
    ASSUME TypeSeq, Secrets,
           \/ \E n \in Networks : TogglesAutojoin(n)
           \/ SavesIdentity
           \/ SavesSettings
    PROVE  Secrets'
<1>1. PICK doc : Persisting({}, <<>>, doc, <<>>)
  BY TogglesIs, IdentityIs, SettingsIs
<1>2. /\ \A m \in Networks : profiles'[m].ref = profiles[m].ref
      /\ UNCHANGED <<sessions, memory, typed, keychain, doubtful, freed>>
  BY TogglesIs DEF TogglesAutojoin, SavesIdentity, SavesSettings, kept
<1> DEFINE u == Written(<<>>, doc, <<>>)
<1>3. /\ u \in Seq(Commands) /\ Goes({}, u)
      /\ \A r : ~Has(u, SecretCalls(r))
      /\ \A n : ~Has(u, ReadCalls({n}))
  BY <1>1, WrittenQuiet DEF Persisting
<1>4. \A n \in Networks : profiles[n].ref \notin freed
  BY DEF Secrets, AnswersAt
<1> HIDE DEF u
<1> QED BY <1>2, <1>3, <1>4, QuietSecret

LEMMA LessSecret ==
    ASSUME TypeSeq, Secrets, NEW gone, Goes(gone, <<>>),
           \A n \in Networks \ gone : profiles'[n].ref = profiles[n].ref,
           \A n \in Networks : profiles'[n].ref \notin freed',
           UNCHANGED <<memory, typed, keychain, doubtful>>, freed' \subseteq freed,
           \A n \in Networks : \/ sessions'[n].phase # "live" \/ sessions'[n].sent = None
                               \/ sessions'[n] = sessions[n]
    PROVE  Secrets'
<1>1. /\ <<>> \in Seq(Commands)
      /\ \A r : ~Has(<<>>, SecretCalls(r))
      /\ \A n \in Networks : ~Has(<<>>, ReadCalls({n}))
  BY EmptyIs
<1> QED BY <1>1, QuietSecret

LEMMA ReconnectsSecret ==
    ASSUME TypeSeq, Secrets, NEW n \in Networks, Reconnects(n)
    PROVE  Secrets'
<1>1. /\ profiles' = profiles /\ calls' = Without({n})
      /\ sessions' = [sessions EXCEPT ![n] = [of |-> profiles[n], phase |-> "dialling", sent |-> None]]
      /\ UNCHANGED <<memory, typed, keychain, doubtful, freed>>
  BY ReconnectsType DEF Reconnects, Registers, kept
<1>2. Goes({n}, <<>>)
  BY <1>1, LessGoes
<1>3. \A m \in Networks : sessions'[m].sent = None \/ sessions'[m] = sessions[m]
  <2>1. sessions \in [Networks -> Session]
    BY TypeIs DEF TypeShown
  <2> QED BY <1>1, <2>1
<1>4. \A m \in Networks : profiles[m].ref \notin freed
  BY DEF Secrets, AnswersAt
<1> QED BY <1>1, <1>2, <1>3, <1>4, LessSecret

LEMMA DisconnectsSecret ==
    ASSUME TypeSeq, Secrets, NEW n \in Networks,
           \/ Disconnects(n) \/ FailsVerification(n) \/ Drops(n)
    PROVE  Secrets'
<1>1. /\ \E phase \in {"idle", "dialling"} : sessions' = [sessions EXCEPT ![n].phase = phase]
      /\ calls' = calls \/ calls' = Without({n})
      /\ UNCHANGED <<profiles, memory, typed, keychain, doubtful, freed>>
  BY DEF Disconnects, FailsVerification, Drops, kept, ghosts
<1>2. \E gone : Goes(gone, <<>>)
  BY <1>1, LessGoes, SameGoes
<1>3. \A m \in Networks : sessions'[m].phase # "live" \/ sessions'[m] = sessions[m]
  BY <1>1, EditIs
<1>4. \A m \in Networks : profiles[m].ref \notin freed
  BY DEF Secrets, AnswersAt
<1> QED BY <1>1, <1>2, <1>3, <1>4, LessSecret

LEMMA StaySecret ==
    ASSUME TypeSeq, Secrets,
           UNCHANGED <<profiles, sessions, memory, typed, keychain, doubtful, freed, calls>>
    PROVE  Secrets'
<1>1. Goes({}, <<>>)
  BY SameGoes
<1>2. \A m \in Networks : profiles[m].ref \notin freed
  BY DEF Secrets, AnswersAt
<1> QED BY <1>1, <1>2, LessSecret

LEMMA AcceptsSecret ==
    ASSUME TypeSeq, Secrets, Accepts
    PROVE  Secrets'
<1>1. PICK prompt \in prompts : \E p \in Profile :
              /\ prompt.net \in Networks /\ p.ref = prompt.of.ref
              /\ profiles' = [profiles EXCEPT ![prompt.net] = p]
              /\ sessions' = [sessions EXCEPT ![prompt.net] = [of |-> p, phase |-> "dialling", sent |-> None]]
              /\ calls' = Without({prompt.net})
              /\ freed' = freed \ RefsOf(p)
              /\ UNCHANGED <<memory, keychain, typed, doubtful>>
  BY AcceptsIs
<1>2. PICK p \in Profile :
              /\ profiles' = [profiles EXCEPT ![prompt.net] = p]
              /\ sessions' = [sessions EXCEPT ![prompt.net] = [of |-> p, phase |-> "dialling", sent |-> None]]
              /\ freed' = freed \ RefsOf(p)
  BY <1>1
<1>3. profiles \in Nets /\ sessions \in [Networks -> Session] /\ freed \subseteq Refs
  BY TypeIs DEF TypeShown, TypeGhosts
<1>4. Goes({prompt.net}, <<>>)
  BY <1>1, LessGoes
<1>5. \A m \in Networks : sessions'[m].sent = None \/ sessions'[m] = sessions[m]
  BY <1>2, <1>3
<1>6. \A m \in Networks \ {prompt.net} : profiles'[m] = profiles[m]
  BY <1>2, <1>3 DEF Nets
<1>7. \A m \in Networks : profiles'[m].ref \notin freed'
  <2>1. \A m \in Networks : profiles[m].ref \notin freed
    BY DEF Secrets, AnswersAt
  <2>2. p.ref \notin freed'
    BY <1>2, <1>3, RefsOfIs, NoneIs
  <2>3. profiles'[prompt.net] = p
    BY <1>1, <1>2, <1>3 DEF Nets
  <2> QED BY <1>2, <1>6, <2>1, <2>2, <2>3
<1>8. freed' \subseteq freed
  BY <1>2
<1> QED BY <1>1, <1>4, <1>5, <1>6, <1>7, <1>8, LessSecret

LEMMA ConnectsSecret ==
    ASSUME TypeSeq, Sess, Secrets, NEW n \in Networks, Connects(n)
    PROVE  Secrets'
<1>1. PICK u \in Seq(Commands) :
         /\ Goes({}, u)
         /\ IF sessions[n].of.ref = None THEN u = <<>> ELSE u = <<[op |-> "read", net |-> n]>>
  BY ConnectsIs
<1>2. /\ sessions' = [sessions EXCEPT ![n].phase = "live", ![n].sent = None]
      /\ UNCHANGED <<profiles, memory, typed, keychain, doubtful, freed>>
  BY DEF Connects, kept, ghosts
<1>3. sessions[n].of.ref = profiles[n].ref
  BY SessIs
<1>4. /\ \A r : ~Has(u, SecretCalls(r))
      /\ \A m \in Networks : Has(u, ReadCalls({m})) => profiles[m].ref # None
  <2> DEFINE c == [op |-> "read", net |-> n]
  <2>1. c \in ReadCalls({n}) /\ c.net = n
    BY MakesRead
  <2>2. (sessions[n].of.ref = None /\ u = <<>>) \/ (sessions[n].of.ref # None /\ u = <<c>>)
    BY <1>1
  <2> HIDE DEF c
  <2>3. /\ \A r : c \notin SecretCalls(r)
        /\ \A m : c \in ReadCalls({m}) => m = n
    BY <2>1, Kinds DEF ReadCalls
  <2> QED BY <1>3, <2>2, <2>3, OneHas, EmptyIs
<1>5. \A m \in Networks : sessions'[m].sent = None \/ sessions'[m] = sessions[m]
  <2>1. sessions \in [Networks -> Session]
    BY TypeIs DEF TypeShown
  <2>2. \A m \in Networks \ {n} : sessions'[m] = sessions[m]
    BY <1>2, <2>1
  <2>3. sessions'[n].sent = None
    BY <1>2, <2>1 DEF Session
  <2> QED BY <2>2, <2>3
<1>6. \A m \in Networks : profiles[m].ref \notin freed
  BY DEF Secrets, AnswersAt
<1>7. /\ Goes({}, u) /\ freed' \subseteq freed
      /\ \A m \in Networks \ {} : profiles'[m].ref = profiles[m].ref
      /\ \A m \in Networks : profiles'[m].ref \notin freed'
      /\ \A m \in Networks : Has(u, ReadCalls({m})) => m \notin {} /\ profiles'[m].ref # None
      /\ \A m \in Networks : sessions'[m].phase # "live" \/ sessions'[m].sent = None
                               \/ sessions'[m] = sessions[m]
      /\ UNCHANGED <<memory, typed, keychain, doubtful>>
  BY <1>1, <1>2, <1>4, <1>5, <1>6
<1> QED BY <1>4, <1>7, QuietSecret

\* What is put behind the commands when a password is kept.
LEMMA SetIs ==
    ASSUME NEW r \in Refs, NEW value \in Passwords
    PROVE  /\ <<[op |-> "set", ref |-> r, value |-> value]>> \in Seq(Keys)
           /\ Has(<<[op |-> "set", ref |-> r, value |-> value]>>, SecretCalls(r))
           /\ \A t : t # r => ~Has(<<[op |-> "set", ref |-> r, value |-> value]>>, SecretCalls(t))
           /\ \A S : Has(<<[op |-> "set", ref |-> r, value |-> value]>>, S)
                        => [op |-> "set", ref |-> r, value |-> value] \in S
<1> DEFINE c == [op |-> "set", ref |-> r, value |-> value]
<1>1. c \in SecretCalls(r) /\ c \in Commands /\ c.op = "set"
  BY MakesSet, Kinds
<1> HIDE DEF c
<1>2. c \in Keys
  BY <1>1 DEF Keys
<1>3. \A t : t # r => c \notin SecretCalls(t)
  BY <1>1, Kinds
<1>4. /\ <<c>> \in Seq(Keys) /\ Has(<<c>>, SecretCalls(r))
      /\ \A t : t # r => ~Has(<<c>>, SecretCalls(t))
      /\ \A S : Has(<<c>>, S) => c \in S
  BY <1>1, <1>2, <1>3, OneHas
<1> QED BY <1>4 DEF c

LEMMA PutsSecret ==
    ASSUME TypeSeq, Sess, Owned, Secrets, NEW n \in Networks, NEW p \in Profile, NEW s, NEW doc,
           Puts(n, p, s), Persisting({n}, s, doc, <<>>)
    PROVE  Secrets'
<1>0. /\ profiles' = [profiles EXCEPT ![n] = p] /\ keychain' = keychain
      /\ profiles \in Nets /\ sessions \in [Networks -> Session] /\ p.ref \in Refs \cup {None}
      /\ used \subseteq Refs /\ freed \subseteq Refs
      /\ typed \in [Refs -> Passwords \cup {None}] /\ memory \in [Refs -> Passwords \cup {None}]
  BY TypeIs DEF Puts, kept, TypeShown, TypeGhosts, Profile
<1>1. /\ \A m \in Networks : profiles[m].ref \notin freed
      /\ \A r \in Refs : memory[r] \in {None, typed[r]}
      /\ \A m \in Networks : Sent(m)
  BY DEF Secrets, AnswersAt, SecretAt
<1>2. /\ \A m \in Networks \ {n} : profiles'[m] = profiles[m]
      /\ profiles'[n] = p
  BY <1>0 DEF Nets
<1>3. \/ /\ p.ref \in Refs /\ (p.ref \notin used \/ p.ref = profiles[n].ref)
         /\ \E value \in Passwords : /\ typed' = [typed EXCEPT ![p.ref] = value]
                                     /\ memory' = [memory EXCEPT ![p.ref] = value]
         /\ freed' = freed \ {p.ref} /\ doubtful' = doubtful \ {p.ref}
      \/ /\ p.ref = None \/ p.ref = profiles[n].ref
         /\ UNCHANGED <<typed, memory, freed, doubtful>>
  BY DEF Puts
<1>4. ASSUME NEW m \in Networks, m # n, p.ref \in Refs PROVE profiles[m].ref # p.ref
  <2>1. profiles[m].ref # None => profiles[m].ref \in used
    BY DEF Owned, OwnedBy, Fit
  <2>2. p.ref # None
    BY <1>4, NoneIs
  <2>3. p.ref = profiles[n].ref => profiles[m].ref # p.ref
    BY <1>4, <2>2, OnesOwn
  <2> QED BY <1>3, <2>1, <2>2, <2>3
<1>5. \A m \in Networks : profiles'[m].ref \notin freed'
  <2>1. freed' \subseteq freed
    BY <1>3
  <2>2. p.ref \notin freed'
    BY <1>0, <1>1, <1>3, NoneIs
  <2> QED BY <1>1, <1>2, <2>1, <2>2
<1>6. \A r \in Refs : memory'[r] \in {None, typed'[r]}
  BY <1>0, <1>1, <1>3
<1> DEFINE u == Written(s, doc, <<>>)
<1>7. /\ u \in Seq(Commands) /\ Goes({n}, u)
      /\ \A nets : ~Has(u, ReadCalls(nets))
      /\ \A r, C : C \subseteq SecretCalls(r) => (Has(u, C) <=> Has(s, C))
  BY WrittenIs, EmptyIs DEF Persisting
<1> HIDE DEF u
<1>8. \A r \in Refs : r # p.ref => ~Has(s, SecretCalls(r))
  BY SetIs, EmptyIs DEF Puts
<1>9. \A m \in Networks : m \in {n} \/ ~Has(u, SecretCalls(profiles'[m].ref))
  <2>1. ASSUME NEW m \in Networks, m # n PROVE ~Has(s, SecretCalls(profiles'[m].ref))
    <3>1. p.ref \in Refs => profiles'[m].ref # p.ref
      BY <1>2, <1>4, <2>1
    <3> QED BY <3>1, SetIs, EmptyIs DEF Puts
  <2> QED BY <1>7, <2>1
<1>10. ASSUME NEW r \in Refs PROVE ~Has(u, SecretCalls(r) \ Right(r)')
  <2>1. Has(u, SecretCalls(r) \ Right(r)') <=> Has(s, SecretCalls(r) \ Right(r)')
    BY <1>7
  <2>2. SUFFICES ASSUME Has(s, SecretCalls(r) \ Right(r)') PROVE FALSE
    BY <2>1
  <2>3. s # <<>> /\ Has(s, SecretCalls(r))
    BY <2>2, EmptyIs DEF Has
  <2>4. /\ p.ref \in Refs /\ memory'[p.ref] \in Passwords
        /\ s = <<[op |-> "set", ref |-> p.ref, value |-> memory'[p.ref]]>>
    BY <2>3 DEF Puts
  <2> DEFINE c == [op |-> "set", ref |-> p.ref, value |-> memory'[p.ref]]
  <2>5. r = p.ref
    BY <1>8, <2>3
  <2>6. c.op = "set" /\ c.value = memory'[r] /\ c \in SecretCalls(r)
    BY <2>4, <2>5, MakesSet
  <2>7. memory'[r] = typed'[r]
    BY <1>6, <2>4, <2>5, NoneIs
  <2>8. r \notin freed'
    BY <1>2, <1>5, <2>5
  <2>9. s = <<c>>
    BY <2>4
  <2> HIDE DEF c
  <2>10. c \in Right(r)'
    BY <2>6, <2>7, <2>8 DEF Right
  <2>11. c \in SecretCalls(r) \ Right(r)'
    BY <2>2, <2>9, OneHas
  <2> QED BY <2>10, <2>11
<1>11. ASSUME NEW r \in Refs
       PROVE  \/ Has(u, SecretCalls(r))
              \/ /\ typed'[r] = typed[r] /\ keychain'[r] = keychain[r]
                 /\ r \in freed' => r \in freed
                 /\ r \in doubtful => r \in doubtful'
  <2>1. CASE UNCHANGED <<typed, memory, freed, doubtful>>
    BY <1>0, <2>1
  <2>2. CASE /\ p.ref \in Refs
             /\ \E value \in Passwords : /\ typed' = [typed EXCEPT ![p.ref] = value]
                                         /\ memory' = [memory EXCEPT ![p.ref] = value]
             /\ freed' = freed \ {p.ref} /\ doubtful' = doubtful \ {p.ref}
    <3>1. CASE r # p.ref
      BY <1>0, <2>2, <3>1
    <3>2. CASE r = p.ref
      <4>1. memory'[p.ref] \in Passwords
        BY <1>0, <2>2
      <4>2. p.ref # None /\ memory'[p.ref] # None
        BY <2>2, <4>1, NoneIs
      <4>3. s = <<[op |-> "set", ref |-> p.ref, value |-> memory'[p.ref]]>>
        BY <4>2 DEF Puts
      <4>4. Has(s, SecretCalls(p.ref))
        <5> DEFINE v == memory'[p.ref]
        <5>1. v \in Passwords /\ p.ref \in Refs
          BY <2>2, <4>1
        <5> HIDE DEF v
        <5>2. Has(<<[op |-> "set", ref |-> p.ref, value |-> v]>>, SecretCalls(p.ref))
          BY <5>1, SetIs
        <5> QED BY <4>3, <5>2 DEF v
      <4> QED BY <1>7, <3>2, <4>4
    <3> QED BY <3>1, <3>2
  <2> QED BY <1>3, <2>1, <2>2
<1>12. ASSUME NEW m \in Networks PROVE Sent(m)'
  <2>1. CASE m = n
    <3>1. sessions'[n].sent = None
      BY <1>0 DEF Puts
    <3> QED BY <1>1, <2>1, <3>1, SentSame
  <2>2. CASE m # n
    <3>1. sessions'[m] = sessions[m] /\ sessions[m].of.ref = profiles[m].ref
      BY <1>0, <2>2, SessIs DEF Puts
    <3>2. p.ref \in Refs => sessions[m].of.ref # p.ref
      BY <1>4, <2>2, <3>1
    <3>3. sessions[m].of.ref \in Refs \cup {None}
      BY <1>0, <3>1, ProfileIs DEF Nets
    <3>4. sessions[m].of.ref # None => typed'[sessions[m].of.ref] = typed[sessions[m].of.ref]
      BY <1>0, <1>3, <3>2, <3>3
    <3>5. sessions[m].of.ref \in doubtful => sessions[m].of.ref \in doubtful'
      BY <1>3, <3>2
    <3> QED BY <1>1, <3>1, <3>4, <3>5, SentSame
  <2> QED BY <2>1, <2>2
<1>13. \A m \in Networks \ {n} : profiles'[m].ref = profiles[m].ref
  BY <1>2
<1> QED BY <1>5, <1>6, <1>7, <1>9, <1>10, <1>11, <1>12, <1>13, GoesSecret

LEMMA RemovesSecret ==
    ASSUME TypeSeq, Sess, Owned, Secrets, NEW n \in Networks, RemovesNetwork(n)
    PROVE  Secrets'
<1> DEFINE F == RefsOf(profiles[n])  t == Forget(F)
<1>1. PICK doc : Persisting({n}, <<>>, doc, t)
  BY RemovesIs
<1>2. /\ profiles' = [profiles EXCEPT ![n] = Absent] /\ sessions' = [sessions EXCEPT ![n] = NoSession]
      /\ freed' = freed \cup F
      /\ UNCHANGED <<keychain, memory, typed, doubtful>>
  BY DEF RemovesNetwork, kept
<1>3. profiles \in Nets /\ sessions \in [Networks -> Session] /\ freed \subseteq Refs
  BY TypeIs DEF TypeShown, TypeGhosts
<1>4. F \subseteq Refs /\ F = IF profiles[n].ref = None THEN {} ELSE {profiles[n].ref}
  BY <1>3, RefsOfIs DEF Nets
<1> HIDE DEF F
<1>5. /\ \A r \in F : Has(t, SecretCalls(r))
      /\ \A i \in 1..Len(t) : t[i].op = "forget" /\ t[i].ref \in F
  BY <1>4, ForgetType
<1> HIDE DEF t
<1> DEFINE u == Written(<<>>, doc, t)
<1>6. /\ u \in Seq(Commands) /\ Goes({n}, u)
      /\ \A nets : ~Has(u, ReadCalls(nets))
      /\ \A r, C : C \subseteq SecretCalls(r) => (Has(u, C) <=> Has(t, C))
  BY <1>1, WrittenIs, EmptyIs DEF Persisting
<1> HIDE DEF u
<1>7. \A r : r \notin F => ~Has(t, SecretCalls(r))
  BY <1>5 DEF Has, SecretCalls
<1>8. /\ \A m \in Networks \ {n} : profiles'[m] = profiles[m]
      /\ profiles'[n] = Absent
  BY <1>2, <1>3 DEF Nets
<1>9. /\ \A m \in Networks : profiles[m].ref \notin freed
      /\ \A r \in Refs : memory[r] \in {None, typed[r]}
      /\ \A m \in Networks : Sent(m)
  BY DEF Secrets, AnswersAt, SecretAt
<1>10. \A m \in Networks \ {n} : profiles[m].ref \notin F
  BY <1>4, OnesOwn
<1>11. \A m \in Networks : profiles'[m].ref \notin freed'
  BY <1>2, <1>3, <1>4, <1>8, <1>9, <1>10, AbsentIs, NoneIs
<1>12. \A m \in Networks : m \in {n} \/ ~Has(u, SecretCalls(profiles'[m].ref))
  BY <1>6, <1>7, <1>8, <1>10
<1>13. ASSUME NEW r \in Refs PROVE ~Has(u, SecretCalls(r) \ Right(r)')
  <2>1. \A i \in 1..Len(t) : t[i] \in SecretCalls(r) => t[i] \in Right(r)'
    BY <1>5 DEF Right
  <2>2. ~Has(t, SecretCalls(r) \ Right(r)')
    BY <2>1 DEF Has
  <2> QED BY <1>6, <2>2
<1>14. ASSUME NEW r \in Refs
       PROVE  \/ Has(u, SecretCalls(r))
              \/ /\ typed'[r] = typed[r] /\ keychain'[r] = keychain[r]
                 /\ r \in freed' => r \in freed
                 /\ r \in doubtful => r \in doubtful'
  BY <1>2, <1>5, <1>6
<1>15. ASSUME NEW m \in Networks PROVE Sent(m)'
  <2>1. sessions'[m].sent = None \/ sessions'[m] = sessions[m]
    BY <1>2, <1>3 DEF NoSession
  <2> QED BY <1>2, <1>9, <2>1, SentSame
<1>16. /\ \A r \in Refs : memory'[r] \in {None, typed'[r]}
       /\ \A m \in Networks \ {n} : profiles'[m].ref = profiles[m].ref
  BY <1>2, <1>8, <1>9
<1> QED BY <1>6, <1>11, <1>12, <1>13, <1>14, <1>15, <1>16, GoesSecret

LEMMA ImportsSecret ==
    ASSUME TypeSeq, Secrets, ImportsConfig
    PROVE  Secrets'
<1>1. PICK from \in exported : \E doc :
              /\ from \in Contents
              /\ LET forgotten == RefsIn(profiles, Gone(from.nets)) \ RefsIn(from.nets, Networks)
                 IN  /\ forgotten \subseteq Refs
                     /\ Persisting(Networks, Forget(forgotten), doc, <<>>)
              /\ profiles' = from.nets
              /\ sessions' = [n \in Networks |->
                    IF from.nets[n].there THEN [of |-> from.nets[n], phase |-> "idle", sent |-> None]
                    ELSE NoSession]
              /\ freed' = (freed \cup RefsIn(profiles, Gone(from.nets))) \ RefsIn(from.nets, Networks)
  BY ImportsIs
<1> DEFINE F == RefsIn(profiles, Gone(from.nets)) \ RefsIn(from.nets, Networks)  s == Forget(F)
<1>2. F \subseteq Refs
  BY <1>1
<1>3. PICK doc : Persisting(Networks, s, doc, <<>>)
  BY <1>1
<1>4. UNCHANGED <<keychain, memory, typed, doubtful>>
  BY DEF ImportsConfig, kept
<1>5. from.nets \in Nets /\ freed \subseteq Refs
  BY <1>1, ContentsIs, TypeIs DEF TypeGhosts
<1>6. \A n \in Networks : from.nets[n].ref # None => from.nets[n].ref \in RefsIn(from.nets, Networks)
  BY <1>5, RefsInAre
<1>7. \A n \in Networks : profiles'[n].ref \notin freed'
  <2>1. freed' \subseteq Refs
    <3>1. Gone(from.nets) \subseteq Networks
      BY DEF Gone
    <3>2. RefsIn(profiles, Gone(from.nets)) \subseteq Refs
      BY <3>1, ProfilesType, RefsInAre
    <3> QED BY <1>1, <1>5, <3>2
  <2> QED BY <1>1, <1>6, <2>1, NoneIs
<1>8. \A r : r \in freed' /\ r \notin freed => r \in F
  BY <1>1
<1>9. \A r \in F : r \in freed'
  BY <1>1
<1> HIDE DEF F
<1>10. /\ \A r \in F : Has(s, SecretCalls(r))
       /\ \A i \in 1..Len(s) : s[i].op = "forget" /\ s[i].ref \in F
  BY <1>2, ForgetType
<1> HIDE DEF s
<1> DEFINE u == Written(s, doc, <<>>)
<1>11. /\ u \in Seq(Commands) /\ Goes(Networks, u)
       /\ \A nets : ~Has(u, ReadCalls(nets))
       /\ \A r, C : C \subseteq SecretCalls(r) => (Has(u, C) <=> Has(s, C))
  BY <1>3, WrittenIs, EmptyIs DEF Persisting
<1> HIDE DEF u
<1>12. ASSUME NEW r \in Refs PROVE ~Has(u, SecretCalls(r) \ Right(r)')
  <2>1. \A i \in 1..Len(s) : s[i] \in SecretCalls(r) => s[i] \in Right(r)'
    BY <1>9, <1>10 DEF Right
  <2>2. ~Has(s, SecretCalls(r) \ Right(r)')
    BY <2>1 DEF Has
  <2> QED BY <1>11, <2>2
<1>13. ASSUME NEW r \in Refs
       PROVE  \/ Has(u, SecretCalls(r))
              \/ /\ typed'[r] = typed[r] /\ keychain'[r] = keychain[r]
                 /\ r \in freed' => r \in freed
                 /\ r \in doubtful => r \in doubtful'
  BY <1>4, <1>8, <1>10, <1>11
<1>14. ASSUME NEW n \in Networks PROVE Sent(n)'
  <2>1. sessions'[n].sent = None
    BY <1>1 DEF NoSession
  <2> QED BY <2>1 DEF Sent
<1>15. \A r \in Refs : memory'[r] \in {None, typed'[r]}
  BY <1>4 DEF Secrets, SecretAt
<1> QED BY <1>7, <1>11, <1>12, <1>13, <1>14, <1>15, GoesSecret

\* A command taken that is of no reference.
LEMMA TailSecret ==
    ASSUME TypeSeq, Secrets, calls # <<>>, calls' = Tail(calls),
           UNCHANGED <<profiles, memory, typed, keychain, doubtful, freed>>,
           \A r : Head(calls) \notin SecretCalls(r),
           \A n \in Networks : Sent(n)'
    PROVE  Secrets'
<1>0. calls \in Seq(Commands)
  BY DEF TypeSeq
<1>1. ASSUME NEW r \in Refs PROVE SecretAt(r)'
  <2>1. SecretAt(r)
    BY DEF Secrets
  <2>2. LastIn(calls', SecretCalls(r), Right(r))
    BY <1>0, <2>1, TailLast DEF SecretAt
  <2>3. Has(calls', SecretCalls(r)) <=> Has(calls, SecretCalls(r))
    BY <1>0, TailHas
  <2>4. Right(r)' = Right(r) /\ (Served(r)' <=> Served(r))
    BY DEF Right, Served
  <2> QED BY <2>1, <2>2, <2>3, <2>4 DEF SecretAt
<1>2. ASSUME NEW n \in Networks PROVE AnswersAt(n)'
  <2>1. AnswersAt(n)
    BY DEF Secrets
  <2>2. Before(calls', ReadCalls({n}), SecretCalls(profiles[n].ref))
    BY <1>0, <2>1, TailBefore DEF AnswersAt
  <2>3. Has(calls', ReadCalls({n})) => Has(calls, ReadCalls({n}))
    BY <1>0, TailHas
  <2> QED BY <2>1, <2>2, <2>3 DEF AnswersAt
<1> QED BY <1>1, <1>2 DEF Secrets

LEMMA WritesSecret ==
    ASSUME TypeSeq, Secrets, Writes
    PROVE  Secrets'
<1>1. calls # <<>> /\ calls' = Tail(calls) /\ Head(calls) \in Commands /\ Head(calls).op = "write"
  BY CallIs DEF Writes
<1>2. \A r : Head(calls) \notin SecretCalls(r)
  BY <1>1 DEF SecretCalls
<1>3. UNCHANGED <<profiles, sessions, memory, typed, keychain, doubtful, freed>>
  BY DEF Writes, shown
<1>4. \A n \in Networks : Sent(n)'
  BY <1>3 DEF Secrets, AnswersAt, Sent
<1> QED BY <1>1, <1>2, <1>3, <1>4, TailSecret

\* The keychain takes one, or is not known to.
LEMMA TakesSecret ==
    ASSUME TypeSeq, Secrets, Sets \/ Forgets
    PROVE  Secrets'
<1>0. /\ calls # <<>> /\ calls' = Tail(calls) /\ calls \in Seq(Commands)
      /\ Head(calls) \in Commands /\ Head(calls).ref \in Refs /\ Head(calls) \in SecretCalls(Head(calls).ref)
      /\ \/ Sets /\ Head(calls).op = "set"
         \/ Forgets /\ Head(calls).op = "forget"
  BY CallIs, CommandIs DEF Sets, Forgets, SecretCalls
<1> DEFINE c == Head(calls)  ref == c.ref
<1>1. /\ \/ Sets /\ keychain' = [keychain EXCEPT ![ref] = c.value] /\ UNCHANGED doubtful
         \/ Forgets /\ keychain' = [keychain EXCEPT ![ref] = None] /\ UNCHANGED doubtful
         \/ doubtful' = doubtful \cup {ref} /\ UNCHANGED keychain
      /\ UNCHANGED <<profiles, sessions, memory, typed, freed>>
  BY DEF Sets, Forgets, shown
<1>2. keychain \in [Refs -> Passwords \cup {None}]
  BY TypeIs DEF TypeKept
<1>3. c \in SecretCalls(ref) /\ \A r : r # ref => c \notin SecretCalls(r)
  BY <1>0, Kinds
<1>4. ASSUME NEW r \in Refs PROVE SecretAt(r)'
  <2>1. SecretAt(r)
    BY DEF Secrets
  <2>2. /\ LastIn(calls', SecretCalls(r), Right(r))
        /\ c \in SecretCalls(r) /\ ~Has(calls', SecretCalls(r)) => c \in Right(r)
    BY <1>0, <2>1, TailLast DEF SecretAt
  <2>3. Has(calls, SecretCalls(r)) <=> c \in SecretCalls(r) \/ Has(calls', SecretCalls(r))
    BY <1>0, TailHas
  <2>4. Right(r)' = Right(r)
    BY <1>1 DEF Right
  <2>5. r \notin doubtful' => Has(calls', SecretCalls(r)) \/ Served(r)'
    <3>1. CASE r # ref
      <4>1. keychain'[r] = keychain[r] /\ (r \notin doubtful' => r \notin doubtful)
        BY <1>1, <1>2, <3>1
      <4>2. Served(r)' <=> Served(r)
        BY <1>1, <4>1 DEF Served
      <4> QED BY <1>3, <2>1, <2>3, <3>1, <4>1, <4>2 DEF SecretAt
    <3>2. CASE r = ref
      <4>1. SUFFICES ASSUME r \notin doubtful', ~Has(calls', SecretCalls(r)) PROVE Served(r)'
        OBVIOUS
      <4>2. c \in Right(r)
        BY <1>3, <2>2, <3>2, <4>1
      <4>3. CASE Sets /\ keychain' = [keychain EXCEPT ![ref] = c.value]
        <5>1. c.op = "set"
          BY <4>3, CallIs DEF Sets
        <5>2. keychain'[r] = typed[r] /\ r \notin freed
          BY <1>2, <3>2, <4>2, <4>3, <5>1 DEF Right
        <5> QED BY <1>1, <5>2 DEF Served
      <4>4. CASE Forgets /\ keychain' = [keychain EXCEPT ![ref] = None]
        BY <1>1, <1>2, <3>2, <4>4 DEF Served
      <4> QED BY <1>1, <3>2, <4>1, <4>3, <4>4
    <3> QED BY <3>1, <3>2
  <2>6. memory'[r] \in {None, typed'[r]}
    BY <1>1, <2>1 DEF SecretAt
  <2> QED BY <2>2, <2>4, <2>5, <2>6 DEF SecretAt
<1>5. ASSUME NEW n \in Networks PROVE AnswersAt(n)'
  <2>1. AnswersAt(n)
    BY DEF Secrets
  <2>2. Before(calls', ReadCalls({n}), SecretCalls(profiles[n].ref))
    BY <1>0, <2>1, TailBefore DEF AnswersAt
  <2>3. Has(calls', ReadCalls({n})) => Has(calls, ReadCalls({n}))
    BY <1>0, TailHas
  <2>4. Sent(n)'
    <3>1. \A r : r \in doubtful => r \in doubtful'
      BY <1>1
    <3> QED BY <1>1, <2>1, <3>1, SentSame DEF AnswersAt
  <2> QED BY <1>1, <2>1, <2>2, <2>3, <2>4 DEF AnswersAt
<1> QED BY <1>4, <1>5 DEF Secrets

\* A network is answered with the password typed for it, and nothing that
\* changes it is still to come.
LEMMA ResolvesIs ==
    ASSUME TypeSeq, Sess, Secrets, Resolves
    PROVE  \E n \in Networks :
              /\ calls # <<>> /\ calls' = Tail(calls) /\ Head(calls) \in ReadCalls({n})
              /\ sessions[n].of.ref \in Refs
              /\ \/ sessions' = sessions
                 \/ \E value \in Passwords \cup {None} :
                       /\ sessions' = [sessions EXCEPT ![n].sent = value]
                       /\ sessions[n].of.ref \in doubtful
                             \/ value \in {None, typed[sessions[n].of.ref]}
              /\ UNCHANGED <<profiles, identity, settings, savedSettings, memory, prompts, exported>>
              /\ UNCHANGED <<file, keychain, typed, used, freed, asked, removed, lost, apart, doubtful, acts>>
<1>0. /\ calls # <<>> /\ calls' = Tail(calls) /\ calls \in Seq(Commands)
      /\ Head(calls) \in Commands /\ Head(calls).op = "read" /\ Head(calls).net \in Networks
  BY CallIs, CommandIs DEF Resolves
<1> DEFINE n == Head(calls).net  r == sessions[n].of.ref
<1>1. /\ \/ sessions' = [sessions EXCEPT ![n].sent = IF keychain[r] # None THEN keychain[r] ELSE memory[r]]
         \/ sessions' = sessions
      /\ UNCHANGED <<profiles, identity, settings, savedSettings, memory, prompts, exported>>
      /\ UNCHANGED <<file, keychain, typed, used, freed, asked, removed, lost, apart, doubtful, acts>>
  BY DEF Resolves, kept, ghosts
<1>2. Head(calls) \in ReadCalls({n}) /\ n \in Networks
  BY <1>0 DEF ReadCalls
<1>3. Has(calls, ReadCalls({n})) /\ \A t : Head(calls) \notin SecretCalls(t)
  BY <1>0, <1>2, TailHas, Kinds
<1>4. AnswersAt(n) /\ r = profiles[n].ref
  BY <1>2, SessIs DEF Secrets
<1>5. r \in Refs
  BY <1>2, <1>3, <1>4, ProfilesType, ProfileIs DEF AnswersAt
<1>6. ~Has(calls, SecretCalls(r))
  <2>1. ~Has(calls', SecretCalls(r))
    BY <1>0, <1>2, <1>4, TailBefore DEF AnswersAt
  <2> QED BY <1>0, <1>3, <2>1, TailHas
<1>7. SecretAt(r)
  BY <1>5 DEF Secrets
<1>8. /\ keychain[r] \in Passwords \cup {None} /\ memory[r] \in Passwords \cup {None}
      /\ r \notin doubtful => keychain[r] \in {None, typed[r]}
      /\ memory[r] \in {None, typed[r]}
  <2>1. keychain \in [Refs -> Passwords \cup {None}] /\ memory \in [Refs -> Passwords \cup {None}]
    BY TypeIs DEF TypeKept, TypeShown
  <2> QED BY <1>5, <1>6, <1>7, <2>1 DEF SecretAt, Served
<1> HIDE DEF n, r
<1>9. \/ sessions' = sessions
      \/ \E value \in Passwords \cup {None} :
            /\ sessions' = [sessions EXCEPT ![n].sent = value]
            /\ r \in doubtful \/ value \in {None, typed[r]}
  <2> DEFINE value == IF keychain[r] # None THEN keychain[r] ELSE memory[r]
  <2>1. value \in Passwords \cup {None} /\ (r \in doubtful \/ value \in {None, typed[r]})
    BY <1>8
  <2>2. sessions' = [sessions EXCEPT ![n].sent = value] \/ sessions' = sessions
    BY <1>1
  <2> HIDE DEF value
  <2> QED BY <2>1, <2>2
<1> QED BY <1>0, <1>1, <1>2, <1>5, <1>9 DEF r

LEMMA ResolvesKeeps ==
    ASSUME TypeSeq, Sess, Secrets, Resolves
    PROVE  TypeSeq' /\ Sess' /\ Secrets'
<1>1. PICK n \in Networks :
              /\ calls # <<>> /\ calls' = Tail(calls) /\ Head(calls) \in ReadCalls({n})
              /\ sessions[n].of.ref \in Refs
              /\ \/ sessions' = sessions
                 \/ \E value \in Passwords \cup {None} :
                       /\ sessions' = [sessions EXCEPT ![n].sent = value]
                       /\ sessions[n].of.ref \in doubtful
                             \/ value \in {None, typed[sessions[n].of.ref]}
              /\ UNCHANGED <<profiles, identity, settings, savedSettings, memory, prompts, exported>>
              /\ UNCHANGED <<file, keychain, typed, used, freed, asked, removed, lost, apart, doubtful, acts>>
  BY ResolvesIs
<1>2. TypeShown /\ TypeKept /\ TypeGhosts /\ calls \in Seq(Commands)
  BY TypeIs
<1>3. /\ sessions' \in [Networks -> Session]
      /\ \A m \in Networks \ {n} : sessions'[m] = sessions[m]
      /\ sessions'[n].of = sessions[n].of /\ sessions'[n].phase = sessions[n].phase
  <2>1. CASE sessions' = sessions
    BY <1>2, <2>1 DEF TypeShown
  <2>2. CASE \E value \in Passwords \cup {None} : sessions' = [sessions EXCEPT ![n].sent = value]
    <3>1. PICK value \in Passwords \cup {None} : sessions' = [sessions EXCEPT ![n].sent = value]
      BY <2>2
    <3>2. sessions[n] \in Session /\ sessions \in [Networks -> Session]
      BY <1>2 DEF TypeShown
    <3> DEFINE s == [sessions[n] EXCEPT !.sent = value]
    <3>3. s \in Session /\ s.of = sessions[n].of /\ s.phase = sessions[n].phase
      BY <3>2 DEF Session
    <3>4. sessions' = [sessions EXCEPT ![n] = s]
      BY <3>1
    <3> HIDE DEF s
    <3> QED BY <3>2, <3>3, <3>4
  <2> QED BY <1>1, <2>1, <2>2
<1>4. TypeSeq'
  <2>1. TypeShown' /\ TypeKept' /\ TypeGhosts'
    BY <1>1, <1>2, <1>3 DEF TypeShown, TypeKept, TypeGhosts
  <2>2. calls' \in Seq(Commands)
    BY <1>1, <1>2
  <2> QED BY <2>1, <2>2, TypeNext
<1>5. Sess'
  <2>1. sessions[n].phase \in {"dialling", "live"} => n \in asked
    BY DEF Sess, SessAt
  <2> QED BY <1>1, <1>3, <2>1, EditsSess
<1>6. ASSUME NEW m \in Networks PROVE Sent(m)'
  <2>1. Sent(m)
    BY DEF Secrets, AnswersAt
  <2>2. CASE sessions'[m] = sessions[m]
    BY <1>1, <2>1, <2>2, SentSame
  <2>3. CASE m = n /\ sessions' # sessions
    <3>1. PICK value \in Passwords \cup {None} :
             /\ sessions' = [sessions EXCEPT ![n].sent = value]
             /\ sessions[n].of.ref \in doubtful \/ value \in {None, typed[sessions[n].of.ref]}
      BY <1>1, <2>3
    <3>2. sessions'[n].sent = value
      BY <1>2, <3>1 DEF TypeShown, Session
    <3>3. sessions[n].of.ref # None
      BY <1>1, NoneIs
    <3> QED BY <1>1, <1>3, <2>3, <3>1, <3>2, <3>3 DEF Sent
  <2> QED BY <1>3, <2>2, <2>3
<1>7. \A r : Head(calls) \notin SecretCalls(r)
  BY <1>1, Kinds
<1>8. Secrets'
  BY <1>1, <1>6, <1>7, TailSecret
<1> QED BY <1>4, <1>5, <1>8

\* A session has the reference its profile has.
LEMMA RefsAgree ==
    TypeSeq /\ Sess => \A n \in Networks : sessions[n].of.ref = profiles[n].ref
BY SessIs

LEMMA RefsAgreeNext ==
    (TypeSeq /\ Sess => \A n \in Networks : sessions[n].of.ref = profiles[n].ref)'
BY RefsAgree, PTL

LEMMA ReadsSecret ==
    ASSUME TypeSeq, Sess, Sess', TypeSeq', Stored, Secrets, Reads
    PROVE  Secrets'
<1>1. /\ freed' = freed \ RefsIn(profiles', Networks)
      /\ UNCHANGED <<memory, keychain, typed, doubtful>>
      /\ \A n \in Networks : sessions'[n].sent = None \/ sessions'[n] = sessions[n]
  <2>1. PICK found \in Contents :
              /\ sessions' = [n \in Networks |->
                    IF found.nets[n].there THEN [of |-> found.nets[n], phase |-> "idle", sent |-> None]
                    ELSE sessions[n]]
              /\ freed' = freed \ RefsIn(profiles', Networks)
              /\ UNCHANGED <<memory, keychain, typed, doubtful>>
    BY ReadsIs
  <2> QED BY <2>1
<1>2. PICK gone, w :
              /\ w \in Seq(Commands) /\ Thinned(w, calls, ReadCalls(gone)) /\ calls' = Tail(w) /\ w # <<>>
              /\ gone \subseteq Networks /\ \A n \in Networks \ gone : sessions'[n] = sessions[n]
              /\ Head(w) \in LoadCalls /\ Has(calls, LoadCalls) /\ ~Has(calls', LoadCalls)
              /\ Before(w, Commands, LoadCalls)
              /\ \A C : Has(calls', C) => Has(calls, C)
  BY LoadFirst
<1>0. calls \in Seq(Commands)
  BY DEF TypeSeq
<1>3. \A n \in Networks \ gone : profiles'[n].ref = profiles[n].ref
  <2>1. \A n \in Networks : sessions[n].of.ref = profiles[n].ref
    BY SessIs
  <2>2. \A n \in Networks : sessions'[n].of.ref = profiles'[n].ref
    BY RefsAgreeNext
  <2> QED BY <1>2, <2>1, <2>2
<1>4. \A n \in gone : ~Has(calls', ReadCalls({n}))
  <2>1. ~Has(w, ReadCalls(gone))
    BY <1>0, <1>2, ThinnedGone
  <2>2. ~Has(calls', ReadCalls(gone))
    BY <1>2, <2>1, TailHas
  <2>3. \A n \in gone : ReadCalls({n}) \subseteq ReadCalls(gone)
    BY DEF ReadCalls
  <2> QED BY <2>2, <2>3 DEF Has
<1>5. profiles' \in Nets /\ freed \subseteq Refs /\ calls' \in Seq(Commands)
  <2>1. calls' \in Seq(Commands)
    BY <1>2
  <2>2. profiles' \in Nets
    BY DEF TypeSeq, TypeOK, Nets
  <2> QED BY <2>1, <2>2, TypeIs DEF TypeGhosts
<1>6. ASSUME NEW r \in Refs PROVE SecretAt(r)'
  <2>1. SecretAt(r)
    BY DEF Secrets
  <2> DEFINE C == SecretCalls(r)  D == Right(r)'
  <2>2. LastIn(calls, C, D)
    BY <1>1, <2>1, RightLast DEF SecretAt
  <2>3. \A c \in C : c \notin ReadCalls(gone) /\ c \notin LoadCalls
    BY Kinds
  <2>4. LastIn(calls', C, D) /\ (Has(calls, C) => Has(calls', C))
    <3> HIDE DEF C, D
    <3>1. LastIn(w, C, D)
      BY <1>0, <1>2, <2>2, <2>3, ThinnedLast
    <3>2. Has(calls, C) => Has(w, C)
      BY <1>0, <1>2, <2>3, ThinnedHas
    <3>3. Head(w) \notin C
      BY <1>2, <2>3
    <3> QED BY <1>2, <3>1, <3>2, <3>3, TailLast, TailHas
  <2>5. Served(r) => Served(r)'
    BY <1>1 DEF Served
  <2> QED BY <1>1, <2>1, <2>4, <2>5 DEF SecretAt
<1>7. ASSUME NEW n \in Networks PROVE AnswersAt(n)'
  <2>1. AnswersAt(n)
    BY DEF Secrets
  <2>2. profiles'[n].ref \notin freed'
    <3>1. profiles'[n].ref # None => profiles'[n].ref \in RefsIn(profiles', Networks)
      <4> DEFINE nets == profiles'
      <4>1. nets \in Nets
        BY <1>5
      <4> HIDE DEF nets
      <4>2. nets[n].ref # None => nets[n].ref \in RefsIn(nets, Networks)
        BY <4>1, RefsInAre
      <4> QED BY <4>2 DEF nets
    <3> QED BY <1>1, <1>5, <3>1, NoneIs
  <2>3. Sent(n)'
    BY <1>1, <2>1, SentSame DEF AnswersAt
  <2>4. CASE n \in gone
    <3>1. ~Has(calls', ReadCalls({n}))
      BY <1>4, <2>4
    <3>2. Before(calls', ReadCalls({n}), SecretCalls(profiles'[n].ref))
      BY <1>5, <3>1, NoneBefore
    <3> QED BY <2>2, <2>3, <3>1, <3>2 DEF AnswersAt
  <2>5. CASE n \notin gone
    <3> DEFINE A == ReadCalls({n})  B == SecretCalls(profiles[n].ref)
    <3>1. profiles'[n].ref = profiles[n].ref /\ Before(calls, A, B)
      BY <1>3, <2>1, <2>5 DEF AnswersAt
    <3> HIDE DEF A, B
    <3>2. Before(w, A, B)
      BY <1>0, <1>2, <3>1, ThinnedBefore
    <3>3. Before(calls', A, B)
      BY <1>2, <3>2, TailBefore
    <3> QED BY <1>2, <2>1, <2>2, <2>3, <3>1, <3>3 DEF AnswersAt, A, B
  <2> QED BY <2>4, <2>5
<1> QED BY <1>6, <1>7 DEF Secrets

\* What was under way may have been done or not.
LEMMA QuitsSecret ==
    ASSUME TypeSeq, Secrets, Quits
    PROVE  Secrets'
<1>1. /\ profiles' = [n \in Networks |-> Absent] /\ sessions' = [n \in Networks |-> NoSession]
      /\ memory' = [ref \in Refs |-> None]
      /\ calls' = <<[op |-> "load"]>>
      /\ doubtful' = doubtful \cup
          {calls[i].ref : i \in {j \in DOMAIN calls : calls[j].op \in {"set", "forget"}}}
      /\ UNCHANGED <<keychain, typed, freed>>
  BY DEF Quits, kept
<1>2. calls \in Seq(Commands) /\ freed \subseteq Refs
  BY TypeIs DEF TypeGhosts
<1>3. \A r, nets : ~Has(calls', SecretCalls(r)) /\ ~Has(calls', ReadCalls(nets))
  BY <1>1, OneHas, MakesLoad, Kinds
<1>4. ASSUME NEW r \in Refs PROVE SecretAt(r)'
  <2>1. SecretAt(r)
    BY DEF Secrets
  <2>2. Has(calls, SecretCalls(r)) => r \in doubtful'
    <3>1. \A i \in 1..Len(calls) : calls[i] \in SecretCalls(r)
              => calls[i].op \in {"set", "forget"} /\ calls[i].ref = r
      BY DEF SecretCalls
    <3>2. DOMAIN calls = 1..Len(calls)
      BY <1>2
    <3> QED BY <1>1, <3>1, <3>2 DEF Has
  <2>3. r \notin doubtful' => r \notin doubtful
    BY <1>1
  <2>4. Served(r) => Served(r)'
    BY <1>1 DEF Served
  <2>5. LastIn(calls', SecretCalls(r), Right(r)')
    BY <1>3 DEF LastIn, Has
  <2>6. memory'[r] = None
    BY <1>1
  <2> QED BY <2>1, <2>2, <2>3, <2>4, <2>5, <2>6 DEF SecretAt
<1>5. ASSUME NEW n \in Networks PROVE AnswersAt(n)'
  <2>1. profiles'[n].ref \notin freed'
    BY <1>1, <1>2, AbsentIs, NoneIs
  <2>2. Before(calls', ReadCalls({n}), SecretCalls(profiles'[n].ref))
    BY <1>3 DEF Before, Has
  <2>3. Sent(n)'
    BY <1>1 DEF Sent, NoSession
  <2> QED BY <1>3, <2>1, <2>2, <2>3 DEF AnswersAt
<1> QED BY <1>4, <1>5 DEF Secrets

----------------------------------------------------------------------------
(* The parts together.                                                     *)

Inv == TypeSeq /\ Sess /\ Owned /\ Stored /\ Lasts /\ Secrets

LEMMA InvInit ==
    ASSUME Init
    PROVE  Inv
<1>1. TypeSeq
  BY InitType
<1>2. /\ profiles = [n \in Networks |-> Absent] /\ sessions = [n \in Networks |-> NoSession]
      /\ calls = <<[op |-> "load"]>> /\ file = Blank /\ keychain = [r \in Refs |-> None]
      /\ memory = [r \in Refs |-> None]
      /\ typed = keychain /\ used = {} /\ freed = {} /\ prompts = {} /\ exported = {}
      /\ identity = Loading /\ apart = {}
  BY DEF Init
<1>3. /\ Has(calls, LoadCalls) /\ ~Has(calls, WriteCalls)
      /\ \A r, nets : ~Has(calls, SecretCalls(r)) /\ ~Has(calls, ReadCalls(nets))
      /\ \A A, B : Before(calls, A, B)
  <2>1. [op |-> "load"] \in LoadCalls
    BY MakesLoad
  <2>2. \A A, B : Before(<<[op |-> "load"]>>, A, B)
    BY DEF Before
  <2> QED BY <1>2, <2>1, <2>2, OneHas, Kinds
<1>4. \A n \in Networks : ~There(n) /\ profiles[n].ref = None
  BY <1>2, AbsentIs DEF There
<1>5. Sess
  <2>1. ASSUME NEW n \in Networks PROVE SessAt(n)
    <3>1. sessions[n] = NoSession
      BY <1>2
    <3> QED BY <1>4, <3>1 DEF SessAt, NoSession, None
  <2> QED BY <2>1 DEF Sess
<1>6. Owned
  <2> DEFINE own == [r \in Refs |-> None]
  <2>1. own \in Owner
    BY DEF Owner
  <2>2. \A n \in Networks : file.nets[n].ref = None
    BY <1>2, AbsentIs DEF Blank
  <2>3. ~Has(calls, Misfits(own, used))
    BY <1>3 DEF Has, Misfits
  <2> HIDE DEF own
  <2>4. OwnedBy(own)
    BY <1>2, <1>4, <2>2, <2>3 DEF OwnedBy, Fit
  <2> QED BY <2>1, <2>4 DEF Owned
<1>7. Stored
  BY <1>2, <1>3, <1>4 DEF Stored, Untouched, Loaded
<1>8. Lasts
  <2>1. \A n \in Networks : ~file.nets[n].there
    BY <1>2, AbsentIs DEF Blank
  <2>2. \A n : ~Has(calls, With(n))
    BY <1>3 DEF Has, With
  <2> QED BY <1>3, <2>1, <2>2 DEF Lasts, LastsAt
<1>9. Secrets
  <2>1. ASSUME NEW r \in Refs PROVE SecretAt(r)
    <3>1. LastIn(calls, SecretCalls(r), Right(r))
      BY <1>3 DEF LastIn, Has
    <3> QED BY <1>2, <3>1 DEF SecretAt, Served
  <2>2. ASSUME NEW n \in Networks PROVE AnswersAt(n)
    <3>1. sessions[n].phase # "live"
      BY <1>2 DEF NoSession, None
    <3> QED BY <1>2, <1>3, <1>4, <3>1 DEF AnswersAt, Sent
  <2> QED BY <2>1, <2>2 DEF Secrets
<1> QED BY <1>1, <1>5, <1>6, <1>7, <1>8, <1>9 DEF Inv

\* A network added, or saved.
LEMMA PutsKeeps ==
    ASSUME Inv, NEW n \in Networks, AddsNetwork(n) \/ SavesNetwork(n)
    PROVE  Inv'
<1>1. TypeSeq /\ Sess /\ Owned /\ Stored /\ Lasts /\ Secrets
  BY DEF Inv
<1>2. PICK p \in Profile : \E s, doc :
              Puts(n, p, s) /\ Persisting({n}, s, doc, <<>>) /\ acts' \in 0..Acts
  BY <1>1, AddsIs, SavesIs
<1>3. PICK s, doc : Puts(n, p, s) /\ Persisting({n}, s, doc, <<>>) /\ acts' \in 0..Acts
  BY <1>2
<1>4. TypeSeq'
  BY <1>1, <1>3, PutsType
<1>5. Sess'
  BY <1>1, <1>3, PutsSess
<1>6. Owned'
  BY <1>1, <1>3, PutsOwned
<1>7. Parts /\ identity' = identity /\ file' = file /\ removed' = removed
      /\ profiles' = [profiles EXCEPT ![n] = p]
  BY <1>3 DEF Puts, kept
<1>8. Stored'
  BY <1>1, <1>3, <1>7, PersistingStored
<1>9. \A m \in Networks : There(m) => There(m)'
  <2>1. profiles \in [Networks -> Profile \cup {Absent}]
    BY <1>1, TypeIs DEF TypeShown, Nets
  <2> QED BY <1>7, <2>1, AbsentIs DEF There
<1>10. Lasts'
  BY <1>1, <1>3, <1>7, <1>9, PersistingLasts
<1>11. Secrets'
  BY <1>1, <1>3, PutsSecret
<1> QED BY <1>4, <1>5, <1>6, <1>8, <1>10, <1>11 DEF Inv

LEMMA RemovesKeeps ==
    ASSUME Inv, NEW n \in Networks, RemovesNetwork(n)
    PROVE  Inv'
<1>1. TypeSeq /\ Sess /\ Owned /\ Stored /\ Lasts /\ Secrets
  BY DEF Inv
<1>2. PICK doc : Persisting({n}, <<>>, doc, Forget(RefsOf(profiles[n])))
  BY <1>1, RemovesIs
<1>3. Parts /\ identity' = identity /\ file' = file /\ removed' = removed \cup {n}
      /\ profiles' = [profiles EXCEPT ![n] = Absent]
  BY DEF RemovesNetwork, kept
<1>4. Stored'
  BY <1>1, <1>2, <1>3, PersistingStored
<1>5. \A m \in Networks : m \notin removed' /\ There(m) => There(m)'
  <2>1. profiles \in [Networks -> Profile \cup {Absent}]
    BY <1>1, TypeIs DEF TypeShown, Nets
  <2> QED BY <1>3, <2>1 DEF There
<1>6. Lasts'
  BY <1>1, <1>2, <1>3, <1>5, PersistingLasts
<1> QED BY <1>1, <1>4, <1>6, RemovesType, RemovesSess, RemovesOwned, RemovesSecret DEF Inv

LEMMA ImportsKeeps ==
    ASSUME Inv, ImportsConfig
    PROVE  Inv'
<1>1. TypeSeq /\ Sess /\ Owned /\ Stored /\ Lasts /\ Secrets
  BY DEF Inv
<1>2. PICK from \in exported : \E doc :
          /\ from \in Contents
          /\ \E s : Persisting(Networks, s, doc, <<>>)
          /\ profiles' = from.nets /\ identity' = from.identity
          /\ removed' = removed \cup Gone(from.nets)
  BY <1>1, ImportsIs
<1>3. PICK doc, s : Persisting(Networks, s, doc, <<>>)
  BY <1>2
<1>4. Parts /\ file' = file
  BY DEF ImportsConfig, kept
<1>5. identity' # Loading
  BY <1>2, ContentsIs DEF Loading, None
<1>6. Stored'
  BY <1>1, <1>3, <1>4, <1>5, PersistingStored
<1>7. \A m \in Networks : m \notin removed' /\ There(m) => There(m)'
  BY <1>2 DEF There, Gone
<1>8. removed \subseteq removed'
  BY <1>2
<1>9. Lasts'
  BY <1>1, <1>3, <1>4, <1>7, <1>8, PersistingLasts
<1> QED BY <1>1, <1>6, <1>9, ImportsType, ImportsSess, ImportsOwned, ImportsSecret DEF Inv

\* What is saved without a network being registered.
LEMMA SavesKeep ==
    ASSUME Inv,
           \/ \E n \in Networks : TogglesAutojoin(n)
           \/ SavesIdentity
           \/ SavesSettings
    PROVE  Inv'
<1>1. TypeSeq /\ Sess /\ Owned /\ Stored /\ Lasts /\ Secrets
  BY DEF Inv
<1>2. PICK doc : Persisting({}, <<>>, doc, <<>>)
  BY <1>1, TogglesIs, IdentityIs, SettingsIs
<1>3. Parts /\ file' = file /\ removed' = removed
  BY DEF TogglesAutojoin, SavesIdentity, SavesSettings, kept
<1>4. identity' = Loading => identity = Loading
  BY DEF TogglesAutojoin, SavesIdentity, SavesSettings, Loading
<1>5. \A m \in Networks : There(m) => There(m)'
  <2>1. CASE \E n \in Networks : TogglesAutojoin(n)
    BY <1>1, <2>1, TogglesIs
  <2>2. CASE SavesIdentity \/ SavesSettings
    BY <2>2 DEF SavesIdentity, SavesSettings, There
  <2> QED BY <2>1, <2>2
<1>6. TypeSeq'
  BY <1>1, TogglesType, IdentityType, SettingsType
<1>7. Sess'
  <2>1. CASE \E n \in Networks : TogglesAutojoin(n)
    BY <1>1, <2>1, TogglesSess
  <2>2. CASE SavesIdentity \/ SavesSettings
    <3>1. profiles' = profiles /\ sessions' = sessions /\ asked' = asked
      BY <2>2 DEF SavesIdentity, SavesSettings
    <3> QED BY <1>1, <3>1, SameSess
  <2> QED BY <2>1, <2>2
<1>8. Owned'
  BY <1>1, SavesOwned
<1>9. Stored'
  BY <1>1, <1>2, <1>3, <1>4, PersistingStored
<1>10. Lasts'
  BY <1>1, <1>2, <1>3, <1>5, PersistingLasts
<1>11. Secrets'
  BY <1>1, SavesSecret
<1> QED BY <1>6, <1>7, <1>8, <1>9, <1>10, <1>11 DEF Inv

\* A step that saves nothing keeps what is to be saved.
LEMMA QuietKeeps ==
    ASSUME TypeSeq, Stored, Lasts, NEW gone, NEW u \in Seq(Commands), Goes(gone, u),
           ~Has(u, LoadCalls), ~Has(u, WriteCalls),
           UNCHANGED <<identity, file, removed, lost>>, apart \subseteq apart',
           \A n \in Networks \ apart' : profiles'[n] = profiles[n],
           \A n \in Networks : There(n) => There(n)',
           Untouched => prompts' = {} /\ \A n \in Networks : ~There(n)'
    PROVE  Stored' /\ Lasts'
<1>1. Stored'
  BY QuietStored
<1>2. Lasts'
  BY GoesLasts
<1> QED BY <1>1, <1>2

LEMMA ReconnectsKeeps ==
    ASSUME Inv, NEW n \in Networks, Reconnects(n)
    PROVE  Inv'
<1>1. TypeSeq /\ Sess /\ Owned /\ Stored /\ Lasts /\ Secrets
  BY DEF Inv
<1>2. TypeSeq' /\ profiles' = profiles
  BY <1>1, ReconnectsType
<1>3. /\ UNCHANGED <<identity, file, removed, lost, apart, prompts, exported, used>>
      /\ calls' = Without({n})
  BY DEF Reconnects, kept
<1>4. <<>> \in Seq(Commands) /\ Goes({n}, <<>>)
  BY <1>1, <1>3, LessGoes
<1>5. Stored' /\ Lasts'
  <2>1. \A m \in Networks : There(m) <=> There(m)'
    BY <1>2 DEF There
  <2>2. Untouched => prompts' = {} /\ \A m \in Networks : ~There(m)'
    BY <1>3, <2>1 DEF Untouched
  <2> QED BY <1>1, <1>2, <1>3, <1>4, <2>1, <2>2, QuietKeeps, EmptyIs
<1>6. Owned'
  BY <1>1, <1>2, <1>3, <1>4, LessOwned
<1> QED BY <1>1, <1>2, <1>5, <1>6, ReconnectsSess, ReconnectsSecret DEF Inv

LEMMA DisconnectsKeeps ==
    ASSUME Inv, NEW n \in Networks, Disconnects(n) \/ Drops(n)
    PROVE  Inv'
<1>1. TypeSeq /\ Sess /\ Owned /\ Stored /\ Lasts /\ Secrets
  BY DEF Inv
<1>2. /\ UNCHANGED <<profiles, identity, file, removed, lost, apart, prompts, exported, used>>
      /\ calls' = calls \/ calls' = Without({n})
  BY DEF Disconnects, Drops, kept, ghosts
<1>3. PICK gone : <<>> \in Seq(Commands) /\ Goes(gone, <<>>)
  BY <1>1, <1>2, LessGoes, SameGoes
<1>4. Stored' /\ Lasts'
  <2>1. \A m \in Networks : There(m) <=> There(m)'
    BY <1>2 DEF There
  <2>2. Untouched => prompts' = {} /\ \A m \in Networks : ~There(m)'
    BY <1>2, <2>1 DEF Untouched
  <2> QED BY <1>1, <1>2, <1>3, <2>1, <2>2, QuietKeeps, EmptyIs
<1>5. Owned'
  BY <1>1, <1>2, <1>3, LessOwned
<1>6. TypeSeq'
  BY <1>1, DisconnectsType, DropsType
<1>7. Sess'
  BY <1>1, DisconnectsSess, DropsSess
<1>8. Secrets'
  BY <1>1, DisconnectsSecret
<1> QED BY <1>4, <1>5, <1>6, <1>7, <1>8 DEF Inv

LEMMA FailsKeeps ==
    ASSUME Inv, NEW n \in Networks, FailsVerification(n)
    PROVE  Inv'
<1>1. TypeSeq /\ Sess /\ Owned /\ Stored /\ Lasts /\ Secrets
  BY DEF Inv
<1>2. UNCHANGED <<profiles, identity, file, removed, lost, apart, calls>>
  BY DEF FailsVerification, kept, ghosts
<1>3. Sess' /\ sessions[n].of \in Profile /\ There(n)
  BY <1>1, FailsSess
<1>4. <<>> \in Seq(Commands) /\ Goes({}, <<>>)
  BY <1>1, <1>2, SameGoes
<1>5. Stored' /\ Lasts'
  <2>1. \A m \in Networks : There(m) => There(m)'
    BY <1>2 DEF There
  <2>2. ~Untouched
    BY <1>3 DEF Untouched
  <2> QED BY <1>1, <1>2, <1>4, <2>1, <2>2, QuietKeeps, EmptyIs
<1>6. TypeSeq'
  BY <1>1, <1>3, FailsType
<1> QED BY <1>1, <1>3, <1>5, <1>6, FailsOwned, DisconnectsSecret DEF Inv

LEMMA AcceptsKeeps ==
    ASSUME Inv, Accepts
    PROVE  Inv'
<1>1. TypeSeq /\ Sess /\ Owned /\ Stored /\ Lasts /\ Secrets
  BY DEF Inv
<1>2. PICK prompt \in prompts : \E p \in Profile :
              /\ prompt.net \in Networks
              /\ profiles' = [profiles EXCEPT ![prompt.net] = p]
              /\ calls' = Without({prompt.net})
              /\ apart' = apart \cup {prompt.net}
              /\ UNCHANGED <<identity, file, removed, lost>>
  BY <1>1, AcceptsIs
<1> DEFINE n == prompt.net
<1>3. PICK p \in Profile : n \in Networks /\ profiles' = [profiles EXCEPT ![n] = p]
  BY <1>2
<1>4. /\ calls' = Without({n}) /\ apart' = apart \cup {n}
      /\ UNCHANGED <<identity, file, removed, lost>>
  BY <1>2
<1>5. ~Untouched
  BY <1>2 DEF Untouched
<1> HIDE DEF n
<1>6. profiles \in [Networks -> Profile \cup {Absent}]
  BY <1>1, TypeIs DEF TypeShown, Nets
<1>7. /\ \A m \in Networks \ apart' : profiles'[m] = profiles[m]
      /\ \A m \in Networks : There(m) => There(m)'
  BY <1>3, <1>4, <1>6, AbsentIs DEF There
<1>8. <<>> \in Seq(Commands) /\ Goes({n}, <<>>)
  BY <1>1, <1>4, LessGoes
<1>9. Stored' /\ Lasts'
  BY <1>1, <1>4, <1>5, <1>7, <1>8, QuietKeeps, EmptyIs
<1> QED BY <1>1, <1>9, AcceptsType, AcceptsSess, AcceptsOwned, AcceptsSecret DEF Inv

\* Settings changed, or a document written: neither is of the file.
LEMMA StaysKeeps ==
    ASSUME Inv, ChangesSettings \/ Exports
    PROVE  Inv'
<1>1. TypeSeq /\ Sess /\ Owned /\ Stored /\ Lasts /\ Secrets
  BY DEF Inv
<1>2. /\ UNCHANGED <<profiles, sessions, identity, memory, prompts, calls>>
      /\ UNCHANGED <<file, keychain, typed, used, freed, asked, removed, lost, apart, doubtful>>
  BY DEF ChangesSettings, Exports, shown, kept, ghosts
<1>3. <<>> \in Seq(Commands) /\ Goes({}, <<>>)
  BY <1>1, <1>2, SameGoes
<1>4. Stored' /\ Lasts'
  <2>1. \A m \in Networks : There(m) <=> There(m)'
    BY <1>2 DEF There
  <2>2. Untouched => prompts' = {} /\ \A m \in Networks : ~There(m)'
    BY <1>2, <2>1 DEF Untouched
  <2> QED BY <1>1, <1>2, <1>3, <2>1, <2>2, QuietKeeps, EmptyIs
<1>5. Owned'
  <2>1. CASE ChangesSettings
    <3>1. exported' = exported
      BY <2>1 DEF ChangesSettings
    <3> QED BY <1>1, <1>2, <1>3, <3>1, LessOwned
  <2>2. CASE Exports
    BY <1>1, <2>2, ExportsOwned
  <2> QED BY <2>1, <2>2
<1>6. TypeSeq'
  BY <1>1, ChangesType, ExportsType
<1>7. Sess'
  BY <1>1, <1>2, SameSess
<1>8. Secrets'
  BY <1>1, <1>2, StaySecret
<1> QED BY <1>4, <1>5, <1>6, <1>7, <1>8 DEF Inv

LEMMA ConnectsKeeps ==
    ASSUME Inv, NEW n \in Networks, Connects(n)
    PROVE  Inv'
<1>1. TypeSeq /\ Sess /\ Owned /\ Stored /\ Lasts /\ Secrets
  BY DEF Inv
<1>2. PICK u \in Seq(Commands) : Goes({}, u) /\ (u = <<>> \/ u = <<[op |-> "read", net |-> n]>>)
  BY <1>1, ConnectsIs
<1>3. ~Has(u, LoadCalls) /\ ~Has(u, WriteCalls)
  <2> DEFINE c == [op |-> "read", net |-> n]
  <2>1. c \in ReadCalls({n}) /\ c \notin LoadCalls /\ c \notin WriteCalls
    BY MakesRead, Kinds
  <2>2. u = <<>> \/ u = <<c>>
    BY <1>2
  <2> HIDE DEF c
  <2> QED BY <2>1, <2>2, EmptyIs, OneHas
<1>4. UNCHANGED <<profiles, identity, file, removed, lost, apart, prompts>>
  BY DEF Connects, kept, ghosts
<1>5. Stored' /\ Lasts'
  <2>1. \A m \in Networks : There(m) <=> There(m)'
    BY <1>4 DEF There
  <2>2. Untouched => prompts' = {} /\ \A m \in Networks : ~There(m)'
    BY <1>4, <2>1 DEF Untouched
  <2> QED BY <1>1, <1>2, <1>3, <1>4, <2>1, <2>2, QuietKeeps
<1> QED BY <1>1, <1>5, ConnectsType, ConnectsSess, ConnectsOwned, ConnectsSecret DEF Inv

\* The shell takes a command.
LEMMA ReadsKeeps ==
    ASSUME Inv, Reads
    PROVE  Inv'
<1>1. TypeSeq /\ Sess /\ Owned /\ Stored /\ Lasts /\ Secrets
  BY DEF Inv
<1>2. TypeSeq' /\ Sess'
  BY <1>1, ReadsType, ReadsSess
<1>3. Secrets'
  BY <1>1, <1>2, ReadsSecret
<1> QED BY <1>1, <1>2, <1>3, ReadsOwned, ReadsStored, ReadsLasts DEF Inv

LEMMA WritesKeeps ==
    ASSUME Inv, Writes
    PROVE  Inv'
<1>1. TypeSeq /\ Sess /\ Owned /\ Stored /\ Lasts /\ Secrets
  BY DEF Inv
<1>2. Sess'
  BY <1>1, SameSess DEF Writes, shown
<1> QED BY <1>1, <1>2, WritesType, WritesOwned, WritesStored, WritesLasts, WritesSecret DEF Inv

LEMMA TakesKeeps ==
    ASSUME Inv, Sets \/ Forgets
    PROVE  Inv'
<1>1. TypeSeq /\ Sess /\ Owned /\ Stored /\ Lasts /\ Secrets
  BY DEF Inv
<1>2. calls # <<>> /\ calls' = Tail(calls) /\ Head(calls).op \notin {"load", "write"}
  BY <1>1, CallIs DEF Sets, Forgets
<1>3. UNCHANGED <<profiles, sessions, identity, prompts, exported, file, used, asked, removed, lost, apart>>
  BY DEF Sets, Forgets, shown
<1>4. Stored' /\ Lasts' /\ Owned'
  BY <1>1, <1>2, <1>3, TailStored, TailLasts, TailOwned
<1>5. Sess'
  BY <1>1, <1>3, SameSess
<1> QED BY <1>1, <1>4, <1>5, SetsType, TakesSecret DEF Inv

LEMMA AnswersKeeps ==
    ASSUME Inv, Resolves
    PROVE  Inv'
<1>1. TypeSeq /\ Sess /\ Owned /\ Stored /\ Lasts /\ Secrets
  BY DEF Inv
<1>2. calls # <<>> /\ calls' = Tail(calls) /\ Head(calls).op \notin {"load", "write"}
  BY <1>1, CallIs DEF Resolves
<1>3. UNCHANGED <<profiles, identity, prompts, exported, file, used, removed, lost, apart>>
  BY DEF Resolves, kept, ghosts
<1>4. Stored' /\ Lasts' /\ Owned'
  BY <1>1, <1>2, <1>3, TailStored, TailLasts, TailOwned
<1> QED BY <1>1, <1>4, ResolvesKeeps DEF Inv

LEMMA QuitsKeeps ==
    ASSUME Inv, Quits
    PROVE  Inv'
<1>1. TypeSeq /\ Sess /\ Owned /\ Stored /\ Lasts /\ Secrets
  BY DEF Inv
<1> QED BY <1>1, QuitsType, QuitsSess, QuitsOwned, QuitsStored, QuitsLasts, QuitsSecret DEF Inv

LEMMA StuttersKeeps ==
    ASSUME Inv, UNCHANGED vars
    PROVE  Inv'
<1>1. /\ UNCHANGED <<profiles, sessions, identity, settings, savedSettings, memory, prompts, exported, calls>>
      /\ UNCHANGED <<file, keychain, typed, used, freed, asked, removed, lost, apart, doubtful, acts>>
  BY DEF vars, shown, kept, ghosts
<1>2. TypeSeq'
  <2>1. TypeShown /\ TypeKept /\ TypeGhosts /\ calls \in Seq(Commands)
    BY TypeIs DEF Inv
  <2>2. TypeShown' /\ TypeKept' /\ TypeGhosts' /\ calls' \in Seq(Commands)
    BY <1>1, <2>1 DEF TypeShown, TypeKept, TypeGhosts
  <2> QED BY <2>2, TypeNext
<1>3. TypeSeq /\ Sess /\ Owned /\ Stored /\ Lasts /\ Secrets
  BY DEF Inv
<1>4. Sess' /\ Secrets'
  BY <1>1, <1>3, SameSess, StaySecret
<1>5. <<>> \in Seq(Commands) /\ Goes({}, <<>>)
  BY <1>1, <1>3, SameGoes
<1>6. Owned'
  BY <1>1, <1>3, <1>5, LessOwned
<1>7. Stored' /\ Lasts'
  <2>1. \A m \in Networks : There(m) <=> There(m)'
    BY <1>1 DEF There
  <2>2. Untouched => prompts' = {} /\ \A m \in Networks : ~There(m)'
    BY <1>1, <2>1 DEF Untouched
  <2> QED BY <1>1, <1>3, <1>5, <2>1, <2>2, QuietKeeps, EmptyIs
<1> QED BY <1>2, <1>4, <1>6, <1>7 DEF Inv

LEMMA InvNext ==
    ASSUME Inv, [Next]_vars
    PROVE  Inv'
<1>1. CASE \E n \in Networks : AddsNetwork(n) \/ SavesNetwork(n)
  BY <1>1, PutsKeeps
<1>2. CASE \E n \in Networks : RemovesNetwork(n)
  BY <1>2, RemovesKeeps
<1>3. CASE \/ \E n \in Networks : TogglesAutojoin(n)
           \/ SavesIdentity \/ SavesSettings
  BY <1>3, SavesKeep
<1>4. CASE \E n \in Networks : Reconnects(n)
  BY <1>4, ReconnectsKeeps
<1>5. CASE \E n \in Networks : Disconnects(n) \/ Drops(n)
  BY <1>5, DisconnectsKeeps
<1>6. CASE \E n \in Networks : FailsVerification(n)
  BY <1>6, FailsKeeps
<1>7. CASE \E n \in Networks : Connects(n)
  BY <1>7, ConnectsKeeps
<1>8. CASE Accepts
  BY <1>8, AcceptsKeeps
<1>9. CASE ChangesSettings \/ Exports
  BY <1>9, StaysKeeps
<1>10. CASE ImportsConfig
  BY <1>10, ImportsKeeps
<1>11. CASE Quits
  BY <1>11, QuitsKeeps
<1>12. CASE Reads
  BY <1>12, ReadsKeeps
<1>13. CASE Writes
  BY <1>13, WritesKeeps
<1>14. CASE Sets \/ Forgets
  BY <1>14, TakesKeeps
<1>15. CASE Resolves
  BY <1>15, AnswersKeeps
<1>16. CASE UNCHANGED vars
  BY <1>16, StuttersKeeps
<1> QED BY <1>1, <1>2, <1>3, <1>4, <1>5, <1>6, <1>7, <1>8, <1>9, <1>10, <1>11, <1>12, <1>13, <1>14,
           <1>15, <1>16 DEF Next, User, Shell

LEMMA InvHolds == Spec => []Inv
<1>1. Init => Inv
  BY InvInit
<1>2. Inv /\ [Next]_vars => Inv'
  BY InvNext
<1> QED BY <1>1, <1>2, PTL DEF Spec

----------------------------------------------------------------------------
(* What a user and the shell may rely on.                                  *)

\* Once everything is written the file is what is held, but for a certificate
\* waved through and a file that could not be read or written: for any
\* networks, references and passwords, over any launches and any failures of
\* the shell (Marmotter.tsx 785-791, 796-803).
THEOREM FileAlwaysHeld == Spec => []FileIsHeld
<1>1. Inv => FileIsHeld
  <2> SUFFICES ASSUME Inv PROVE FileIsHeld
    OBVIOUS
  <2>1. TypeOK /\ Stored /\ calls \in Seq(Commands)
    BY DEF Inv, TypeSeq
  <2>2. SavedAsHeld
    <3> SUFFICES ASSUME Loaded, ~Writing, "file" \notin apart
                 PROVE  Matches(file)
      BY DEF SavedAsHeld, Matches
    <3>1. ~Has(calls, LoadCalls)
      BY <2>1 DEF Stored, Untouched
    <3>2. ~Has(calls, WriteCalls)
      BY <2>1 DEF Writing, Has, WriteCalls
    <3> QED BY <2>1, <3>1, <3>2 DEF Stored
  <2> QED BY <2>1, <2>2 DEF FileIsHeld
<1> QED BY <1>1, InvHolds, PTL

\* Each network has one session, built on the profile it has but for what an
\* edit leaves to the next connection, and none is dialled that nobody asked
\* for, whether restored, imported or edited (store.ts 50-53, 3110-3118,
\* Marmotter.tsx 714-722, 1440-1444).
THEOREM SessionsAlwaysAsked == Spec => []SessionsAsAsked
<1>1. Inv => SessionsAsAsked
  BY DEF Inv, Sess, SessAt, SessionsAsAsked, SessionIsCurrent, DialsOnlyAsked
<1> QED BY <1>1, InvHolds, PTL

\* What is sent is the password typed last, and the keychain keeps none of a
\* network that was taken away, unless it would not take it or let go of it
\* (Marmotter.tsx 1178-1182, 1367-1369).
THEOREM SecretsAlwaysServe == Spec => []SecretsServe
<1>1. Inv => SecretsServe
  <2> SUFFICES ASSUME Inv PROVE SecretsServe
    OBVIOUS
  <2>1. Secrets /\ calls \in Seq(Commands) /\ freed \subseteq Refs
    BY TypeIs DEF Inv, TypeGhosts
  <2>2. SendsLastTyped
    BY <2>1 DEF SendsLastTyped, Secrets, AnswersAt, Sent
  <2>3. RemovedIsForgotten
    <3> SUFFICES ASSUME NEW r \in freed \ doubtful
                 PROVE  /\ keychain[r] # None => Pending(r)
                        /\ \A n \in Networks : profiles[n].ref # r
      BY DEF RemovedIsForgotten
    <3>1. SecretAt(r) /\ \A n \in Networks : profiles[n].ref # r
      BY <2>1 DEF Secrets, AnswersAt
    <3>2. Has(calls, SecretCalls(r)) => Pending(r)
      BY <2>1 DEF Has, SecretCalls, Pending
    <3> QED BY <3>1, <3>2 DEF SecretAt, Served
  <2> QED BY <2>2, <2>3 DEF SecretsServe
<1> QED BY <1>1, InvHolds, PTL

\* The file loses no network that nobody took away, but with a file that
\* could not be read (stored-networks.ts 4-7).
THEOREM NetworksStay == Spec => NothingLost
<1>1. ASSUME Inv, [Next]_vars, NEW n \in Networks, file.nets[n].there, ~file'.nets[n].there
      PROVE  n \in removed \cup lost
  <2>1. CASE Writes
    <3>1. TypeSeq /\ Lasts
      BY <1>1 DEF Inv
    <3> QED BY <1>1, <2>1, <3>1, WritesLasts
  <2>2. CASE ~Writes
    <3>1. file' = file
      BY <1>1, <2>2 DEF Next, User, Shell, AddsNetwork, SavesNetwork, RemovesNetwork, TogglesAutojoin,
            Reconnects, Disconnects, Accepts, SavesIdentity, ChangesSettings, Exports, ImportsConfig,
            Quits, Reads, Sets, Forgets, Resolves, SavesSettings, Connects, FailsVerification, Drops,
            vars, kept
    <3> QED BY <1>1, <3>1
  <2> QED BY <2>1, <2>2
<1>2. Inv /\ [Next]_vars =>
         [\A n \in Networks : file.nets[n].there /\ ~file'.nets[n].there => n \in removed \cup lost]_vars
  BY <1>1
<1> QED BY <1>2, InvHolds, PTL DEF Spec, NothingLost

\* What a step adds to the commands forgets nothing that is needed after it.
ForgetsWell ==
    \A c \in Commands : c.op = "forget" /\ Has(calls', {c}) =>
       Has(calls, {c}) \/ \A n \in Networks : profiles'[n].ref # c.ref

LEMMA AddsForget ==
    ASSUME TypeSeq, NEW gone, NEW u \in Seq(Commands), Goes(gone, u),
           \A c \in Commands : c.op = "forget" /\ Has(u, {c}) =>
              \A n \in Networks : profiles'[n].ref # c.ref
    PROVE  ForgetsWell
BY GoesHas DEF ForgetsWell

LEMMA PersistingForget ==
    ASSUME TypeSeq, NEW gone, NEW s, NEW doc, NEW t, Persisting(gone, s, doc, t),
           \A c \in Commands : c.op = "forget" /\ (Has(s, {c}) \/ Has(t, {c})) =>
              \A n \in Networks : profiles'[n].ref # c.ref
    PROVE  ForgetsWell
<1>1. /\ s \in Seq(Keys) /\ t \in Seq(Keys) /\ doc \in Contents
      /\ Goes(gone, Written(s, doc, t))
  BY DEF Persisting
<1>2. /\ Written(s, doc, t) \in Seq(Commands)
      /\ \A C : Has(Written(s, doc, t), C) <=> (Has(s, C) \/ [op |-> "write", what |-> doc] \in C \/ Has(t, C))
  BY <1>1, WrittenIs
<1>3. ASSUME NEW c \in Commands, c.op = "forget", Has(Written(s, doc, t), {c})
      PROVE  \A n \in Networks : profiles'[n].ref # c.ref
  <2>1. [op |-> "write", what |-> doc] # c
    BY <1>3
  <2>2. Has(s, {c}) \/ Has(t, {c})
    BY <1>2, <1>3, <2>1
  <2> QED BY <1>3, <2>2
<1> QED BY <1>1, <1>2, <1>3, AddsForget

\* Of the commands of Forget, each is of one of the references.
LEMMA ForgetsOf ==
    ASSUME NEW refs, refs \subseteq Refs, NEW c \in Commands, Has(Forget(refs), {c})
    PROVE  c.ref \in refs
<1>1. Forget(refs) \in Seq({[op |-> "forget", ref |-> r] : r \in refs})
  BY ForgetIs
<1>2. \A i \in 1..Len(Forget(refs)) : Forget(refs)[i].ref \in refs
  BY <1>1
<1> QED BY <1>2 DEF Has

LEMMA PutsForget ==
    ASSUME TypeSeq, NEW n \in Networks, AddsNetwork(n) \/ SavesNetwork(n)
    PROVE  ForgetsWell
<1>1. PICK p \in Profile : \E s, doc : Puts(n, p, s) /\ Persisting({n}, s, doc, <<>>)
  BY AddsIs, SavesIs
<1>2. PICK s, doc : Puts(n, p, s) /\ Persisting({n}, s, doc, <<>>)
  BY <1>1
<1>3. s = <<>> \/ \E c : s = <<c>> /\ c.op = "set"
  BY <1>2 DEF Puts
<1>4. \A c \in Commands : c.op = "forget" => ~Has(s, {c}) /\ ~Has(<<>>, {c})
  BY <1>3, EmptyIs, OneHas
<1> QED BY <1>2, <1>4, PersistingForget

LEMMA RemovesForget ==
    ASSUME TypeSeq, Owned, NEW n \in Networks, RemovesNetwork(n)
    PROVE  ForgetsWell
<1>1. PICK doc : Persisting({n}, <<>>, doc, Forget(RefsOf(profiles[n])))
  BY RemovesIs
<1>2. profiles' = [profiles EXCEPT ![n] = Absent] /\ profiles \in Nets
  BY TypeIs DEF RemovesNetwork, TypeShown
<1>3. ASSUME NEW c \in Commands, c.op = "forget", Has(Forget(RefsOf(profiles[n])), {c}), NEW m \in Networks
      PROVE  profiles'[m].ref # c.ref
  <2>1. c.ref \in RefsOf(profiles[n]) /\ RefsOf(profiles[n]) \subseteq Refs
    BY <1>3, RemovesIs, ForgetsOf
  <2>2. c.ref = profiles[n].ref /\ c.ref \in Refs /\ c.ref # None
    BY <2>1, NoneIs DEF RefsOf
  <2>3. CASE m = n
    BY <1>2, <2>2, <2>3, AbsentIs DEF Nets
  <2>4. CASE m # n
    <3>1. profiles'[m] = profiles[m]
      BY <1>2, <2>4 DEF Nets
    <3>2. profiles[m].ref # profiles[n].ref
      BY <2>2, <2>4, OnesOwn
    <3> QED BY <2>2, <3>1, <3>2
  <2> QED BY <2>3, <2>4
<1> QED BY <1>1, <1>3, PersistingForget, EmptyIs

LEMMA ImportsForget ==
    ASSUME TypeSeq, ImportsConfig
    PROVE  ForgetsWell
<1>1. PICK from \in exported : \E doc :
          /\ from \in Contents
          /\ LET forgotten == RefsIn(profiles, Gone(from.nets)) \ RefsIn(from.nets, Networks)
             IN  forgotten \subseteq Refs /\ Persisting(Networks, Forget(forgotten), doc, <<>>)
          /\ profiles' = from.nets
  BY ImportsIs
<1> DEFINE nets == from.nets
           forgotten == RefsIn(profiles, Gone(nets)) \ RefsIn(nets, Networks)
<1>2. PICK doc : Persisting(Networks, Forget(forgotten), doc, <<>>)
  BY <1>1
<1>3. forgotten \subseteq Refs /\ profiles' = nets /\ nets \in Nets
  BY <1>1, ContentsIs
<1>4. \A m \in Networks : nets[m].ref # None => nets[m].ref \notin forgotten
  <2> HIDE DEF nets
  <2>1. \A m \in Networks : nets[m].ref # None => nets[m].ref \in RefsIn(nets, Networks)
    BY <1>3, RefsInAre
  <2> QED BY <2>1
<1> HIDE DEF nets, forgotten
<1>5. ASSUME NEW c \in Commands, Has(Forget(forgotten), {c}), NEW m \in Networks
      PROVE  profiles'[m].ref # c.ref
  BY <1>3, <1>4, <1>5, ForgetsOf, NoneIs
<1> QED BY <1>2, <1>5, PersistingForget, EmptyIs

LEMMA SavesForget ==
    ASSUME TypeSeq, (\E n \in Networks : TogglesAutojoin(n)) \/ SavesIdentity \/ SavesSettings
    PROVE  ForgetsWell
<1>1. PICK doc : Persisting({}, <<>>, doc, <<>>)
  BY TogglesIs, IdentityIs, SettingsIs
<1> QED BY <1>1, PersistingForget, EmptyIs

LEMMA ConnectsForget ==
    ASSUME TypeSeq, NEW n \in Networks, Connects(n)
    PROVE  ForgetsWell
<1>1. PICK u \in Seq(Commands) : Goes({}, u) /\ (u = <<>> \/ u = <<[op |-> "read", net |-> n]>>)
  BY ConnectsIs
<1>2. \A c \in Commands : c.op = "forget" => ~Has(u, {c})
  BY <1>1, EmptyIs, OneHas
<1> QED BY <1>1, <1>2, AddsForget

LEMMA QuietForget ==
    ASSUME TypeSeq,
           \/ \E gone : calls' = Without(gone)
           \/ calls' = calls
           \/ \E op : Call(op)
    PROVE  ForgetsWell
<1>1. CASE (\E gone : calls' = Without(gone)) \/ calls' = calls
  BY <1>1, LessGoes, SameGoes, AddsForget, EmptyIs
<1>2. CASE \E op : Call(op)
  <2>1. calls # <<>> /\ calls \in Seq(Commands) /\ calls' = Tail(calls)
    BY <1>2, CallIs
  <2> QED BY <2>1, TailHas DEF ForgetsWell
<1> QED BY <1>1, <1>2

LEMMA ReadsForget ==
    ASSUME TypeSeq, Stored, Reads
    PROVE  ForgetsWell
<1>1. \A C : Has(calls', C) => Has(calls, C)
  BY LoadFirst
<1> QED BY <1>1 DEF ForgetsWell

LEMMA QuitsForget ==
    ASSUME Quits
    PROVE  ForgetsWell
<1>1. calls' = <<[op |-> "load"]>>
  BY DEF Quits
<1>2. \A c \in Commands : c.op = "forget" => ~Has(calls', {c})
  BY <1>1, OneHas
<1> QED BY <1>2 DEF ForgetsWell

LEMMA NextForget ==
    ASSUME Inv, [Next]_vars
    PROVE  ForgetsWell
<1>1. TypeSeq /\ Owned /\ Stored
  BY DEF Inv
<1>2. CASE \E n \in Networks : AddsNetwork(n) \/ SavesNetwork(n)
  BY <1>1, <1>2, PutsForget
<1>3. CASE \E n \in Networks : RemovesNetwork(n)
  BY <1>1, <1>3, RemovesForget
<1>4. CASE ImportsConfig
  BY <1>1, <1>4, ImportsForget
<1>5. CASE (\E n \in Networks : TogglesAutojoin(n)) \/ SavesIdentity \/ SavesSettings
  BY <1>1, <1>5, SavesForget
<1>6. CASE \E n \in Networks : Connects(n)
  BY <1>1, <1>6, ConnectsForget
<1>7. CASE \/ \E n \in Networks : Reconnects(n) \/ Drops(n) \/ Disconnects(n) \/ FailsVerification(n)
           \/ Accepts \/ ChangesSettings \/ Exports \/ UNCHANGED vars
  <2>1. (\E gone : calls' = Without(gone)) \/ calls' = calls
    BY <1>7 DEF Reconnects, Drops, Disconnects, FailsVerification, Accepts, ChangesSettings, Exports, vars
  <2> QED BY <1>1, <2>1, QuietForget
<1>8. CASE Writes \/ Sets \/ Forgets \/ Resolves
  <2>1. \E op : Call(op)
    BY <1>8 DEF Writes, Sets, Forgets, Resolves
  <2> QED BY <1>1, <2>1, QuietForget
<1>9. CASE Reads
  BY <1>1, <1>9, ReadsForget
<1>10. CASE Quits
  BY <1>10, QuitsForget
<1> QED BY <1>2, <1>3, <1>4, <1>5, <1>6, <1>7, <1>8, <1>9, <1>10 DEF Next, User, Shell

\* No password is forgotten that a network still needs, whichever is removed
\* or left out of a document that is imported (Marmotter.tsx 1446-1451).
THEOREM NeededAreKept == Spec => ForgetsOnlyUnneeded
<1>1. ASSUME Inv, Inv', [Next]_vars
      PROVE  Len(calls') > Len(calls) =>
          \A i \in DOMAIN calls' : \A n \in Networks :
             calls'[i].op = "forget" /\ There(n)' => profiles'[n].ref # calls'[i].ref
                \/ \E j \in DOMAIN calls : calls[j] = calls'[i]
  <2> SUFFICES ASSUME NEW i \in DOMAIN calls', NEW n \in Networks, calls'[i].op = "forget"
               PROVE  \/ profiles'[n].ref # calls'[i].ref
                      \/ \E j \in DOMAIN calls : calls[j] = calls'[i]
    OBVIOUS
  <2>1. calls \in Seq(Commands) /\ calls' \in Seq(Commands)
    BY <1>1 DEF Inv, TypeSeq
  <2> DEFINE c == calls'[i]
  <2>2. c \in Commands /\ Has(calls', {c})
    BY <2>1 DEF Has
  <2>3. Has(calls, {c}) \/ profiles'[n].ref # c.ref
    BY <1>1, <2>2, NextForget DEF ForgetsWell
  <2>4. Has(calls, {c}) => \E j \in DOMAIN calls : calls[j] = c
    BY <2>1 DEF Has
  <2> QED BY <2>3, <2>4
<1>2. Inv /\ Inv' /\ [Next]_vars =>
         [Len(calls') > Len(calls) =>
          \A i \in DOMAIN calls' : \A n \in Networks :
             calls'[i].op = "forget" /\ There(n)' => profiles'[n].ref # calls'[i].ref
                \/ \E j \in DOMAIN calls : calls[j] = calls'[i]]_vars
  BY <1>1
<1> QED BY <1>2, InvHolds, PTL DEF Spec, ForgetsOnlyUnneeded
=============================================================================
