------------------------- MODULE UsbipServerProofs -------------------------
(***************************************************************************)
(* The clients of the USB/IP server, for every number of sockets, waiting  *)
(* connections and commands: the linked list stays a list of the clients   *)
(* that are connected, whatever the walk removes from it and whenever.     *)
(***************************************************************************)
EXTENDS UsbipServer, FiniteSetTheorems, SequenceTheorems,
        WellFoundedInduction, TLAPS

-----------------------------------------------------------------------------
(* Numbers. *)

(* A set of numbers that is not empty has a least element: being less is
   well-founded. *)
LEMMA LeastNumber ==
  ASSUME NEW S \in SUBSET Nat, S # {}
  PROVE  \E m \in S : \A k \in S : m <= k
<1> DEFINE Below == {p \in Nat \X Nat : p[1] < p[2]}
<1>1. IsWellFoundedOn(Below, Nat)
  BY NatLessThanWellFounded, Zenon DEF OpToRel
<1>2. \A k, m \in Nat : k < m => <<k, m>> \in Below
  OBVIOUS
<1> HIDE DEF Below
<1>3. \E m \in S : \A k \in S : <<k, m>> \notin Below
  BY <1>1, WFMin
<1>4. \A k, m \in S : <<k, m>> \notin Below => m <= k
  <2>1. \A k, m \in S : k \in Nat /\ m \in Nat
    OBVIOUS
  <2>2. \A k, m \in Nat : ~(k < m) => m <= k
    OBVIOUS
  <2> QED
    BY <1>2, <2>1, <2>2, Zenon
<1> QED
  BY <1>3, <1>4

(* A bounded one has a greatest.                                           *)
LEMMA GreatestNumber ==
  ASSUME NEW n \in Nat, NEW S \in SUBSET (0 .. n), S # {}
  PROVE  \E m \in S : \A k \in S : k <= m
<1> DEFINE T == {n - k : k \in S}
<1>1. PICK t \in T : \A u \in T : t <= u
  <2>1. \A k \in S : n - k \in Nat
    OBVIOUS
  <2>2. T \in SUBSET Nat
    BY <2>1
  <2>3. T # {}
    OBVIOUS
  <2> HIDE DEF T
  <2> QED
    BY <2>2, <2>3, LeastNumber
<1>2. PICK m \in S : t = n - m
  OBVIOUS
<1>3. \A k \in S : n - m <= n - k
  BY <1>1, <1>2
<1> QED
  BY <1>3

(* A finite set of numbers is bounded: of the sets that are not, none is   *)
(* smallest. *)
LEMMA FiniteIsBounded ==
  ASSUME NEW S \in SUBSET Nat, IsFiniteSet(S)
  PROVE  \E n \in Nat : \A k \in S : k <= n
<1> DEFINE Bounded(U) == \E n \in Nat : \A k \in U : k <= n
           T == {U \in SUBSET S : ~Bounded(U)}
           R == StrictSubsetOrdering(Nat)
<1>1. SUFFICES ASSUME ~Bounded(S)
               PROVE  FALSE
  OBVIOUS
<1>2. T # {} /\ T \subseteq FiniteSubsetsOf(Nat)
  <2>1. S \in T
    BY <1>1
  <2>2. \A U \in T : U \in SUBSET Nat /\ IsFiniteSet(U)
    BY FS_Subset
  <2> QED
    BY <2>1, <2>2 DEF FiniteSubsetsOf
<1>3. PICK U \in T : \A V \in T : <<V, U>> \notin R
  <2> HIDE DEF T, R
  <2> QED
    BY <1>2, WFMin, FS_StrictSubsetOrderingWellFounded DEF R
<1>4. PICK x \in U : TRUE
  <2>1. U # {}
    <3>1. Bounded({})
      OBVIOUS
    <3> QED
      BY <3>1
  <2> QED
    BY <2>1
<1>5. <<U \ {x}, U>> \in R
  BY <1>4 DEF StrictSubsetOrdering
<1>6. PICK n \in Nat : \A k \in U \ {x} : k <= n
  <2>1. U \ {x} \notin T
    BY <1>3, <1>5
  <2> QED
    BY <2>1
<1>7. x \in Nat
  BY <1>4
<1>8. Bounded(U)
  <2>1. CASE x <= n
    BY <1>6, <2>1
  <2>2. CASE n < x
    <3>1. \A k \in U : k <= x
      BY <1>6, <1>7, <2>2
    <3> QED
      BY <1>7, <3>1
  <2> QED
    BY <1>6, <1>7, <2>1, <2>2
<1> QED
  BY <1>8

-----------------------------------------------------------------------------
(* Lists.  The clients a linked from the head h by n, in the order s.      *)

IsList(s, h, n, a) ==
  /\ s \in Seq(Fds)
  /\ \A i, j \in 1 .. Len(s) : s[i] = s[j] => i = j
  /\ a = {s[i] : i \in 1 .. Len(s)}
  /\ h = IF Len(s) = 0 THEN NULL ELSE s[1]
  /\ DOMAIN n = Fds
  /\ \A i \in 1 .. Len(s) : n[s[i]] = IF i = Len(s) THEN NULL ELSE s[i + 1]

LEMMA SocketsAreNumbers == Fds \subseteq Nat /\ NULL \notin Fds /\ NULL \notin Nat
BY ServerAssumption DEF NULL

(* An injective sequence of sockets is no longer than there are sockets.   *)
LEMMA ListIsShort ==
  ASSUME NEW s, NEW h, NEW n, NEW a, IsList(s, h, n, a)
  PROVE  Cardinality(Fds) \in Nat /\ Len(s) \in Nat /\ Len(s) <= Cardinality(Fds)
<1>1. s \in [1 .. Len(s) -> Fds] /\ Len(s) \in Nat
  BY DEF IsList
<1>2. s \in Injection(1 .. Len(s), Fds)
  BY <1>1 DEF IsList, Injection, IsInjective
<1>3. IsFiniteSet(Fds)
  BY ServerAssumption
<1>4. Cardinality(1 .. Len(s)) = Len(s)
  <2>1. Cardinality(1 .. Len(s)) = IF 1 > Len(s) THEN 0 ELSE Len(s) - 1 + 1
    BY <1>1, FS_Interval
  <2> QED
    BY <1>1, <2>1
<1>5. Cardinality(1 .. Len(s)) <= Cardinality(Fds)
  BY <1>2, <1>3, FS_Injection
<1> QED
  BY <1>1, <1>3, <1>4, <1>5, FS_CardinalityType

(* The walk from the head visits the list in its order, and then stays at  *)
(* its end: that is one way to follow the links,                           *)
Follow(w) == [i \in 0 .. Cardinality(Fds) |->
                IF i = 0 THEN head
                ELSE IF w[i - 1] = NULL THEN NULL ELSE nxt[w[i - 1]]]

Visit(s) == [i \in 0 .. Cardinality(Fds) |-> IF i < Len(s) THEN s[i + 1] ELSE NULL]

LEMMA FollowsList ==
  ASSUME NEW s, IsList(s, head, nxt, alive)
  PROVE  Visit(s) = Follow(Visit(s))
<1> DEFINE top == Cardinality(Fds)
           visit == Visit(s)
<1>1. top \in Nat /\ Len(s) \in Nat
  BY ListIsShort
<1>2. \A i \in 1 .. Len(s) : s[i] \in Fds /\ s[i] # NULL
  BY SocketsAreNumbers DEF IsList
<1>3. visit = Follow(visit)
  <2> SUFFICES ASSUME NEW i \in 0 .. top
               PROVE  visit[i] = IF i = 0 THEN head
                                 ELSE IF visit[i - 1] = NULL THEN NULL
                                 ELSE nxt[visit[i - 1]]
    BY DEF Follow, Visit
  <2>1. CASE i = 0
    BY <1>1, <2>1 DEF IsList, Visit
  <2>2. CASE i # 0
    <3>1. i - 1 \in 0 .. top /\ (i - 1) + 1 = i
      BY <1>1, <2>2
    <3>2. visit[i - 1] = IF i - 1 < Len(s) THEN s[i] ELSE NULL
      BY <3>1 DEF Visit
    <3>3. CASE i - 1 < Len(s)
      <4>1. i \in 1 .. Len(s)
        BY <1>1, <2>2, <3>3
      <4>2. nxt[s[i]] = IF i = Len(s) THEN NULL ELSE s[i + 1]
        BY <4>1 DEF IsList
      <4>3. visit[i] = IF i < Len(s) THEN s[i + 1] ELSE NULL
        BY DEF Visit
      <4> HIDE DEF visit
      <4> QED
        BY <1>1, <1>2, <2>2, <3>2, <3>3, <4>1, <4>2, <4>3
    <3>4. CASE ~(i - 1 < Len(s))
      <4>1. visit[i] = NULL
        BY <1>1, <2>2, <3>4 DEF Visit
      <4> QED
        BY <2>2, <3>2, <3>4, <4>1
    <3> QED
      BY <3>3, <3>4
  <2> QED
    BY <2>1, <2>2
<1> QED
  BY <1>3

(* and there is no other: induction over the steps of the walk.            *)
LEMMA WalkIsList ==
  ASSUME NEW s, IsList(s, head, nxt, alive)
  PROVE  Walk = Visit(s)
<1> DEFINE top == Cardinality(Fds)
           visit == Visit(s)
<1>1. top \in Nat /\ Len(s) \in Nat
  BY ListIsShort
<1>2. visit = Follow(visit)
  BY FollowsList
<1>3. Walk = CHOOSE w : w = Follow(w)
  BY DEF Walk, Follow
<1>4. Walk = Follow(Walk)
  BY <1>2, <1>3
<1> HIDE DEF visit
<1>5. /\ Walk = [i \in 0 .. top |-> Walk[i]]
      /\ visit = [i \in 0 .. top |-> visit[i]]
  BY <1>2, <1>4 DEF Follow
<1>6. SUFFICES ASSUME NEW j \in 0 .. top, Walk[j] # visit[j]
               PROVE  FALSE
  BY <1>5 DEF visit
<1> DEFINE wrong == {i \in 0 .. top : Walk[i] # visit[i]}
<1>7. PICK m \in wrong : \A k \in wrong : m <= k
  <2>1. wrong \in SUBSET Nat /\ wrong # {}
    BY <1>6
  <2> HIDE DEF wrong
  <2> QED
    BY <2>1, LeastNumber
<1>8. CASE m = 0
  BY <1>2, <1>4, <1>7, <1>8 DEF Follow
<1>9. CASE m # 0
  <2>1. m - 1 \in 0 .. top /\ m - 1 < m
    BY <1>1, <1>7, <1>9
  <2>2. Walk[m - 1] = visit[m - 1]
    BY <1>1, <1>7, <2>1
  <2>3. Walk[m] = IF Walk[m - 1] = NULL THEN NULL ELSE nxt[Walk[m - 1]]
    BY <1>4, <1>7, <1>9 DEF Follow
  <2>4. visit[m] = IF visit[m - 1] = NULL THEN NULL ELSE nxt[visit[m - 1]]
    BY <1>2, <1>7, <1>9 DEF Follow
  <2> QED
    BY <1>7, <2>2, <2>3, <2>4
<1> QED
  BY <1>8, <1>9

LEMMA WalkFindsAll ==
  ASSUME NEW s, IsList(s, head, nxt, alive)
  PROVE  /\ Walk[Cardinality(Fds)] = NULL
         /\ Clients = alive
         /\ Len(s) > 0 => Tail0 = s[Len(s)]
<1> DEFINE top == Cardinality(Fds)
           W(i) == IF i < Len(s) THEN s[i + 1] ELSE NULL
<1>1. top \in Nat /\ Len(s) \in Nat /\ Len(s) <= top
  BY ListIsShort
<1>2. /\ \A i \in 0 .. top : Walk[i] = W(i)
      /\ DOMAIN Walk = 0 .. top
  BY WalkIsList DEF Visit
<1>3. Walk[top] = NULL
  BY <1>1, <1>2
<1>4. \A i \in 1 .. Len(s) : s[i] \in Fds /\ s[i] # NULL
  BY SocketsAreNumbers DEF IsList
<1>5. Clients = {s[i] : i \in 1 .. Len(s)}
  <2>1. ASSUME NEW c \in Clients
        PROVE  c \in {s[i] : i \in 1 .. Len(s)}
    <3>1. PICK i \in 0 .. top : c = W(i) /\ c # NULL
      BY <1>2 DEF Clients
    <3>2. i + 1 \in 1 .. Len(s) /\ c = s[i + 1]
      BY <1>1, <3>1
    <3> QED
      BY <3>2
  <2>2. ASSUME NEW i \in 1 .. Len(s)
        PROVE  s[i] \in Clients
    <3>1. i - 1 \in 0 .. top /\ i - 1 < Len(s) /\ (i - 1) + 1 = i
      BY <1>1
    <3>2. Walk[i - 1] = s[i]
      BY <1>2, <3>1
    <3> QED
      BY <1>2, <1>4, <3>1, <3>2 DEF Clients
  <2> QED
    BY <2>1, <2>2
<1>6. Clients = alive
  BY <1>5 DEF IsList
<1>7. ASSUME Len(s) > 0
      PROVE  Tail0 = s[Len(s)]
  <2>1. Len(s) \in 1 .. Len(s)
    BY <1>1, <1>7
  <2>2. s[Len(s)] \in Clients /\ nxt[s[Len(s)]] = NULL
    BY <1>5, <2>1 DEF IsList
  <2>3. ASSUME NEW c \in Clients, nxt[c] = NULL
        PROVE  c = s[Len(s)]
    <3>1. PICK i \in 1 .. Len(s) : c = s[i]
      BY <1>5
    <3>2. nxt[s[i]] = IF i = Len(s) THEN NULL ELSE s[i + 1]
      BY DEF IsList
    <3>3. i # Len(s) => i + 1 \in 1 .. Len(s)
      BY <1>1
    <3> QED
      BY <1>4, <2>3, <3>1, <3>2, <3>3
  <2> QED
    BY <2>2, <2>3 DEF Tail0
<1> QED
  BY <1>3, <1>6, <1>7

(* A client is appended.                                                   *)
LEMMA ListAppend ==
  ASSUME NEW s, NEW h, NEW n, NEW a, IsList(s, h, n, a), NEW fd \in Fds \ a
  PROVE  IsList(Append(s, fd), IF h = NULL THEN fd ELSE h,
                IF h = NULL THEN [n EXCEPT ![fd] = NULL]
                ELSE [n EXCEPT ![fd] = NULL, ![s[Len(s)]] = fd],
                a \cup {fd})
<1> DEFINE k == Len(s)
           t == Append(s, fd)
           g == IF h = NULL THEN fd ELSE h
           m == IF h = NULL THEN [n EXCEPT ![fd] = NULL]
                ELSE [n EXCEPT ![fd] = NULL, ![s[k]] = fd]
<1>1. /\ s \in Seq(Fds) /\ k \in Nat /\ DOMAIN n = Fds
      /\ \A i \in 1 .. k : s[i] \in Fds /\ s[i] # NULL /\ s[i] # fd /\ s[i] \in a
      /\ h = IF k = 0 THEN NULL ELSE s[1]
  BY SocketsAreNumbers DEF IsList
<1>2. /\ t \in Seq(Fds) /\ Len(t) = k + 1 /\ t[k + 1] = fd
      /\ \A i \in 1 .. k : t[i] = s[i]
  BY <1>1
<1>3. k = 0 <=> h = NULL
  <2>1. k # 0 => 1 \in 1 .. k
    BY <1>1
  <2> QED
    BY <1>1, <2>1
<1> HIDE DEF t, m, g
<1>4. \A i, j \in 1 .. Len(t) : t[i] = t[j] => i = j
  <2> SUFFICES ASSUME NEW i \in 1 .. k + 1, NEW j \in 1 .. k + 1, t[i] = t[j]
               PROVE  i = j
    BY <1>2
  <2>1. \A x \in 1 .. k + 1 : x = k + 1 \/ x \in 1 .. k
    BY <1>1
  <2>2. \A x \in 1 .. k : t[x] # fd
    BY <1>1, <1>2
  <2>3. \A x, y \in 1 .. k : s[x] = s[y] => x = y
    BY DEF IsList
  <2> QED
    BY <1>2, <2>1, <2>2, <2>3
<1>5. a \cup {fd} = {t[i] : i \in 1 .. Len(t)}
  <2>1. a = {s[i] : i \in 1 .. k}
    BY DEF IsList
  <2>2. \A i \in 1 .. k + 1 : i = k + 1 \/ i \in 1 .. k
    BY <1>1
  <2>3. 1 .. k \subseteq 1 .. k + 1 /\ k + 1 \in 1 .. k + 1
    BY <1>1
  <2> QED
    BY <1>2, <2>1, <2>2, <2>3
<1>6. g = IF Len(t) = 0 THEN NULL ELSE t[1]
  <2>1. Len(t) # 0
    BY <1>1, <1>2
  <2>2. CASE k = 0
    BY <1>2, <1>3, <2>1, <2>2 DEF g
  <2>3. CASE k # 0
    <3>1. 1 \in 1 .. k
      BY <1>1, <2>3
    <3> QED
      BY <1>1, <1>2, <1>3, <2>1, <2>3, <3>1 DEF g
  <2> QED
    BY <2>2, <2>3
<1>7. DOMAIN m = Fds
  BY <1>1 DEF m
<1>8. ASSUME NEW i \in 1 .. Len(t)
      PROVE  m[t[i]] = IF i = Len(t) THEN NULL ELSE t[i + 1]
  <2>1. CASE i = k + 1
    <3>1. m[fd] = NULL
      <4>1. CASE h = NULL
        BY <1>1, <4>1 DEF m
      <4>2. CASE h # NULL
        <5>1. k \in 1 .. k
          BY <1>1, <1>3, <4>2
        <5> QED
          BY <1>1, <4>2, <5>1 DEF m
      <4> QED
        BY <4>1, <4>2
    <3> QED
      BY <1>2, <2>1, <3>1
  <2>2. CASE i \in 1 .. k
    <3>1. h # NULL /\ k \in 1 .. k /\ i # k + 1
      BY <1>1, <1>3, <2>2
    <3>2. m = [n EXCEPT ![fd] = NULL, ![s[k]] = fd]
      BY <3>1 DEF m
    <3>3. CASE i = k
      <4>1. m[s[k]] = fd
        BY <1>1, <3>1, <3>2
      <4> QED
        BY <1>2, <2>2, <3>1, <3>3, <4>1
    <3>4. CASE i # k
      <4>1. s[i] # s[k]
        BY <2>2, <3>1, <3>4 DEF IsList
      <4>2. m[s[i]] = n[s[i]]
        BY <1>1, <2>2, <3>2, <4>1
      <4>3. n[s[i]] = s[i + 1]
        BY <2>2, <3>4 DEF IsList
      <4>4. i + 1 \in 1 .. k
        BY <1>1, <2>2, <3>4
      <4> QED
        BY <1>2, <2>2, <3>1, <4>2, <4>3, <4>4
    <3> QED
      BY <3>3, <3>4
  <2>3. i = k + 1 \/ i \in 1 .. k
    BY <1>1, <1>2
  <2> QED
    BY <2>1, <2>2, <2>3
<1> QED
  BY <1>2, <1>4, <1>5, <1>6, <1>7, <1>8 DEF IsList, t, g, m

(* The k-th client is removed: the client before it, or the head, points   *)
(* to the one after it. *)
Without(s, k) == [i \in 1 .. Len(s) - 1 |-> IF i < k THEN s[i] ELSE s[i + 1]]

LEMMA WithoutIs ==
  ASSUME NEW s \in Seq(Fds), NEW k \in 1 .. Len(s)
  PROVE  /\ Without(s, k) \in Seq(Fds)
         /\ Len(Without(s, k)) = Len(s) - 1
         /\ \A i \in 1 .. Len(s) - 1 :
              Without(s, k)[i] = IF i < k THEN s[i] ELSE s[i + 1]
<1> DEFINE t == Without(s, k)
           m == Len(s) - 1
<1>1. m \in Nat /\ \A i \in 1 .. m : i \in 1 .. Len(s) /\ i + 1 \in 1 .. Len(s)
  OBVIOUS
<1>2. \A i \in 1 .. Len(s) : s[i] \in Fds
  OBVIOUS
<1>3. /\ DOMAIN t = 1 .. m
      /\ \A i \in 1 .. m : t[i] = IF i < k THEN s[i] ELSE s[i + 1]
  BY DEF Without
<1>4. t \in [1 .. m -> Fds]
  BY <1>1, <1>2 DEF Without
<1> HIDE DEF t, m
<1>5. t \in Seq(Fds) /\ Len(t) = m
  BY <1>1, <1>4
<1> QED
  BY <1>3, <1>5 DEF t, m

LEMMA ListRemove ==
  ASSUME NEW s, NEW h, NEW n, NEW a, IsList(s, h, n, a),
         NEW p \in 0 .. Len(s) - 1, NEW c, c = s[p + 1]
  PROVE  IsList(Without(s, p + 1),
                IF p = 0 THEN n[c] ELSE h,
                IF p = 0 THEN [n EXCEPT ![c] = NULL]
                ELSE [n EXCEPT ![s[p]] = n[c], ![c] = NULL],
                a \ {c})
<1> DEFINE k == Len(s)
           t == Without(s, p + 1)
           g == IF p = 0 THEN n[c] ELSE h
           m == IF p = 0 THEN [n EXCEPT ![c] = NULL]
                ELSE [n EXCEPT ![s[p]] = n[c], ![c] = NULL]
<1>1. /\ s \in Seq(Fds) /\ k \in Nat /\ DOMAIN n = Fds
      /\ \A i \in 1 .. k : s[i] \in Fds /\ s[i] # NULL
      /\ \A i, j \in 1 .. k : s[i] = s[j] => i = j
      /\ h = IF k = 0 THEN NULL ELSE s[1]
      /\ \A i \in 1 .. k : n[s[i]] = IF i = k THEN NULL ELSE s[i + 1]
  BY SocketsAreNumbers DEF IsList
<1>2. /\ p \in Nat /\ k # 0 /\ p + 1 \in 1 .. k
      /\ p # 0 => p \in 1 .. k
      /\ \A i \in 1 .. k - 1 : i \in 1 .. k /\ i + 1 \in 1 .. k
  BY <1>1
<1>3. /\ t \in Seq(Fds) /\ Len(t) = k - 1
      /\ \A i \in 1 .. k - 1 : t[i] = IF i < p + 1 THEN s[i] ELSE s[i + 1]
  BY <1>1, <1>2, WithoutIs
<1>4. n[c] = IF p + 1 = k THEN NULL ELSE s[(p + 1) + 1]
  BY <1>1, <1>2
<1> HIDE DEF t, m, g
<1>5. \A i, j \in 1 .. Len(t) : t[i] = t[j] => i = j
  <2> SUFFICES ASSUME NEW i \in 1 .. k - 1, NEW j \in 1 .. k - 1, t[i] = t[j]
               PROVE  i = j
    BY <1>3
  <2>1. /\ s[IF i < p + 1 THEN i ELSE i + 1] = s[IF j < p + 1 THEN j ELSE j + 1]
        /\ (IF i < p + 1 THEN i ELSE i + 1) \in 1 .. k
        /\ (IF j < p + 1 THEN j ELSE j + 1) \in 1 .. k
    BY <1>2, <1>3
  <2>2. (IF i < p + 1 THEN i ELSE i + 1) = (IF j < p + 1 THEN j ELSE j + 1)
    BY <1>1, <2>1
  <2> QED
    BY <1>2, <2>2
<1>6. a \ {c} = {t[i] : i \in 1 .. Len(t)}
  <2>1. ASSUME NEW x \in a \ {c}
        PROVE  x \in {t[i] : i \in 1 .. Len(t)}
    <3>1. PICK i \in 1 .. k : x = s[i]
      BY DEF IsList
    <3>2. i # p + 1
      BY <3>1
    <3>3. CASE i < p + 1
      <4>1. i \in 1 .. k - 1 /\ t[i] = x
        BY <1>2, <1>3, <3>1, <3>3
      <4> QED
        BY <1>3, <4>1
    <3>4. CASE ~(i < p + 1)
      <4>1. i - 1 \in 1 .. k - 1 /\ ~(i - 1 < p + 1) /\ (i - 1) + 1 = i
        BY <1>2, <3>2, <3>4
      <4>2. t[i - 1] = x
        BY <1>3, <3>1, <4>1
      <4> QED
        BY <1>3, <4>1, <4>2
    <3> QED
      BY <3>3, <3>4
  <2>2. ASSUME NEW i \in 1 .. k - 1
        PROVE  t[i] \in a \ {c}
    <3> DEFINE j == IF i < p + 1 THEN i ELSE i + 1
    <3>1. j \in 1 .. k /\ j # p + 1 /\ t[i] = s[j]
      BY <1>2, <1>3
    <3>2. s[j] \in a /\ s[j] # s[p + 1]
      BY <1>1, <1>2, <3>1 DEF IsList
    <3> QED
      BY <3>1, <3>2
  <2> QED
    BY <1>3, <2>1, <2>2
<1>7. g = IF Len(t) = 0 THEN NULL ELSE t[1]
  <2>1. CASE p = 0
    <3>1. k # 1 => 1 \in 1 .. k - 1 /\ t[1] = s[1 + 1]
      BY <1>1, <1>2, <1>3, <2>1
    <3> QED
      BY <1>1, <1>3, <1>4, <2>1, <3>1 DEF g
  <2>2. CASE p # 0
    <3>1. 1 \in 1 .. k - 1 /\ t[1] = s[1]
      BY <1>1, <1>2, <1>3, <2>2
    <3> QED
      BY <1>1, <1>2, <1>3, <2>2, <3>1 DEF g
  <2> QED
    BY <2>1, <2>2
<1>8. DOMAIN m = Fds
  BY <1>1 DEF m
<1>9. ASSUME NEW i \in 1 .. Len(t)
      PROVE  m[t[i]] = IF i = Len(t) THEN NULL ELSE t[i + 1]
  <2> DEFINE j == IF i < p + 1 THEN i ELSE i + 1
  <2>1. j \in 1 .. k /\ j # p + 1 /\ t[i] = s[j] /\ i \in 1 .. k - 1
    BY <1>2, <1>3
  <2>2. s[j] # c /\ s[j] \in Fds
    BY <1>1, <1>2, <2>1
  <2>3. CASE j = p
    <3>1. p # 0 /\ i = p /\ s[j] = s[p]
      BY <1>2, <2>1, <2>3
    <3>2. m[s[j]] = n[c]
      BY <1>1, <2>2, <3>1 DEF m
    <3>3. i # k - 1 => i + 1 \in 1 .. k - 1 /\ t[i + 1] = s[(p + 1) + 1]
      BY <1>1, <1>2, <1>3, <2>1, <3>1
    <3>4. i = k - 1 <=> p + 1 = k
      BY <1>1, <1>2, <3>1
    <3> QED
      BY <1>3, <1>4, <2>1, <3>2, <3>3, <3>4
  <2>4. CASE j # p
    <3>1. p # 0 => s[j] # s[p]
      BY <1>1, <1>2, <2>1, <2>4
    <3>2. m[s[j]] = n[s[j]]
      BY <1>1, <2>2, <3>1 DEF m
    <3>3. n[s[j]] = IF j = k THEN NULL ELSE s[j + 1]
      BY <1>1, <2>1
    <3>4. i = k - 1 <=> j = k
      BY <1>1, <1>2, <2>1, <2>4
    <3>5. i # k - 1 => i + 1 \in 1 .. k - 1 /\ t[i + 1] = s[j + 1]
      <4>1. i + 1 < p + 1 <=> i < p + 1
        BY <1>2, <2>1, <2>4
      <4> QED
        BY <1>1, <1>2, <1>3, <2>1, <4>1
    <3> HIDE DEF j
    <3> QED
      BY <1>3, <2>1, <3>2, <3>3, <3>4, <3>5
  <2> QED
    BY <2>3, <2>4
<1> QED
  BY <1>3, <1>5, <1>6, <1>7, <1>8, <1>9 DEF IsList, t, g, m

-----------------------------------------------------------------------------
(* The inductive invariant.  ListSound alone is not inductive: it takes    *)
(* the order of the clients, and where in it the walk is, to know which    *)
(* links a removal changes and whom the walk has still to serve.           *)

WalkedTo(s, p) ==
  /\ round.prev = IF p = 0 THEN NULL ELSE s[p]
  /\ round.client = IF p = Len(s) THEN NULL ELSE s[p + 1]
  /\ round.due = round.served \cup (round.ready \cap {s[i] : i \in p + 1 .. Len(s)})

Linked == \E s : /\ IsList(s, head, nxt, alive)
                 /\ round.on => \E p \in 0 .. Len(s) : WalkedTo(s, p)

Watched == /\ sockSet \in SUBSET Fds /\ maxFd \in Nat
           /\ \A fd \in sockSet : fd <= maxFd
           /\ (round.on /\ round.rebuild) \/ sockSet \subseteq alive

(* A waiting connection always finds a free socket number.                 *)
Waiting == backlog \in 0 .. Cardinality(Fds \ alive)

Rounds == /\ DOMAIN round = DOMAIN NoRound
          /\ ~round.on => round = NoRound

IInv == Linked /\ Watched /\ Waiting /\ Rounds

LEMMA BegunIs ==
  ASSUME NEW h, Begun(h)
  PROVE  /\ round'.on = TRUE /\ round'.ready = Readable
         /\ round'.client = h /\ round'.prev = NULL
         /\ round'.rebuild = FALSE /\ round'.served = {}
         /\ round'.due = Readable \cap Clients
         /\ Rounds'
BY DEF Begun, NoRound, Rounds

LEMMA AdvanceIs ==
  ASSUME Rounds, round.on,
         NEW prev, NEW next, NEW served, NEW rebuild,
         Advance(prev, next, served, rebuild)
  PROVE  /\ round'.on = round.on /\ round'.ready = round.ready
         /\ round'.client = next /\ round'.prev = prev
         /\ round'.rebuild = rebuild /\ round'.served = served
         /\ round'.due = round.due
         /\ round'.on => Rounds'
BY DEF Advance, NoRound, Rounds

LEMMA NumbersLeft ==
  ASSUME NEW S, S \subseteq Fds
  PROVE  IsFiniteSet(S) /\ Cardinality(S) \in Nat
BY ServerAssumption, FS_Subset, FS_CardinalityType

LEMMA AliveAreSockets ==
  ASSUME Linked
  PROVE  alive \subseteq Fds
BY DEF Linked, IsList

(* accept() takes a number that is free.                                   *)
LEMMA LeastIsFree ==
  ASSUME IInv, backlog > 0
  PROVE  Least(Fds \ alive) \in Fds \ alive
<1>1. Cardinality(Fds \ alive) # 0
  BY NumbersLeft DEF IInv, Waiting
<1>2. Fds \ alive # {}
  BY <1>1, FS_EmptySet
<1>3. Fds \ alive \in SUBSET Nat
  BY SocketsAreNumbers
<1>4. \E m \in Fds \ alive : \A k \in Fds \ alive : m <= k
  BY <1>2, <1>3, LeastNumber
<1> QED
  BY <1>4 DEF Least

(* The number of a socket closed or opened is one number more or less to   *)
(* take. *)
LEMMA OneLess ==
  ASSUME NEW a \in SUBSET Fds, NEW fd \in Fds \ a
  PROVE  Cardinality(Fds \ (a \cup {fd})) = Cardinality(Fds \ a) - 1
<1>1. IsFiniteSet(Fds \ a)
  BY NumbersLeft
<1>2. PICK left : left = Fds \ a
  OBVIOUS
<1>3. Fds \ (a \cup {fd}) = left \ {fd} /\ fd \in left
  BY <1>2
<1>4. Cardinality(left \ {fd}) = Cardinality(left) - 1
  BY <1>1, <1>2, <1>3, FS_RemoveElement
<1> QED
  BY <1>2, <1>3, <1>4

LEMMA SomeMore ==
  ASSUME NEW a \in SUBSET Fds, NEW b \in SUBSET a
  PROVE  /\ Cardinality(Fds \ a) <= Cardinality(Fds \ b)
         /\ Cardinality(Fds \ a) \in Nat /\ Cardinality(Fds \ b) \in Nat
<1>1. IsFiniteSet(Fds \ b) /\ Fds \ a \subseteq Fds \ b
  BY NumbersLeft
<1> QED
  BY <1>1, NumbersLeft, FS_Subset

-----------------------------------------------------------------------------
(* One lemma per action that changes the list or the round.                *)

LEMMA InitIsFine == Init => IInv
<1> SUFFICES ASSUME Init
             PROVE  IInv
  OBVIOUS
<1>1. IsList(<< >>, head, nxt, alive)
  BY DEF Init, IsList
<1>2. Linked
  BY <1>1 DEF Linked, Init, NoRound
<1>3. Watched
  BY ServerAssumption DEF Watched, Init
<1>4. Waiting
  BY NumbersLeft DEF Waiting, Init
<1>5. Rounds
  BY DEF Rounds, Init
<1> QED
  BY <1>2, <1>3, <1>4, <1>5 DEF IInv

LEMMA ReadableIs ==
  ASSUME IInv, ~round.on
  PROVE  Readable \subseteq sockSet /\ sockSet \subseteq alive /\ Clients = alive
BY WalkFindsAll DEF IInv, Linked, Watched, Readable

LEMMA SelectKeeps == IInv /\ Select => IInv'
<1> SUFFICES ASSUME IInv, Select
             PROVE  IInv'
  OBVIOUS
<1>1. /\ ~round.on /\ Begun(head)
      /\ UNCHANGED <<head, nxt, alive, sockSet, maxFd, backlog>>
  BY DEF Select, listVars, setVars, peerVars
<1>2. PICK s : IsList(s, head, nxt, alive)
  BY DEF IInv, Linked
<1>3. /\ round'.ready = Readable /\ round'.client = head /\ round'.prev = NULL
      /\ round'.served = {} /\ round'.due = Readable \cap Clients
      /\ round'.on /\ ~round'.rebuild
      /\ Rounds'
  BY <1>1, BegunIs
<1>4. Readable \subseteq sockSet /\ sockSet \subseteq alive /\ Clients = alive
  BY <1>1, ReadableIs
<1>5. WalkedTo(s, 0)' /\ 0 \in 0 .. Len(s)
  <2>1. Len(s) \in Nat
    BY <1>2, ListIsShort
  <2>2. alive = {s[i] : i \in 0 + 1 .. Len(s)} /\ head = IF 0 = Len(s) THEN NULL ELSE s[0 + 1]
    BY <1>2 DEF IsList
  <2> QED
    BY <1>3, <1>4, <2>1, <2>2 DEF WalkedTo
<1>6. Linked'
  BY <1>1, <1>2, <1>5 DEF Linked
<1>7. Watched'
  BY <1>1, <1>3, <1>4 DEF IInv, Watched
<1>8. Waiting'
  BY <1>1 DEF IInv, Waiting
<1> QED
  BY <1>3, <1>6, <1>7, <1>8 DEF IInv

LEMMA SelectAndAcceptKeeps == IInv /\ SelectAndAccept => IInv'
<1> SUFFICES ASSUME IInv, SelectAndAccept
             PROVE  IInv'
  OBVIOUS
<1> DEFINE fd == Least(Fds \ alive)
<1>1. /\ ~round.on /\ Begun(head') /\ backlog > 0
      /\ backlog' = backlog - 1
      /\ alive' = alive \cup {fd}
      /\ sockSet' = sockSet \cup {fd}
      /\ maxFd' = Raised(fd)
      /\ head' = IF head = NULL THEN fd ELSE head
      /\ nxt' = IF head = NULL THEN [nxt EXCEPT ![fd] = NULL]
                ELSE [nxt EXCEPT ![fd] = NULL, ![Tail0] = fd]
  BY DEF SelectAndAccept
<1>2. fd \in Fds \ alive
  BY <1>1, LeastIsFree
<1> HIDE DEF fd
<1>3. PICK s : IsList(s, head, nxt, alive)
  BY DEF IInv, Linked
<1>4. Len(s) \in Nat
  BY <1>3, ListIsShort
<1>5. PICK t : t \in Seq(Fds) /\ IsList(t, head', nxt', alive')
  <2>1. head # NULL => Tail0 = s[Len(s)]
    BY <1>3, <1>4, WalkFindsAll DEF IsList
  <2>2. IsList(Append(s, fd), head', nxt', alive')
    BY <1>1, <1>2, <1>3, <2>1, ListAppend
  <2> QED
    BY <2>2 DEF IsList
<1>6. /\ round'.ready = Readable /\ round'.client = head' /\ round'.prev = NULL
      /\ round'.served = {} /\ round'.due = Readable \cap Clients
      /\ round'.on /\ ~round'.rebuild
      /\ Rounds'
  BY <1>1, BegunIs
<1>7. Readable \subseteq sockSet /\ sockSet \subseteq alive /\ Clients = alive
  BY <1>1, ReadableIs
<1>8. WalkedTo(t, 0)' /\ 0 \in 0 .. Len(t)
  <2>1. Len(t) \in Nat
    BY <1>5
  <2>2. /\ alive' = {t[i] : i \in 0 + 1 .. Len(t)}
        /\ head' = IF 0 = Len(t) THEN NULL ELSE t[0 + 1]
    BY <1>5 DEF IsList
  <2>3. Readable \cap Clients = {} \cup (Readable \cap alive')
    BY <1>1, <1>2, <1>7
  <2> QED
    BY <1>6, <2>1, <2>2, <2>3 DEF WalkedTo
<1>9. Linked'
  BY <1>5, <1>8 DEF Linked
<1>10. Watched'
  BY <1>1, <1>2, <1>7, SocketsAreNumbers DEF IInv, Watched, Raised
<1>11. Waiting'
  <2>1. alive \in SUBSET Fds
    BY AliveAreSockets DEF IInv
  <2> QED
    BY <1>1, <1>2, <2>1, OneLess, NumbersLeft DEF IInv, Waiting
<1> QED
  BY <1>6, <1>9, <1>10, <1>11 DEF IInv

(* Where the walk is: at a client of the list.                             *)
LEMMA AtClient ==
  ASSUME NEW s, IsList(s, head, nxt, alive), NEW p \in 0 .. Len(s), WalkedTo(s, p),
         round.client # NULL
  PROVE  /\ Len(s) \in Nat /\ p \in 0 .. Len(s) - 1 /\ p + 1 \in 1 .. Len(s)
         /\ round.client = s[p + 1] /\ round.client \in Fds
         /\ nxt[round.client] = IF p + 1 = Len(s) THEN NULL ELSE s[(p + 1) + 1]
<1>1. Len(s) \in Nat /\ p # Len(s)
  BY ListIsShort DEF WalkedTo
<1>2. p \in 0 .. Len(s) - 1 /\ p + 1 \in 1 .. Len(s)
  BY <1>1
<1> QED
  BY <1>1, <1>2 DEF IsList, WalkedTo

(* The walk moves on by one client, which has been served if it was ready. *)
LEMMA MovesOn ==
  ASSUME IInv, round.on, round.client # NULL,
         UNCHANGED <<head, nxt, alive, sockSet, maxFd, backlog>>,
         NEW served,
         served = IF round.client \in round.ready THEN round.served \cup {round.client}
                  ELSE round.served,
         Advance(round.client, nxt[round.client], served, round.rebuild)
  PROVE  IInv'
<1>1. PICK s : IsList(s, head, nxt, alive) /\ \E p \in 0 .. Len(s) : WalkedTo(s, p)
  BY DEF IInv, Linked
<1>2. PICK p \in 0 .. Len(s) : WalkedTo(s, p)
  BY <1>1
<1> DEFINE c == round.client
<1>3. /\ Len(s) \in Nat /\ p \in 0 .. Len(s) - 1 /\ p + 1 \in 1 .. Len(s)
      /\ c = s[p + 1] /\ c \in Fds
      /\ nxt[c] = IF p + 1 = Len(s) THEN NULL ELSE s[(p + 1) + 1]
  BY <1>1, <1>2, AtClient
<1>4. /\ round'.on /\ round'.ready = round.ready
      /\ round'.client = nxt[c] /\ round'.prev = c
      /\ round'.rebuild = round.rebuild /\ round'.served = served
      /\ round'.due = round.due /\ Rounds'
  BY AdvanceIs DEF IInv
<1>5. {s[i] : i \in p + 1 .. Len(s)} = {c} \cup {s[i] : i \in (p + 1) + 1 .. Len(s)}
  <2>1. \A i \in p + 1 .. Len(s) : i = p + 1 \/ i \in (p + 1) + 1 .. Len(s)
    BY <1>3
  <2>2. p + 1 \in p + 1 .. Len(s) /\ (p + 1) + 1 .. Len(s) \subseteq p + 1 .. Len(s)
    BY <1>3
  <2> QED
    BY <1>3, <2>1, <2>2
<1>6. round.due = served \cup (round.ready \cap {s[i] : i \in (p + 1) + 1 .. Len(s)})
  BY <1>2, <1>5 DEF WalkedTo
<1>7. WalkedTo(s, p + 1)' /\ p + 1 \in 0 .. Len(s) /\ p + 1 # 0
  BY <1>3, <1>4, <1>6 DEF WalkedTo
<1>8. Linked'
  BY <1>1, <1>7 DEF Linked
<1>9. Watched'
  BY <1>4 DEF IInv, Watched
<1>10. Waiting'
  BY DEF IInv, Waiting
<1> QED
  BY <1>4, <1>8, <1>9, <1>10 DEF IInv

LEMMA DropKeeps == IInv /\ Drop => IInv'
<1> SUFFICES ASSUME IInv, Drop
             PROVE  IInv'
  OBVIOUS
<1> DEFINE c == round.client
<1>1. /\ round.on /\ c # NULL /\ c \in round.ready
      /\ Unlinked(c, round.prev)
      /\ alive' = alive \ {c}
      /\ Advance(round.prev, nxt[c], round.served \cup {c}, TRUE)
      /\ UNCHANGED <<sockSet, maxFd, backlog>>
  BY DEF Drop, PrevAfterDrop, NextAfterDrop, setVars
<1>2. PICK s : IsList(s, head, nxt, alive) /\ \E p \in 0 .. Len(s) : WalkedTo(s, p)
  BY <1>1 DEF IInv, Linked
<1>3. PICK p \in 0 .. Len(s) : WalkedTo(s, p)
  BY <1>2
<1>4. /\ Len(s) \in Nat /\ p \in 0 .. Len(s) - 1 /\ p + 1 \in 1 .. Len(s)
      /\ c = s[p + 1] /\ c \in Fds
      /\ nxt[c] = IF p + 1 = Len(s) THEN NULL ELSE s[(p + 1) + 1]
  BY <1>1, <1>2, <1>3, AtClient
<1>5. s \in Seq(Fds)
  BY <1>2 DEF IsList
<1> DEFINE t == Without(s, p + 1)
<1>6. /\ t \in Seq(Fds) /\ Len(t) = Len(s) - 1
      /\ \A i \in 1 .. Len(s) - 1 : t[i] = IF i < p + 1 THEN s[i] ELSE s[i + 1]
  BY <1>4, <1>5, WithoutIs
<1> HIDE DEF t
<1>7. IsList(t, head', nxt', alive')
  <2>1. /\ p = 0 <=> round.prev = NULL
        /\ p # 0 => round.prev = s[p]
    <3>1. p # 0 => s[p] \in Fds
      BY <1>4, <1>5
    <3> QED
      BY <1>3, <3>1, SocketsAreNumbers DEF WalkedTo
  <2>2. /\ head' = IF p = 0 THEN nxt[c] ELSE head
        /\ nxt' = IF p = 0 THEN [nxt EXCEPT ![c] = NULL]
                  ELSE [nxt EXCEPT ![s[p]] = nxt[c], ![c] = NULL]
    BY <1>1, <2>1 DEF Unlinked
  <2>3. IsList(t, IF p = 0 THEN nxt[c] ELSE head,
               IF p = 0 THEN [nxt EXCEPT ![c] = NULL]
               ELSE [nxt EXCEPT ![s[p]] = nxt[c], ![c] = NULL],
               alive \ {c})
    BY <1>2, <1>4, ListRemove DEF t
  <2> QED
    BY <1>1, <2>2, <2>3
<1>8. /\ round'.on /\ round'.ready = round.ready
      /\ round'.client = nxt[c] /\ round'.prev = round.prev
      /\ round'.rebuild = TRUE /\ round'.served = round.served \cup {c}
      /\ round'.due = round.due /\ Rounds'
  BY <1>1, AdvanceIs DEF IInv
<1>9. {s[i] : i \in p + 1 .. Len(s)} = {c} \cup {t[i] : i \in p + 1 .. Len(t)}
  <2>1. \A i \in p + 1 .. Len(s) : i = p + 1 \/ (i - 1 \in p + 1 .. Len(t) /\ t[i - 1] = s[i])
    BY <1>4, <1>6
  <2>2. \A i \in p + 1 .. Len(t) : i + 1 \in p + 1 .. Len(s) /\ t[i] = s[i + 1]
    BY <1>4, <1>6
  <2>3. p + 1 \in p + 1 .. Len(s)
    BY <1>4
  <2>4. ASSUME NEW x \in {s[i] : i \in p + 1 .. Len(s)}
        PROVE  x \in {c} \cup {t[i] : i \in p + 1 .. Len(t)}
    <3>1. PICK i \in p + 1 .. Len(s) : x = s[i]
      OBVIOUS
    <3> QED
      BY <1>4, <2>1, <3>1
  <2>5. ASSUME NEW i \in p + 1 .. Len(t)
        PROVE  t[i] \in {s[j] : j \in p + 1 .. Len(s)}
    BY <2>2
  <2> QED
    BY <1>4, <2>3, <2>4, <2>5
<1>10. WalkedTo(t, p)' /\ p \in 0 .. Len(t)
  <2>1. p # 0 => t[p] = s[p]
    BY <1>4, <1>6
  <2>2. nxt[c] = IF p = Len(t) THEN NULL ELSE t[p + 1]
    BY <1>4, <1>6
  <2>3. round.due = (round.served \cup {c}) \cup (round.ready \cap {t[i] : i \in p + 1 .. Len(t)})
    BY <1>1, <1>3, <1>9 DEF WalkedTo
  <2>4. p \in 0 .. Len(t)
    BY <1>4, <1>6
  <2>5. round.prev = IF p = 0 THEN NULL ELSE t[p]
    BY <1>3, <2>1 DEF WalkedTo
  <2> QED
    BY <1>8, <2>2, <2>3, <2>4, <2>5 DEF WalkedTo
<1>11. Linked'
  BY <1>7, <1>10 DEF Linked
<1>12. Watched'
  BY <1>1, <1>8 DEF IInv, Watched
<1>13. Waiting'
  <2>1. alive \in SUBSET Fds /\ alive' \in SUBSET alive
    BY <1>1, AliveAreSockets DEF IInv
  <2>2. /\ Cardinality(Fds \ alive) <= Cardinality(Fds \ alive')
        /\ Cardinality(Fds \ alive) \in Nat /\ Cardinality(Fds \ alive') \in Nat
    BY <2>1, SomeMore
  <2> QED
    BY <1>1, <2>2 DEF IInv, Waiting
<1> QED
  BY <1>8, <1>11, <1>12, <1>13 DEF IInv

(* The set is emptied, and its bound is the greatest socket in the list.   *)
LEMMA FinishKeeps == IInv /\ Finish => IInv'
<1> SUFFICES ASSUME IInv, Finish
             PROVE  IInv'
  OBVIOUS
<1>1. /\ round' = NoRound /\ UNCHANGED <<head, nxt, alive, backlog>>
      /\ round.on
      /\ IF round.rebuild
         THEN sockSet' = {} /\ maxFd' = Greatest({ServerFd} \cup Clients)
         ELSE UNCHANGED <<sockSet, maxFd>>
  BY DEF Finish, listVars, setVars, peerVars
<1>2. Linked' /\ Rounds'
  BY <1>1 DEF IInv, Linked, Rounds, NoRound
<1>3. Waiting'
  BY <1>1 DEF IInv, Waiting
<1>4. ~round'.on /\ ~NoRound.on
  BY <1>1 DEF NoRound
<1>5. CASE ~round.rebuild
  <2>1. Watched'
    BY <1>1, <1>4, <1>5 DEF IInv, Watched
  <2> QED
    BY <1>2, <1>3, <2>1 DEF IInv
<1>6. CASE round.rebuild
  <2> DEFINE S == {ServerFd} \cup Clients
  <2>1. Clients = alive /\ alive \subseteq Fds
    BY WalkFindsAll, AliveAreSockets DEF IInv, Linked
  <2>2. S \in SUBSET Nat /\ S # {} /\ IsFiniteSet(S)
    <3>1. IsFiniteSet(alive)
      BY <2>1, NumbersLeft
    <3>2. IsFiniteSet(alive \cup {ServerFd})
      BY <3>1, FS_AddElement
    <3>3. S = alive \cup {ServerFd}
      BY <2>1
    <3> QED
      BY <2>1, <3>2, <3>3, ServerAssumption
  <2> HIDE DEF S
  <2>3. PICK n \in Nat : \A k \in S : k <= n
    BY <2>2, FiniteIsBounded
  <2>4. S \in SUBSET (0 .. n)
    BY <2>2, <2>3
  <2>5. \E m \in S : \A k \in S : k <= m
    BY <2>2, <2>4, GreatestNumber
  <2>6. \E m \in S : \A k \in S : m >= k
    BY <2>2, <2>5
  <2>7. Greatest(S) \in S
    BY <2>6 DEF Greatest
  <2>8. maxFd' \in Nat /\ sockSet' = {}
    BY <1>1, <1>6, <2>2, <2>7 DEF S
  <2>9. Watched'
    BY <2>8 DEF Watched
  <2> QED
    BY <1>2, <1>3, <2>9 DEF IInv
<1> QED
  BY <1>5, <1>6

LEMMA RecreateKeeps == IInv /\ Recreate => IInv'
<1> SUFFICES ASSUME IInv, Recreate
             PROVE  IInv'
  OBVIOUS
<1>1. /\ ~round.on /\ round' = round
      /\ head' = NULL /\ nxt' = [fd \in Fds |-> NULL] /\ alive' = {}
      /\ sockSet' = {} /\ maxFd' = ServerFd /\ backlog' = 0
  BY DEF Recreate
<1>2. IsList(<< >>, head', nxt', alive')
  BY <1>1 DEF IsList
<1>3. Linked'
  BY <1>1, <1>2 DEF Linked
<1>4. Watched'
  BY <1>1, ServerAssumption DEF Watched
<1>5. Waiting'
  BY <1>1, NumbersLeft DEF Waiting
<1>6. Rounds'
  BY <1>1 DEF IInv, Rounds
<1> QED
  BY <1>3, <1>4, <1>5, <1>6 DEF IInv

LEMMA StepKeeps == IInv /\ [Next]_vars => IInv'
<1> SUFFICES ASSUME IInv, [Next]_vars
             PROVE  IInv'
  OBVIOUS
<1>1. CASE Select
  BY <1>1, SelectKeeps
<1>2. CASE SelectAndAccept
  BY <1>2, SelectAndAcceptKeeps
<1>3. CASE PassOver
  <2>1. /\ round.on /\ round.client # NULL /\ round.client \notin round.ready
        /\ Advance(round.client, nxt[round.client], round.served, round.rebuild)
        /\ UNCHANGED <<head, nxt, alive, sockSet, maxFd, backlog>>
    BY <1>3 DEF PassOver, listVars, setVars, peerVars
  <2> QED
    BY <2>1, MovesOn
<1>4. CASE Serve
  <2>1. /\ round.on /\ round.client # NULL /\ round.client \in round.ready
        /\ Advance(round.client, nxt[round.client],
                   round.served \cup {round.client}, round.rebuild)
        /\ UNCHANGED <<head, nxt, alive, sockSet, maxFd, backlog>>
    BY <1>4 DEF Serve, setVars
  <2> QED
    BY <2>1, MovesOn
<1>5. CASE Drop
  BY <1>5, DropKeeps
<1>6. CASE Finish
  BY <1>6, FinishKeeps
<1>7. CASE Recreate
  BY <1>7, RecreateKeeps
<1>8. CASE Connect
  <2>1. /\ UNCHANGED <<head, nxt, alive, sockSet, maxFd, round>>
        /\ backlog < Cardinality(Fds \ alive) /\ backlog' = backlog + 1
    BY <1>8 DEF Connect, listVars, setVars
  <2>2. Linked'
    BY <2>1 DEF IInv, Linked, IsList, WalkedTo
  <2>3. Watched' /\ Rounds'
    BY <2>1 DEF IInv, Watched, Rounds
  <2>4. Waiting'
    BY <2>1, NumbersLeft DEF IInv, Waiting
  <2> QED
    BY <2>2, <2>3, <2>4 DEF IInv
<1>9. CASE \/ usbip_add_device
           \/ \E fd \in Fds : HangUp(fd) \/ \E m \in Commands : Send(fd, m)
           \/ UNCHANGED vars
  <2>1. UNCHANGED <<head, nxt, alive, sockSet, maxFd, backlog, round>>
    BY <1>9 DEF usbip_add_device, HangUp, Send, vars, listVars, setVars, peerVars
  <2> QED
    BY <2>1 DEF IInv, Linked, IsList, WalkedTo, Watched, Waiting, Rounds
<1> QED
  BY <1>1, <1>2, <1>3, <1>4, <1>5, <1>6, <1>7, <1>8, <1>9 DEF Next, Update, Peers

THEOREM Invariance == Spec => []IInv
BY InitIsFine, StepKeeps, PTL DEF Spec

-----------------------------------------------------------------------------
(* Whatever the order in which clients connect, hang up and are removed,   *)
(* also in the middle of a walk, the list from server->clients ends and    *)
(* holds exactly the clients that are allocated, and client and prev of    *)
(* usbip_server_update() are never those of a freed one. *)
THEOREM ListStaysSound == Spec => []ListSound
<1>1. IInv => ListSound
  <2> SUFFICES ASSUME IInv
               PROVE  ListSound
    OBVIOUS
  <2>1. PICK s : /\ IsList(s, head, nxt, alive)
                 /\ round.on => \E p \in 0 .. Len(s) : WalkedTo(s, p)
    BY DEF IInv, Linked
  <2>2. Walk[Cardinality(Fds)] = NULL /\ Clients = alive
    BY <2>1, WalkFindsAll
  <2>3. CASE ~round.on
    BY <2>2, <2>3 DEF ListSound, IInv, Rounds, NoRound
  <2>4. CASE round.on
    <3>1. PICK p \in 0 .. Len(s) : WalkedTo(s, p)
      BY <2>1, <2>4
    <3>2. Len(s) \in Nat
      BY <2>1, ListIsShort
    <3>3. /\ \A i \in 1 .. Len(s) : s[i] \in alive
          /\ \A i \in 1 .. Len(s) : nxt[s[i]] = IF i = Len(s) THEN NULL ELSE s[i + 1]
      BY <2>1 DEF IsList
    <3>4. /\ p # 0 => p \in 1 .. Len(s)
          /\ p # Len(s) => p + 1 \in 1 .. Len(s)
      BY <3>2
    <3>5. {round.client, round.prev} \subseteq alive \cup {NULL}
      BY <3>1, <3>3, <3>4 DEF WalkedTo
    <3>6. round.prev # NULL => nxt[round.prev] = round.client
      BY <3>1, <3>3, <3>4 DEF WalkedTo
    <3> QED
      BY <2>2, <3>5, <3>6 DEF ListSound
  <2> QED
    BY <2>3, <2>4
<1> QED
  BY <1>1, Invariance, PTL

(* usbip_server_update() receives from each client that select() reported, *)
(* exactly once, whichever clients are removed during the walk.            *)
THEOREM EveryoneDueIsServed == Spec => []AllDueServed
<1>1. IInv => AllDueServed
  <2> SUFFICES ASSUME IInv, round.on, round.client = NULL
               PROVE  round.served = round.due
    BY DEF AllDueServed
  <2>1. PICK s : IsList(s, head, nxt, alive) /\ \E p \in 0 .. Len(s) : WalkedTo(s, p)
    BY DEF IInv, Linked
  <2>2. PICK p \in 0 .. Len(s) : WalkedTo(s, p)
    BY <2>1
  <2>3. Len(s) \in Nat
    BY <2>1, ListIsShort
  <2>4. p = Len(s)
    <3>1. p # Len(s) => p + 1 \in 1 .. Len(s)
      BY <2>3
    <3>2. \A i \in 1 .. Len(s) : s[i] # NULL
      BY <2>1, SocketsAreNumbers DEF IsList
    <3> QED
      BY <2>2, <3>1, <3>2 DEF WalkedTo
  <2>5. {s[i] : i \in p + 1 .. Len(s)} = {}
    BY <2>3, <2>4
  <2> QED
    BY <2>2, <2>5 DEF WalkedTo
<1> QED
  BY <1>1, Invariance, PTL

(* select() is never given a socket that usbip_client_close() closed, nor  *)
(* a max_set_fd below one that it watches. *)
THEOREM WatchesOpenSockets == Spec => []WatchedAreOpen
<1>1. IInv => WatchedAreOpen
  BY DEF IInv, Watched, WatchedAreOpen
<1> QED
  BY <1>1, Invariance, PTL
=============================================================================
