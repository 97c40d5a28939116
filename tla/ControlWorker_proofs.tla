------------------------ MODULE ControlWorker_proofs ------------------------
(***************************************************************************)
(* The Durable Object implements the service of ControlServer although its *)
(* registrations await the crypto library, and its sessions, cards and     *)
(* counters agree in every reachable state, for every number of sockets,   *)
(* devices, rooms and addresses and for every value of the limits.         *)
(***************************************************************************)
EXTENDS ControlWorker, FiniteSetTheorems, TLAPS

DataTypes ==
  /\ clients \in [Socket -> Client \cup {None}]
  /\ rooms \in [Room -> SUBSET Socket] /\ auth \in [Room -> Auth \cup {None}]
  /\ socketsByPeerId \in [Peer -> Socket \cup {None}]
  /\ deviceLimits \in [Peer -> (SUBSET Peer) \cup {None}]
  /\ connections \in Nat /\ connectionsByIp \in [Ip -> Nat]
  /\ retainedBytes \in Int

QueueTypes ==
  /\ queue \in Seq(Entry) /\ running \in Entry \cup {None}
  /\ pendingMessages \in Int
  /\ pendingByClient \in [Socket -> Int] /\ pendingByIp \in [Ip -> Int]

TypeOK == DataTypes /\ QueueTypes

(* The members of a room are connected, and a room without members has no  *)
(* capability.                                                             *)
RoomsTrue ==
  \A r \in Room : rooms[r] \subseteq Connected /\ (rooms[r] = {} => auth[r] = None)

(* What is verified is a registration, of a client that has no other       *)
(* identity, unless its connection is gone.                                *)
RunningTrue ==
  running # None =>
    /\ Registers(running)
    /\ PeerOf(running.socket) \in {None, running.message.peer}

(* What the handlers keep of the data of the service.                      *)
DataInv == DataTypes /\ RoomsTrue /\ OneSession /\ RetainedTrue

IInv == DataInv /\ QueueTypes /\ RunningTrue /\ PendingTrue

----------------------------------------------------------------------------
(* Counting.                                                               *)

LEMMA DisjointSum ==
  ASSUME NEW S, NEW T, IsFiniteSet(S), IsFiniteSet(T), S \cap T = {}
  PROVE  /\ IsFiniteSet(S \cup T)
         /\ Cardinality(S \cup T) = Cardinality(S) + Cardinality(T)
         /\ Cardinality(S) \in Nat /\ Cardinality(T) \in Nat
<1>1. /\ IsFiniteSet(S \cup T)
      /\ Cardinality(S \cup T) = Cardinality(S) + Cardinality(T) - Cardinality(S \cap T)
  BY FS_Union
<1>2. Cardinality(S \cap T) = 0 /\ Cardinality(S) \in Nat /\ Cardinality(T) \in Nat
  BY FS_EmptySet, FS_CardinalityType
<1> QED BY <1>1, <1>2

(* The entries that stay have the ranks 1, 2, ... in their order.          *)
LEMMA Ranks ==
  ASSUME NEW kept \in SUBSET Nat, IsFiniteSet(kept)
  PROVE  LET rank(n) == Cardinality({m \in kept : m <= n})
             size == Cardinality(kept)
         IN  /\ \A n \in kept : rank(n) \in 1 .. size
             /\ \A n, m \in kept : rank(n) = rank(m) => n = m
             /\ \A k \in 1 .. size : \E n \in kept : rank(n) = k
             /\ size \in Nat
<1> DEFINE upto(n) == {m \in kept : m <= n}
           rank(n) == Cardinality(upto(n))
           size == Cardinality(kept)
<1>1. size \in Nat
  BY FS_CardinalityType
<1>2. ASSUME NEW n \in kept
      PROVE  IsFiniteSet(upto(n)) /\ rank(n) \in Nat /\ rank(n) <= size
  <2>1. upto(n) \in SUBSET kept
    OBVIOUS
  <2> HIDE DEF upto
  <2> QED BY <2>1, FS_Subset, FS_CardinalityType
<1>3. ASSUME NEW n \in kept
      PROVE  rank(n) \in 1 .. size
  <2>1. n \in upto(n)
    OBVIOUS
  <2> HIDE DEF upto
  <2>2. rank(n) # 0
    BY <1>2, <2>1, FS_EmptySet
  <2> QED BY <1>1, <1>2, <2>2
<1>4. ASSUME NEW n \in kept, NEW m \in kept, n < m
      PROVE  rank(n) < rank(m)
  <2>1. upto(n) \in SUBSET upto(m) /\ m \in upto(m) /\ m \notin upto(n)
    <3>1. \A x \in kept : x \in Nat
      OBVIOUS
    <3>2. \A x \in kept : x <= n => x <= m
      BY <1>4, <3>1
    <3>3. m <= m /\ ~(m <= n)
      BY <1>4, <3>1
    <3> QED BY <3>2, <3>3
  <2> HIDE DEF upto
  <2>2. /\ rank(n) <= rank(m)
        /\ rank(m) = rank(n) => upto(m) = upto(n)
    BY <1>2, <2>1, FS_Subset
  <2>3. rank(n) \in Nat /\ rank(m) \in Nat
    BY <1>2
  <2> QED BY <2>1, <2>2, <2>3
<1>5. ASSUME NEW n \in kept, NEW m \in kept, rank(n) = rank(m)
      PROVE  n = m
  <2> HIDE DEF rank
  <2>1. n \in Nat /\ m \in Nat /\ rank(n) \in Nat /\ rank(m) \in Nat
    BY <1>1, <1>3
  <2> QED BY <1>4, <1>5, <2>1
<1>6. ASSUME NEW k \in 1 .. size
      PROVE  \E n \in kept : rank(n) = k
  <2> DEFINE f == [n \in kept |-> rank(n)]
  <2> HIDE DEF rank
  <2>1. f \in [kept -> 1 .. size]
    BY <1>3
  <2>2. f \in Injection(kept, 1 .. size)
    BY <1>5, <2>1 DEF Injection, IsInjective
  <2>3. IsFiniteSet(1 .. size) /\ Cardinality(1 .. size) = size
    BY <1>1, FS_Interval
  <2>4. f \in Surjection(kept, 1 .. size)
    <3> HIDE DEF f
    <3> QED BY <2>2, <2>3, FS_Injection
  <2>5. \E n \in kept : f[n] = k
    BY <2>4 DEF Surjection
  <2> QED BY <2>5
<1> QED BY <1>1, <1>3, <1>5, <1>6

IndexesOf(q, S) == {n \in DOMAIN q : q[n].socket \in S}

LEMMA IndexesFinite ==
  ASSUME NEW q \in Seq(Entry), NEW S
  PROVE  IsFiniteSet(IndexesOf(q, S)) /\ Count(q, S) \in Nat
<1>1. IndexesOf(q, S) \in SUBSET (1 .. Len(q)) /\ Len(q) \in Nat
  BY DEF IndexesOf
<1>2. IsFiniteSet(1 .. Len(q))
  BY <1>1, FS_Interval
<1>3. IsFiniteSet(IndexesOf(q, S)) /\ Cardinality(IndexesOf(q, S)) \in Nat
  BY <1>1, <1>2, FS_Subset, FS_CardinalityType
<1> QED BY <1>3 DEF Count, IndexesOf

(* Two queues count the same of S if their entries of S correspond.        *)
LEMMA SameCount ==
  ASSUME NEW q \in Seq(Entry), NEW S, NEW t \in Seq(Entry), NEW T,
         NEW f \in Bijection(IndexesOf(q, S), IndexesOf(t, T))
  PROVE  Count(q, S) = Count(t, T)
<1>1. ExistsBijection(IndexesOf(q, S), IndexesOf(t, T))
  BY DEF ExistsBijection
<1>2. Cardinality(IndexesOf(q, S)) = Cardinality(IndexesOf(t, T))
  BY <1>1, IndexesFinite, FS_Bijection
<1> QED BY <1>2 DEF Count, IndexesOf

LEMMA CountSplits ==
  ASSUME NEW q \in Seq(Entry), NEW S, NEW A, NEW B,
         S = A \cup B, A \cap B = {}
  PROVE  Count(q, S) = Count(q, A) + Count(q, B)
<1>1. /\ IndexesOf(q, S) = IndexesOf(q, A) \cup IndexesOf(q, B)
      /\ IndexesOf(q, A) \cap IndexesOf(q, B) = {}
  BY DEF IndexesOf
<1>2. IsFiniteSet(IndexesOf(q, A)) /\ IsFiniteSet(IndexesOf(q, B))
  BY IndexesFinite
<1>3. Cardinality(IndexesOf(q, S)) = Cardinality(IndexesOf(q, A))
                                      + Cardinality(IndexesOf(q, B))
  BY <1>1, <1>2, DisjointSum
<1> QED BY <1>3 DEF Count, IndexesOf

(* What is left of the queue when sockets go: entries of the others, and   *)
(* all of them.                                                            *)
LEMMA FilterKeeps ==
  ASSUME NEW q \in Seq(Entry), NEW gone
  PROVE  /\ Filtered(q, gone) \in Seq(Entry)
         /\ \A k \in DOMAIN Filtered(q, gone) : \E n \in DOMAIN q :
              Filtered(q, gone)[k] = q[n] /\ q[n].socket \notin gone
         /\ \A S : Count(Filtered(q, gone), S) = Count(q, S \ gone)
<1> DEFINE kept == {n \in DOMAIN q : q[n].socket \notin gone}
           rank(n) == Cardinality({m \in kept : m <= n})
           size == Cardinality(kept)
           at(k) == CHOOSE n \in kept : rank(n) = k
           rest == Filtered(q, gone)
<1>1. kept \in SUBSET Nat /\ IsFiniteSet(kept)
  <2>1. kept \in SUBSET (1 .. Len(q)) /\ Len(q) \in Nat
    OBVIOUS
  <2>2. IsFiniteSet(1 .. Len(q))
    BY <2>1, FS_Interval
  <2> QED BY <2>1, <2>2, FS_Subset
<1>2. /\ \A n \in kept : rank(n) \in 1 .. size
      /\ \A n, m \in kept : rank(n) = rank(m) => n = m
      /\ \A k \in 1 .. size : \E n \in kept : rank(n) = k
      /\ size \in Nat
  <2> HIDE DEF kept
  <2> QED BY <1>1, Ranks
<1>3. rest = [k \in 1 .. size |-> q[at(k)]]
  BY DEF Filtered
<1>4. \A k \in 1 .. size : at(k) \in kept /\ rank(at(k)) = k
  <2> HIDE DEF kept, rank
  <2> QED BY <1>2
<1>5. \A n \in kept : at(rank(n)) = n
  <2> HIDE DEF kept, rank, at, size
  <2> QED BY <1>2, <1>4
<1>6. \A n \in kept : q[n] \in Entry /\ q[n].socket \notin gone /\ n \in DOMAIN q
  OBVIOUS
<1> HIDE DEF kept, rank, at, size
<1>7. rest \in Seq(Entry)
  BY <1>2, <1>3, <1>4, <1>6
<1>8. \A k \in DOMAIN rest : \E n \in DOMAIN q : rest[k] = q[n] /\ q[n].socket \notin gone
  BY <1>3, <1>4, <1>6
<1>9. ASSUME NEW S
      PROVE  Count(rest, S) = Count(q, S \ gone)
  <2> DEFINE f == [k \in IndexesOf(rest, S) |-> at(k)]
  <2>1. IndexesOf(rest, S) = {k \in 1 .. size : q[at(k)].socket \in S}
    BY <1>3 DEF IndexesOf
  <2>2. IndexesOf(q, S \ gone) = {n \in kept : q[n].socket \in S}
    BY DEF IndexesOf, kept
  <2>3. f \in Injection(IndexesOf(rest, S), IndexesOf(q, S \ gone))
    <3>1. f \in [IndexesOf(rest, S) -> IndexesOf(q, S \ gone)]
      BY <1>4, <2>1, <2>2
    <3>2. \A a, b \in IndexesOf(rest, S) : f[a] = f[b] => a = b
      BY <1>4, <2>1
    <3> QED BY <3>1, <3>2 DEF Injection, IsInjective
  <2>4. ASSUME NEW n \in IndexesOf(q, S \ gone)
        PROVE  \E k \in IndexesOf(rest, S) : f[k] = n
    <3>1. n \in kept /\ q[n].socket \in S /\ rank(n) \in 1 .. size /\ at(rank(n)) = n
      BY <1>2, <1>5, <2>2
    <3> QED BY <2>1, <3>1
  <2>5. f \in Bijection(IndexesOf(rest, S), IndexesOf(q, S \ gone))
    BY <2>3, <2>4 DEF Bijection, Surjection, Injection, IsInjective
  <2> HIDE DEF f, rest
  <2> QED BY <1>7, <2>5, SameCount
<1> QED BY <1>7, <1>8, <1>9

LEMMA CountAppend ==
  ASSUME NEW q \in Seq(Entry), NEW e \in Entry, NEW S
  PROVE  Count(Append(q, e), S) = Count(q, S) + (IF e.socket \in S THEN 1 ELSE 0)
<1> DEFINE new == Append(q, e)
<1>1. /\ new \in Seq(Entry) /\ Len(q) \in Nat /\ DOMAIN q = 1 .. Len(q)
      /\ DOMAIN new = 1 .. Len(q) + 1
      /\ \A n \in 1 .. Len(q) : new[n] = q[n]
      /\ new[Len(q) + 1] = e
  OBVIOUS
<1> HIDE DEF new
<1>2. IndexesOf(new, S) = IndexesOf(q, S) \cup
                            (IF e.socket \in S THEN {Len(q) + 1} ELSE {})
  BY <1>1 DEF IndexesOf
<1>3. IsFiniteSet(IndexesOf(q, S)) /\ Len(q) + 1 \notin IndexesOf(q, S)
  <2>1. IsFiniteSet(IndexesOf(q, S))
    BY IndexesFinite
  <2>2. Len(q) + 1 \notin IndexesOf(q, S)
    BY <1>1 DEF IndexesOf
  <2> QED BY <2>1, <2>2
<1>4. Cardinality(IndexesOf(new, S)) = Cardinality(IndexesOf(q, S))
                                        + (IF e.socket \in S THEN 1 ELSE 0)
  <2>1. CASE e.socket \in S
    BY <1>2, <1>3, <2>1, FS_AddElement
  <2>2. CASE e.socket \notin S
    BY <1>2, <1>3, <2>2, FS_CardinalityType
  <2> QED BY <2>1, <2>2
<1> QED BY <1>4 DEF Count, IndexesOf, new

LEMMA CountTail ==
  ASSUME NEW q \in Seq(Entry), q # <<>>, NEW S
  PROVE  /\ Tail(q) \in Seq(Entry) /\ Head(q) \in Entry
         /\ Count(q, S) = Count(Tail(q), S) + (IF Head(q).socket \in S THEN 1 ELSE 0)
<1>1. /\ Tail(q) \in Seq(Entry) /\ Head(q) \in Entry
      /\ Len(q) \in Nat \ {0} /\ DOMAIN q = 1 .. Len(q)
      /\ DOMAIN Tail(q) = 1 .. Len(q) - 1
      /\ \A n \in 1 .. Len(q) - 1 : Tail(q)[n] = q[n + 1]
      /\ Head(q) = q[1]
  OBVIOUS
<1> DEFINE moved == IndexesOf(q, S) \ {1}
           f == [n \in IndexesOf(Tail(q), S) |-> n + 1]
<1>2. f \in Bijection(IndexesOf(Tail(q), S), moved)
  <2>1. f \in [IndexesOf(Tail(q), S) -> moved]
    BY <1>1 DEF IndexesOf
  <2>2. \A a, b \in IndexesOf(Tail(q), S) : f[a] = f[b] => a = b
    BY <1>1 DEF IndexesOf
  <2>3. ASSUME NEW n \in moved
        PROVE  \E k \in IndexesOf(Tail(q), S) : f[k] = n
    <3>1. n - 1 \in IndexesOf(Tail(q), S) /\ (n - 1) + 1 = n
      BY <1>1 DEF IndexesOf
    <3> QED BY <3>1
  <2> QED BY <2>1, <2>2, <2>3 DEF Bijection, Surjection, Injection, IsInjective
<1>3. /\ IsFiniteSet(IndexesOf(Tail(q), S)) /\ IsFiniteSet(IndexesOf(q, S))
      /\ Cardinality(IndexesOf(q, S)) \in Nat
  BY <1>1, IndexesFinite, FS_CardinalityType
<1>4. Cardinality(moved) = Cardinality(IndexesOf(Tail(q), S))
  <2> HIDE DEF f, moved
  <2> QED BY <1>2, <1>3, FS_Bijection DEF ExistsBijection
<1>5. Cardinality(moved) = IF Head(q).socket \in S
                             THEN Cardinality(IndexesOf(q, S)) - 1
                             ELSE Cardinality(IndexesOf(q, S))
  <2>1. 1 \in IndexesOf(q, S) <=> Head(q).socket \in S
    BY <1>1 DEF IndexesOf
  <2> QED BY <1>3, <2>1, FS_RemoveElement
<1>6. Cardinality(IndexesOf(q, S)) = Cardinality(IndexesOf(Tail(q), S))
                                      + (IF Head(q).socket \in S THEN 1 ELSE 0)
  BY <1>3, <1>4, <1>5
<1>7. Count(q, S) = Count(Tail(q), S) + (IF Head(q).socket \in S THEN 1 ELSE 0)
  BY <1>6 DEF Count, IndexesOf
<1> QED BY <1>1, <1>7

----------------------------------------------------------------------------
(* The bytes of the cards, when the clients are cl.                        *)

CardBytes(cl, S) ==
  {c \in S \X Room \X (1 .. MaxSignal) : c[3] <= cl[c[1]].signals[c[2]]}

LEMMA ConstantFacts ==
  ASSUME ConstantsAssumption
  PROVE  /\ IsFiniteSet(Socket) /\ IsFiniteSet(Peer) /\ IsFiniteSet(Room)
         /\ IpOf \in [Socket -> Ip]
         /\ None \notin Socket /\ None \notin Peer /\ None \notin Auth
         /\ None \notin Client /\ None \notin Entry
         /\ \A P \in SUBSET Peer : None # P
         /\ MaxSignal \in Nat /\ MaxRetained \in Nat
<1>1. Server!ConstantsFit
  BY DEF ConstantsAssumption
<1>2. IsFiniteSet(Socket) /\ IsFiniteSet(Peer) /\ IsFiniteSet(Room)
  BY <1>1 DEF Server!ConstantsFit, Server!IsFiniteSet, IsFiniteSet
<1>3. /\ IpOf \in [Socket -> Ip]
      /\ None \notin Socket /\ None \notin Peer /\ None \notin Auth
      /\ MaxSignal \in Nat /\ MaxRetained \in Nat
  BY <1>1 DEF Server!ConstantsFit
<1>4. None \notin Client /\ None \notin Entry
      /\ \A P \in SUBSET Peer : None # P
  BY DEF ConstantsAssumption
<1> QED BY <1>2, <1>3, <1>4

(* The operator of both modules.                                           *)
LEMMA SameCardinality ==
  ASSUME NEW S
  PROVE  Server!Cardinality(S) = Cardinality(S)
BY DEF Server!Cardinality, Cardinality, Server!IsFiniteSet, IsFiniteSet

LEMMA CardBytesFinite ==
  ASSUME ConstantsAssumption, NEW cl, NEW S \in SUBSET Socket
  PROVE  /\ IsFiniteSet(CardBytes(cl, S))
         /\ Cardinality(CardBytes(cl, S)) \in Nat
<1> DEFINE All == S \X Room \X (1 .. MaxSignal)
           Pairs == (S \X Room) \X (1 .. MaxSignal)
           f == [c \in All |-> <<<<c[1], c[2]>>, c[3]>>]
<1>1. IsFiniteSet(S) /\ IsFiniteSet(Room) /\ MaxSignal \in Nat
  <2>1. IsFiniteSet(Socket) /\ IsFiniteSet(Room) /\ MaxSignal \in Nat
    BY ConstantFacts
  <2> QED BY <2>1, FS_Subset
<1>2. IsFiniteSet(1 .. MaxSignal)
  BY <1>1, FS_Interval
<1>3. IsFiniteSet(Pairs)
  BY <1>1, <1>2, FS_Product
<1>4. f \in Injection(All, Pairs)
  BY DEF Injection, IsInjective
<1>5. IsFiniteSet(All)
  <2> HIDE DEF All, Pairs, f
  <2> QED BY <1>3, <1>4, FS_Injection
<1>6. CardBytes(cl, S) \in SUBSET All
  BY DEF CardBytes
<1> HIDE DEF All
<1> QED BY <1>5, <1>6, FS_Subset, FS_CardinalityType

LEMMA CardBytesSplit ==
  ASSUME ConstantsAssumption, NEW cl, NEW S \in SUBSET Socket, NEW T \in SUBSET S
  PROVE  Cardinality(CardBytes(cl, S)) =
           Cardinality(CardBytes(cl, S \ T)) + Cardinality(CardBytes(cl, T))
<1>1. /\ CardBytes(cl, S) = CardBytes(cl, S \ T) \cup CardBytes(cl, T)
      /\ CardBytes(cl, S \ T) \cap CardBytes(cl, T) = {}
  BY DEF CardBytes
<1>2. IsFiniteSet(CardBytes(cl, S \ T)) /\ IsFiniteSet(CardBytes(cl, T))
  BY CardBytesFinite
<1> QED BY <1>1, <1>2, DisjointSum

(* Whoever keeps its cards keeps its bytes.                                *)
LEMMA CardBytesSame ==
  ASSUME NEW cl, NEW dl, NEW S,
         \A s \in S : cl[s].signals = dl[s].signals
  PROVE  CardBytes(cl, S) = CardBytes(dl, S)
BY DEF CardBytes

LEMMA NoCardBytes ==
  ASSUME NEW cl, NEW S, MaxSignal \in Nat,
         \A s \in S, r \in Room : cl[s].signals[r] = 0
  PROVE  CardBytes(cl, S) = {} /\ Cardinality(CardBytes(cl, S)) = 0
<1>1. CardBytes(cl, S) = {}
  BY DEF CardBytes
<1> QED BY <1>1, FS_EmptySet

(* A card of n bytes is n bytes.                                           *)
BytesHere(s, r, n) == {<<s, r, b>> : b \in 1 .. n}
BytesThere(r, n) == {<<r, b>> : b \in 1 .. n}

LEMMA OneCard ==
  ASSUME NEW n \in Nat, NEW s, NEW r
  PROVE  /\ IsFiniteSet(BytesHere(s, r, n)) /\ Cardinality(BytesHere(s, r, n)) = n
         /\ IsFiniteSet(BytesThere(r, n)) /\ Cardinality(BytesThere(r, n)) = n
<1> DEFINE A == BytesHere(s, r, n)
           B == BytesThere(r, n)
           f == [b \in 1 .. n |-> <<s, r, b>>]
           g == [b \in 1 .. n |-> <<r, b>>]
<1> USE DEF BytesHere, BytesThere
<1>1. IsFiniteSet(1 .. n) /\ Cardinality(1 .. n) = n
  BY FS_Interval
<1>2. f \in Bijection(1 .. n, A)
  <2>1. f \in [1 .. n -> A]
    OBVIOUS
  <2>2. \A a, b \in 1 .. n : f[a] = f[b] => a = b
    OBVIOUS
  <2>3. \A x \in A : \E b \in 1 .. n : f[b] = x
    OBVIOUS
  <2> QED BY <2>1, <2>2, <2>3 DEF Bijection, Injection, Surjection, IsInjective
<1>3. g \in Bijection(1 .. n, B)
  <2>1. g \in [1 .. n -> B]
    OBVIOUS
  <2>2. \A a, b \in 1 .. n : g[a] = g[b] => a = b
    OBVIOUS
  <2>3. \A x \in B : \E b \in 1 .. n : g[b] = x
    OBVIOUS
  <2> QED BY <2>1, <2>2, <2>3 DEF Bijection, Injection, Surjection, IsInjective
<1> HIDE DEF A, B, f, g, BytesHere, BytesThere
<1>4. IsFiniteSet(A) /\ Cardinality(A) = n
  BY <1>1, <1>2, FS_Bijection DEF ExistsBijection
<1>5. IsFiniteSet(B) /\ Cardinality(B) = n
  BY <1>1, <1>3, FS_Bijection DEF ExistsBijection
<1> QED BY <1>4, <1>5 DEF A, B

(* A socket replaces its card in one room.                                 *)
LEMMA CardReplaced ==
  ASSUME ConstantsAssumption, NEW cl, NEW dl, NEW s \in Socket, NEW r \in Room,
         NEW n \in 0 .. MaxSignal,
         cl[s].signals \in [Room -> 0 .. MaxSignal],
         dl[s].signals = [cl[s].signals EXCEPT ![r] = n]
  PROVE  Cardinality(CardBytes(dl, {s})) =
           Cardinality(CardBytes(cl, {s})) - cl[s].signals[r] + n
<1> DEFINE old == cl[s].signals
           others == {c \in CardBytes(cl, {s}) : c[2] # r}
           card(m) == BytesHere(s, r, m)
<1>1. MaxSignal \in Nat /\ old[r] \in 0 .. MaxSignal
  BY ConstantFacts
<1> USE DEF BytesHere
<1>2. CardBytes(cl, {s}) = others \cup card(old[r])
  <2>1. ASSUME NEW c \in CardBytes(cl, {s}), c[2] = r
        PROVE  c \in card(old[r])
    <3>1. /\ c \in {s} \X Room \X (1 .. MaxSignal) /\ c[3] <= old[r]
          /\ c = <<s, r, c[3]>> /\ c[3] \in 1 .. MaxSignal
      BY <2>1 DEF CardBytes
    <3>2. c[3] \in 1 .. old[r]
      BY <1>1, <3>1
    <3> QED BY <3>1, <3>2
  <2>2. card(old[r]) \subseteq CardBytes(cl, {s})
    BY <1>1 DEF CardBytes
  <2> QED BY <2>1, <2>2
<1>3. CardBytes(dl, {s}) = others \cup card(n)
  <2>1. ASSUME NEW c \in CardBytes(dl, {s}), c[2] = r
        PROVE  c \in card(n)
    <3>1. /\ c \in {s} \X Room \X (1 .. MaxSignal) /\ c[3] <= n
          /\ c = <<s, r, c[3]>> /\ c[3] \in 1 .. MaxSignal
      BY <2>1 DEF CardBytes
    <3>2. c[3] \in 1 .. n
      BY <1>1, <3>1
    <3> QED BY <3>1, <3>2
  <2>2. card(n) \subseteq CardBytes(dl, {s})
    BY <1>1 DEF CardBytes
  <2>3. \A c \in {s} \X Room \X (1 .. MaxSignal) :
          c[2] # r => dl[c[1]].signals[c[2]] = cl[c[1]].signals[c[2]]
    OBVIOUS
  <2>4. {c \in CardBytes(dl, {s}) : c[2] # r} = others
    BY <2>3 DEF CardBytes
  <2> HIDE DEF others, card
  <2> QED BY <2>1, <2>2, <2>4 DEF others
<1>4. \A m \in Nat : others \cap card(m) = {}
  OBVIOUS
<1>5. IsFiniteSet(others)
  <2>1. others \in SUBSET CardBytes(cl, {s}) /\ {s} \in SUBSET Socket
    OBVIOUS
  <2> HIDE DEF others
  <2> QED BY <2>1, CardBytesFinite, FS_Subset
<1> HIDE DEF BytesHere
<1>6. ASSUME NEW m \in Nat
      PROVE  IsFiniteSet(card(m)) /\ Cardinality(card(m)) = m
  BY OneCard
<1>7. old[r] \in Nat /\ n \in Nat
  BY <1>1
<1> HIDE DEF others, card, old
<1>8. Cardinality(CardBytes(cl, {s})) = Cardinality(others) + old[r]
  <2>1. others \cap card(old[r]) = {} /\ IsFiniteSet(card(old[r]))
        /\ Cardinality(card(old[r])) = old[r]
    BY <1>4, <1>6, <1>7
  <2> QED BY <1>2, <1>5, <2>1, DisjointSum
<1>9. Cardinality(CardBytes(dl, {s})) = Cardinality(others) + n
  <2>1. others \cap card(n) = {} /\ IsFiniteSet(card(n)) /\ Cardinality(card(n)) = n
    BY <1>4, <1>6, <1>7
  <2> QED BY <1>3, <1>5, <2>1, DisjointSum
<1>10. Cardinality(others) \in Nat
  BY <1>5, FS_CardinalityType
<1> QED BY <1>7, <1>8, <1>9, <1>10 DEF old

(* The Bun server counts the same bytes when a socket leaves its rooms.    *)
LEMMA LengthIsBytes ==
  ASSUME ConstantsAssumption, NEW s \in Socket, clients[s] \in Client,
         NEW rs \in SUBSET Room, \A r \in Room \ rs : clients[s].signals[r] = 0
  PROVE  Server!LengthOver(s, rs) = Cardinality(CardBytes(clients, {s}))
<1> DEFINE there == {c \in rs \X (1 .. MaxSignal) : c[2] <= clients[s].signals[c[1]]}
           f == [c \in there |-> <<s, c[1], c[2]>>]
           here == CardBytes(clients, {s})
<1>1. MaxSignal \in Nat /\ clients[s] # None
  BY ConstantFacts
<1>2. Server!LengthOver(s, rs) = Cardinality(there)
  <2>1. [x \in Socket |-> SignalsOf(x)][s] = clients[s].signals
    BY <1>1 DEF SignalsOf
  <2>2. Server!LengthOver(s, rs) = Server!Cardinality(there)
    BY <2>1 DEF Server!LengthOver
  <2> QED BY <2>2, SameCardinality
<1>3. f \in Bijection(there, here)
  <2>1. f \in [there -> here]
    BY DEF CardBytes
  <2>2. \A a, b \in there : f[a] = f[b] => a = b
    OBVIOUS
  <2>3. ASSUME NEW c \in here
        PROVE  \E a \in there : f[a] = c
    <3>1. /\ c \in {s} \X Room \X (1 .. MaxSignal)
          /\ c[3] <= clients[s].signals[c[2]] /\ c[3] \in 1 .. MaxSignal
      BY DEF CardBytes
    <3>2. c[2] \in rs
      BY <1>1, <3>1
    <3>3. <<c[2], c[3]>> \in there /\ f[<<c[2], c[3]>>] = c
      BY <3>1, <3>2
    <3> QED BY <3>3
  <2> QED BY <2>1, <2>2, <2>3 DEF Bijection, Injection, Surjection, IsInjective
<1>4. IsFiniteSet(here)
  BY CardBytesFinite
<1> HIDE DEF f, there, here
<1>5. IsFiniteSet(there)
  BY <1>3, <1>4, FS_Injection DEF Bijection
<1>6. Cardinality(here) = Cardinality(there)
  BY <1>3, <1>5, FS_Bijection DEF ExistsBijection
<1> QED BY <1>2, <1>6 DEF here

LEMMA LengthOfOne ==
  ASSUME ConstantsAssumption, NEW s \in Socket, clients[s] \in Client,
         NEW r \in Room
  PROVE  /\ Server!LengthOver(s, {r}) = clients[s].signals[r]
         /\ Server!LengthOver(s, {}) = 0
<1> DEFINE there(rs) == {c \in rs \X (1 .. MaxSignal) : c[2] <= clients[s].signals[c[1]]}
           n == clients[s].signals[r]
<1>1. MaxSignal \in Nat /\ clients[s] # None /\ n \in 0 .. MaxSignal
  BY ConstantFacts DEF Client
<1>2. [x \in Socket |-> SignalsOf(x)][s] = clients[s].signals
  BY <1>1 DEF SignalsOf
<1>3. \A rs : Server!LengthOver(s, rs) = Cardinality(there(rs))
  BY <1>2, SameCardinality DEF Server!LengthOver
<1>4. there({r}) = BytesThere(r, n)
  BY <1>1 DEF BytesThere
<1>5. there({}) = {}
  OBVIOUS
<1> HIDE DEF there, n
<1>6. Cardinality(there({r})) = n
  BY <1>1, <1>4, OneCard
<1> QED BY <1>3, <1>5, <1>6, FS_EmptySet DEF n

----------------------------------------------------------------------------
(* The pending counters.                                                   *)

InWork(x, S) == IF x # None /\ x.socket \in S THEN 1 ELSE 0
Held(S) == Count(queue, S) + InWork(running, S)

PendingCounts ==
  /\ pendingMessages = Held(Socket)
  /\ \A s \in Socket : pendingByClient[s] = Held({s})
  /\ \A i \in Ip : pendingByIp[i] = Held(From(i))

LEMMA PendingParts ==
  PendingTrue <=>
    PendingCounts /\ \A n \in DOMAIN queue : queue[n].socket \in Connected
BY DEF PendingTrue, PendingCounts, Held, InWork

(* Settle releases what it takes from the queue and what was in work.      *)
LEMMA SettleKeeps ==
  ASSUME QueueTypes, PendingCounts, running' \in Entry \cup {None},
         NEW q \in Seq(Entry), NEW closing \in SUBSET Socket, NEW done,
         Settle(q, closing, done),
         \A S \in SUBSET Socket :
           /\ Cardinality(S \cap done) \in Nat
           /\ Held(S) = Count(q, S) + Cardinality(S \cap done) + InWork(running', S),
         \A n \in DOMAIN q : q[n].socket \in Connected,
         Connected' = Connected \ closing
  PROVE  QueueTypes' /\ PendingTrue'
<1> DEFINE freed(S) == Count(q, S \cap closing) + Cardinality(S \cap done)
<1>1. /\ queue' = Filtered(q, closing)
      /\ pendingMessages' = pendingMessages - freed(Socket)
      /\ pendingByClient' = [s \in Socket |-> pendingByClient[s] - freed({s})]
      /\ pendingByIp' = [i \in Ip |-> pendingByIp[i] - freed(From(i))]
  BY DEF Settle, Release, Freed
<1>2. /\ queue' \in Seq(Entry)
      /\ \A k \in DOMAIN queue' : \E n \in DOMAIN q :
           queue'[k] = q[n] /\ q[n].socket \notin closing
      /\ \A S : Count(queue', S) = Count(q, S \ closing)
  BY <1>1, FilterKeeps
<1>3. ASSUME NEW S \in SUBSET Socket
      PROVE  /\ Count(queue', S) + InWork(running', S) = Held(S) - freed(S)
             /\ freed(S) \in Nat
  <2>1. /\ Count(q, S) = Count(q, S \ closing) + Count(q, S \cap closing)
        /\ Count(q, S \ closing) \in Nat /\ Count(q, S \cap closing) \in Nat
    <3>1. Count(q, S) = Count(q, S \ closing) + Count(q, S \cap closing)
      <4>1. /\ S = (S \ closing) \cup (S \cap closing)
            /\ (S \ closing) \cap (S \cap closing) = {}
        OBVIOUS
      <4> QED BY <4>1, CountSplits
    <3>2. Count(q, S \ closing) \in Nat /\ Count(q, S \cap closing) \in Nat
      BY IndexesFinite
    <3> QED BY <3>1, <3>2
  <2>2. Cardinality(S \cap done) \in Nat /\ InWork(running', S) \in Nat
    BY DEF InWork
  <2>3. Held(S) = Count(q, S) + Cardinality(S \cap done) + InWork(running', S)
    OBVIOUS
  <2>4. Count(queue', S) = Count(q, S \ closing)
    BY <1>2
  <2> QED BY <2>1, <2>2, <2>3, <2>4
<1>4. \A S : Held(S)' = Count(queue', S) + InWork(running', S)
  BY DEF Held, Count, InWork
<1>5. /\ \A s \in Socket : {s} \in SUBSET Socket
      /\ \A i \in Ip : From(i) \in SUBSET Socket
  BY DEF From
<1> HIDE DEF freed
<1>6. PendingCounts'
  <2>1. pendingMessages' = Held(Socket)'
    BY <1>1, <1>3, <1>4 DEF PendingCounts
  <2>2. \A s \in Socket : pendingByClient'[s] = Held({s})'
    BY <1>1, <1>3, <1>4, <1>5 DEF PendingCounts
  <2>3. \A i \in Ip : pendingByIp'[i] = Held(From(i))'
    BY <1>1, <1>3, <1>4, <1>5 DEF PendingCounts, From
  <2> QED BY <2>1, <2>2, <2>3 DEF PendingCounts
<1>7. /\ pendingMessages' \in Int
      /\ pendingByClient' \in [Socket -> Int] /\ pendingByIp' \in [Ip -> Int]
  <2>1. /\ pendingMessages \in Int
        /\ pendingByClient \in [Socket -> Int] /\ pendingByIp \in [Ip -> Int]
    BY DEF QueueTypes
  <2>2. /\ freed(Socket) \in Int
        /\ \A s \in Socket : freed({s}) \in Int
        /\ \A i \in Ip : freed(From(i)) \in Int
    BY <1>3, <1>5
  <2>3. pendingMessages' \in Int
    BY <1>1, <2>1, <2>2
  <2>4. pendingByClient' \in [Socket -> Int]
    <3>1. \A s \in Socket : pendingByClient[s] - freed({s}) \in Int
      BY <2>1, <2>2
    <3> QED BY <1>1, <3>1, Zenon
  <2>5. pendingByIp' \in [Ip -> Int]
    BY <1>1, <2>1, <2>2
  <2> QED BY <2>3, <2>4, <2>5
<1>8. \A k \in DOMAIN queue' : queue'[k].socket \in Connected'
  BY <1>2
<1>9. PendingTrue'
  BY <1>6, <1>8 DEF PendingTrue, PendingCounts, Held, InWork
<1> QED BY <1>2, <1>7, <1>9 DEF QueueTypes

----------------------------------------------------------------------------
(* Sockets that go.                                                        *)

(* OneSession of the arguments of handleClose, but for the sockets that    *)
(* go: a session that is replaced no longer owns its device.               *)
OwnersTrue(gone, cl, own, limits) ==
  /\ \A s \in Socket \ gone : cl[s] # None /\ cl[s].peer # None =>
       own[cl[s].peer] = s
  /\ \A p \in Peer :
       /\ own[p] # None => cl[own[p]] # None /\ cl[own[p]].peer = p
       /\ limits[p] # None <=> own[p] # None
       /\ limits[p] # None => /\ p \notin limits[p]
                              /\ \A x \in limits[p] : limits[x] # None

LEMMA HandleCloseKeeps ==
  ASSUME ConstantsAssumption, DataTypes, RoomsTrue, RetainedTrue,
         NEW gone \in SUBSET Connected,
         NEW cl \in [Socket -> Client \cup {None}],
         NEW own \in [Peer -> Socket \cup {None}],
         NEW limits \in [Peer -> (SUBSET Peer) \cup {None}],
         \A s \in Socket : cl[s] = None <=> clients[s] = None,
         \A s \in Connected : /\ cl[s].rooms = clients[s].rooms
                              /\ cl[s].signals = clients[s].signals,
         OwnersTrue(gone, cl, own, limits),
         HandleClose(gone, cl, own, limits)
  PROVE  DataInv' /\ Connected' = Connected \ gone
<1> DEFINE left == {p \in Peer : own[p] \in gone /\ cl[own[p]].peer = p}
<1>0. /\ None \notin Socket /\ None \notin Peer /\ None \notin Auth /\ None \notin Client
      /\ \A P \in SUBSET Peer : None # P
      /\ MaxSignal \in Nat /\ MaxRetained \in Nat /\ IsFiniteSet(Socket)
  BY ConstantFacts
<1>1. /\ clients' = [s \in Socket |-> IF s \in gone THEN None ELSE cl[s]]
      /\ rooms' = [r \in Room |-> rooms[r] \ gone]
      /\ auth' = [r \in Room |-> IF rooms[r] \ gone = {} THEN None ELSE auth[r]]
      /\ retainedBytes' = retainedBytes - Bytes(gone)
      /\ connections' = AtLeastZero(connections - Cardinality(gone))
      /\ connectionsByIp' = [i \in Ip |-> AtLeastZero(
           connectionsByIp[i] - Cardinality({s \in gone : IpOf[s] = i}))]
      /\ socketsByPeerId' = [p \in Peer |-> IF p \in left THEN None ELSE own[p]]
      /\ deviceLimits' = [p \in Peer |->
           IF p \in left \/ limits[p] = None THEN None ELSE limits[p] \ left]
  BY DEF HandleClose
<1>2. /\ Connected' = Connected \ gone
      /\ \A s \in Connected \ gone :
           clients'[s] = cl[s] /\ cl[s] # None /\ clients[s] # None
  BY <1>1 DEF Connected
<1>7. \A p \in Peer : limits[p] # None =>
        /\ limits[p] \in SUBSET Peer /\ limits[p] \ left \in SUBSET Peer
        /\ limits[p] \ left # None
  <2> SUFFICES ASSUME NEW p \in Peer, limits[p] # None
               PROVE  limits[p] \in SUBSET Peer
    BY <1>0
  <2> QED OBVIOUS
<1>3. DataTypes'
  <2>1. gone \in SUBSET Socket /\ \A i \in Ip : {s \in gone : IpOf[s] = i} \in SUBSET Socket
    BY DEF Connected
  <2>2. /\ Cardinality(gone) \in Int
        /\ \A i \in Ip : Cardinality({s \in gone : IpOf[s] = i}) \in Int
    <3>1. \A S \in SUBSET Socket : Cardinality(S) \in Int
      BY <1>0, FS_Subset, FS_CardinalityType
    <3> QED BY <2>1, <3>1
  <2>3. Bytes(gone) \in Int
    <3>1. Cardinality(CardBytes(clients, gone)) \in Nat
      BY <2>1, CardBytesFinite
    <3> QED BY <3>1 DEF Bytes, CardBytes
  <2>4. connections' \in Nat /\ connectionsByIp' \in [Ip -> Nat]
    <3>1. \A n \in Int : AtLeastZero(n) \in Nat
      BY DEF AtLeastZero
    <3>2. connections - Cardinality(gone) \in Int
      BY <2>2 DEF DataTypes
    <3>3. \A i \in Ip :
            connectionsByIp[i] - Cardinality({s \in gone : IpOf[s] = i}) \in Int
      BY <2>2 DEF DataTypes
    <3> QED BY <1>1, <3>1, <3>2, <3>3
  <2>5. retainedBytes' \in Int
    BY <1>1, <2>3 DEF DataTypes
  <2>6. clients' \in [Socket -> Client \cup {None}]
    BY <1>1
  <2>7. rooms' \in [Room -> SUBSET Socket] /\ auth' \in [Room -> Auth \cup {None}]
    BY <1>1 DEF DataTypes
  <2>8. /\ socketsByPeerId' \in [Peer -> Socket \cup {None}]
        /\ deviceLimits' \in [Peer -> (SUBSET Peer) \cup {None}]
    <3>1. socketsByPeerId' \in [Peer -> Socket \cup {None}]
      BY <1>1
    <3>2. deviceLimits' \in [Peer -> (SUBSET Peer) \cup {None}]
      <4> HIDE DEF left
      <4> QED BY <1>1, <1>7
    <3> QED BY <3>1, <3>2
  <2> QED BY <2>4, <2>5, <2>6, <2>7, <2>8 DEF DataTypes
<1>4. RoomsTrue'
  BY <1>1, <1>2 DEF RoomsTrue, DataTypes
<1>5. RetainedTrue'
  <2>1. Bytes(Connected)' = Cardinality(CardBytes(clients, Connected \ gone))
    <3>1. \A s \in Connected \ gone : clients'[s].signals = clients[s].signals
      BY <1>2
    <3>2. CardBytes(clients', Connected \ gone) = CardBytes(clients, Connected \ gone)
      BY <3>1, CardBytesSame
    <3> QED BY <1>2, <3>2 DEF Bytes, CardBytes
  <2>2. /\ Connected \in SUBSET Socket /\ gone \in SUBSET Socket
        /\ Connected \ gone \in SUBSET Socket
    BY DEF Connected
  <2>3. /\ Bytes(Connected) = Cardinality(CardBytes(clients, Connected \ gone))
                                + Bytes(gone)
        /\ Bytes(gone) \in Nat
        /\ Cardinality(CardBytes(clients, Connected \ gone)) \in Nat
    <3>1. Cardinality(CardBytes(clients, Connected)) =
            Cardinality(CardBytes(clients, Connected \ gone))
              + Cardinality(CardBytes(clients, gone))
      BY <2>2, CardBytesSplit
    <3>2. /\ Cardinality(CardBytes(clients, gone)) \in Nat
          /\ Cardinality(CardBytes(clients, Connected \ gone)) \in Nat
      BY <2>2, CardBytesFinite
    <3> QED BY <3>1, <3>2 DEF Bytes, CardBytes
  <2>4. retainedBytes' = Bytes(Connected)' /\ retainedBytes' <= MaxRetained
    <3>1. retainedBytes = Bytes(Connected) /\ retainedBytes <= MaxRetained
          /\ retainedBytes \in Int
      BY DEF RetainedTrue, DataTypes
    <3> QED BY <1>0, <1>1, <2>1, <2>3, <3>1
  <2>5. \A s \in Connected', r \in Room :
          /\ s \in rooms'[r] <=> r \in clients'[s].rooms
          /\ clients'[s].signals[r] > 0 => s \in rooms'[r]
    BY <1>1, <1>2 DEF RetainedTrue
  <2> QED BY <2>4, <2>5 DEF RetainedTrue
<1>6. OneSession'
  <2>1. \A p \in Peer : p \in left => own[p] # None
    BY <1>0 DEF Connected
  <2>2. \A p \in Peer : own[p] \in gone => p \in left
    BY <1>0 DEF OwnersTrue, Connected
  <2>3. \A s \in Connected' : clients'[s].peer # None =>
          socketsByPeerId'[clients'[s].peer] = s
    <3> SUFFICES ASSUME NEW s \in Connected \ gone, cl[s].peer # None
                 PROVE  socketsByPeerId'[cl[s].peer] = s
      BY <1>2
    <3>1. cl[s] \in Client /\ cl[s].peer \in Peer /\ s \in Socket
      BY <1>2 DEF Client, Connected
    <3>2. own[cl[s].peer] = s
      BY <1>2, <3>1 DEF OwnersTrue
    <3> QED BY <1>1, <3>1, <3>2
  <2> HIDE DEF left
  <2>4. ASSUME NEW p \in Peer
        PROVE  /\ socketsByPeerId'[p] # None => PeerOf(socketsByPeerId[p])' = p
               /\ deviceLimits'[p] # None <=> socketsByPeerId'[p] # None
    <3>1. /\ socketsByPeerId'[p] # None <=> (p \notin left /\ own[p] # None)
          /\ socketsByPeerId'[p] # None => socketsByPeerId'[p] = own[p]
      BY <1>1
    <3>2. deviceLimits'[p] # None <=> (p \notin left /\ limits[p] # None)
      BY <1>1, <1>7
    <3>3. p \notin left /\ own[p] # None => clients'[own[p]] = cl[own[p]]
      BY <1>1, <2>2
    <3> QED BY <3>1, <3>2, <3>3 DEF OwnersTrue, PeerOf
  <2>5. Limited' = {p \in Peer : limits[p] # None} \ left
    BY <1>1, <1>7 DEF Limited
  <2>6. \A p \in Limited' : deviceLimits'[p] \subseteq Limited' \ {p}
    <3> SUFFICES ASSUME NEW p \in Peer, limits[p] # None, p \notin left,
                        NEW x \in limits[p] \ left
                 PROVE  x \in Limited' \ {p}
      BY <1>1, <2>5
    <3>1. x \in Peer /\ x # p /\ limits[x] # None
      BY <1>7 DEF OwnersTrue
    <3> QED BY <2>5, <3>1
  <2> QED BY <2>3, <2>4, <2>6 DEF OneSession
<1> QED BY <1>2, <1>3, <1>4, <1>5, <1>6 DEF DataInv

LEMMA RejectKeeps ==
  ASSUME ConstantsAssumption, DataInv, NEW s \in Connected, Reject({s})
  PROVE  /\ DataInv' /\ Connected' = Connected \ {s}
         /\ \A x \in Socket : PeerOf(x)' \in {None, PeerOf(x)}
<1>1. OwnersTrue({s}, clients, socketsByPeerId, deviceLimits)
  <2>0. None \notin Socket /\ None \notin Peer
    BY ConstantFacts
  <2>1. OneSession
    BY DEF DataInv
  <2>2. \A x \in Socket \ {s} : clients[x] # None /\ clients[x].peer # None =>
          socketsByPeerId[clients[x].peer] = x
    BY <2>1 DEF OneSession, Connected
  <2>3. ASSUME NEW p \in Peer
        PROVE  /\ socketsByPeerId[p] # None =>
                    /\ clients[socketsByPeerId[p]] # None
                    /\ clients[socketsByPeerId[p]].peer = p
               /\ deviceLimits[p] # None <=> socketsByPeerId[p] # None
    BY <2>0, <2>1 DEF OneSession, PeerOf
  <2>4. ASSUME NEW p \in Peer, deviceLimits[p] # None
        PROVE  p \notin deviceLimits[p] /\ \A x \in deviceLimits[p] : deviceLimits[x] # None
    BY <2>1, <2>4 DEF OneSession, Limited
  <2> QED BY <2>2, <2>3, <2>4 DEF OwnersTrue
<1>2. HandleClose({s}, clients, socketsByPeerId, deviceLimits)
  BY DEF Reject
<1>3. /\ clients \in [Socket -> Client \cup {None}]
      /\ socketsByPeerId \in [Peer -> Socket \cup {None}]
      /\ deviceLimits \in [Peer -> (SUBSET Peer) \cup {None}]
      /\ DataTypes /\ RoomsTrue /\ RetainedTrue /\ {s} \in SUBSET Connected
  BY DEF DataInv, DataTypes
<1>4. DataInv' /\ Connected' = Connected \ {s}
  BY <1>1, <1>2, <1>3, HandleCloseKeeps
<1>5. \A x \in Socket : PeerOf(x)' \in {None, PeerOf(x)}
  BY <1>2 DEF HandleClose, PeerOf
<1> QED BY <1>4, <1>5

LEMMA CommitKeeps ==
  ASSUME ConstantsAssumption, DataInv, NEW s \in Connected, NEW p \in Peer,
         clients[s].peer \in {None, p}, Commit(s, p)
  PROVE  DataInv' /\ Connected' = Connected \ Replaced(s, p)
<1> DEFINE gone == Replaced(s, p)
           cl == [clients EXCEPT ![s].peer = p]
           own == [socketsByPeerId EXCEPT ![p] = s]
           limits == [deviceLimits EXCEPT ![p] = IF @ = None THEN {} ELSE @]
<1>0. /\ None \notin Socket /\ None \notin Peer /\ None \notin Client
      /\ \A P \in SUBSET Peer : None # P
  BY ConstantFacts
<1>1. /\ clients \in [Socket -> Client \cup {None}]
      /\ socketsByPeerId \in [Peer -> Socket \cup {None}]
      /\ deviceLimits \in [Peer -> (SUBSET Peer) \cup {None}]
      /\ DataTypes /\ RoomsTrue /\ RetainedTrue /\ OneSession
  BY DEF DataInv, DataTypes
<1>2. s \in Socket /\ clients[s] \in Client
  BY <1>1 DEF Connected
<1>3. /\ [clients[s] EXCEPT !.peer = p] \in Client
      /\ cl = [clients EXCEPT ![s] = [clients[s] EXCEPT !.peer = p]]
  BY <1>2 DEF Client
<1>4. /\ cl \in [Socket -> Client \cup {None}]
      /\ \A x \in Socket : x # s => cl[x] = clients[x]
      /\ cl[s] # None /\ cl[s].peer = p
      /\ cl[s].rooms = clients[s].rooms /\ cl[s].signals = clients[s].signals
  <2>1. [clients[s] EXCEPT !.peer = p].peer = p
        /\ [clients[s] EXCEPT !.peer = p].rooms = clients[s].rooms
        /\ [clients[s] EXCEPT !.peer = p].signals = clients[s].signals
    BY <1>2 DEF Client
  <2>2. cl[s] = [clients[s] EXCEPT !.peer = p]
    BY <1>1, <1>2, <1>3
  <2> QED BY <1>0, <1>1, <1>3, <2>1, <2>2
<1>5. /\ own \in [Peer -> Socket \cup {None}] /\ own[p] = s
      /\ \A q \in Peer : q # p => own[q] = socketsByPeerId[q]
  BY <1>1, <1>2
<1>6. /\ limits \in [Peer -> (SUBSET Peer) \cup {None}] /\ limits[p] # None
      /\ limits[p] = IF deviceLimits[p] = None THEN {} ELSE deviceLimits[p]
      /\ \A q \in Peer : q # p => limits[q] = deviceLimits[q]
  BY <1>0, <1>1
<1>7. gone \in SUBSET Connected
  BY <1>0, <1>1 DEF Replaced, OneSession, PeerOf, Connected
<1> HIDE DEF cl, own, limits
<1>8. OwnersTrue(gone, cl, own, limits)
  <2>1. ASSUME NEW x \in Socket \ gone, cl[x] # None, cl[x].peer # None
        PROVE  own[cl[x].peer] = x
    <3>1. CASE x = s
      BY <1>4, <1>5, <3>1
    <3>2. CASE x # s
      <4>1. /\ clients[x] # None /\ clients[x].peer # None
            /\ cl[x].peer = clients[x].peer
        BY <1>4, <2>1, <3>2
      <4>2. socketsByPeerId[clients[x].peer] = x /\ clients[x].peer \in Peer
        BY <1>1, <4>1 DEF OneSession, Connected, Client
      <4>3. clients[x].peer # p
        BY <1>0, <3>2, <4>2 DEF Replaced
      <4> QED BY <1>5, <4>1, <4>2, <4>3
    <3> QED BY <3>1, <3>2
  <2>2. ASSUME NEW q \in Peer, own[q] # None
        PROVE  cl[own[q]] # None /\ cl[own[q]].peer = q
    <3>1. CASE q = p
      BY <1>4, <1>5, <3>1
    <3>2. CASE q # p
      <4>1. own[q] \in Socket /\ PeerOf(own[q]) = q
        BY <1>1, <1>5, <2>2, <3>2 DEF OneSession
      <4>2. own[q] # s /\ clients[own[q]] # None /\ clients[own[q]].peer = q
        BY <1>0, <3>2, <4>1 DEF PeerOf
      <4> QED BY <1>4, <4>1, <4>2
    <3> QED BY <3>1, <3>2
  <2>3. \A q \in Peer : limits[q] # None <=> own[q] # None
    BY <1>0, <1>1, <1>2, <1>5, <1>6 DEF OneSession
  <2>4. ASSUME NEW q \in Peer, limits[q] # None
        PROVE  q \notin limits[q] /\ \A x \in limits[q] : limits[x] # None
    <3>1. limits[q] = {} \/ (q \in Limited /\ limits[q] = deviceLimits[q])
      BY <1>6, <2>4 DEF Limited
    <3>2. q \in Limited => deviceLimits[q] \subseteq Limited \ {q}
      BY <1>1 DEF OneSession
    <3>3. \A x \in Limited : limits[x] # None
      BY <1>6 DEF Limited
    <3> QED BY <3>1, <3>2, <3>3
  <2> QED BY <2>1, <2>2, <2>3, <2>4 DEF OwnersTrue
<1>9. HandleClose(gone, cl, own, limits)
  BY DEF Commit, cl, own, limits
<1>10. /\ \A x \in Socket : cl[x] = None <=> clients[x] = None
       /\ \A x \in Connected : /\ cl[x].rooms = clients[x].rooms
                               /\ cl[x].signals = clients[x].signals
  BY <1>4, <1>2, <1>0 DEF Connected
<1> HIDE DEF gone
<1>11. DataInv' /\ Connected' = Connected \ gone
  BY <1>1, <1>4, <1>5, <1>6, <1>7, <1>8, <1>9, <1>10, HandleCloseKeeps
<1> QED BY <1>11 DEF gone

----------------------------------------------------------------------------
(* The bytes retained when nobody comes or goes.                           *)

LEMMA BytesKept ==
  ASSUME Connected' = Connected,
         \A x \in Connected : clients'[x].signals = clients[x].signals
  PROVE  Bytes(Connected)' = Bytes(Connected)
<1>1. CardBytes(clients', Connected) = CardBytes(clients, Connected)
  BY CardBytesSame
<1> QED BY <1>1 DEF Bytes, CardBytes

LEMMA BytesReplaced ==
  ASSUME ConstantsAssumption, DataTypes, Connected' = Connected,
         NEW s \in Connected, NEW r \in Room, NEW n \in 0 .. MaxSignal,
         clients'[s].signals = [clients[s].signals EXCEPT ![r] = n],
         \A x \in Connected : x # s => clients'[x].signals = clients[x].signals
  PROVE  Bytes(Connected)' = Bytes(Connected) - clients[s].signals[r] + n
<1>1. /\ Connected \in SUBSET Socket /\ {s} \in SUBSET Connected
      /\ Connected \ {s} \in SUBSET Socket /\ s \in Socket
      /\ {s} \in SUBSET Socket
  BY DEF Connected
<1>2. clients[s].signals \in [Room -> 0 .. MaxSignal]
  BY <1>1 DEF DataTypes, Client, Connected
<1>3. /\ Cardinality(CardBytes(clients, Connected)) =
           Cardinality(CardBytes(clients, Connected \ {s}))
             + Cardinality(CardBytes(clients, {s}))
      /\ Cardinality(CardBytes(clients', Connected)) =
           Cardinality(CardBytes(clients', Connected \ {s}))
             + Cardinality(CardBytes(clients', {s}))
  BY <1>1, CardBytesSplit
<1>4. CardBytes(clients', Connected \ {s}) = CardBytes(clients, Connected \ {s})
  BY CardBytesSame
<1>5. Cardinality(CardBytes(clients', {s})) =
        Cardinality(CardBytes(clients, {s})) - clients[s].signals[r] + n
  <2> DEFINE dl == clients'
  <2>1. dl[s].signals = [clients[s].signals EXCEPT ![r] = n]
    OBVIOUS
  <2> HIDE DEF dl
  <2>2. Cardinality(CardBytes(dl, {s})) =
          Cardinality(CardBytes(clients, {s})) - clients[s].signals[r] + n
    BY <1>1, <1>2, <2>1, CardReplaced
  <2> QED BY <2>2 DEF dl
<1>6. /\ Cardinality(CardBytes(clients, {s})) \in Nat
      /\ Cardinality(CardBytes(clients, Connected \ {s})) \in Nat
  BY <1>1, CardBytesFinite
<1>7. clients[s].signals[r] \in Int /\ n \in Int
  BY <1>2, ConstantFacts
<1>8. Cardinality(CardBytes(clients', Connected)) =
        Cardinality(CardBytes(clients, Connected)) - clients[s].signals[r] + n
  BY <1>3, <1>4, <1>5, <1>6, <1>7
<1> QED BY <1>8 DEF Bytes, CardBytes

----------------------------------------------------------------------------
(* The messages that are accepted.                                         *)

LEMMA MessageKinds ==
  ASSUME NEW m \in Message
  PROVE  \/ m.type = "device_register" /\ m.peer \in Peer /\ m.valid \in BOOLEAN
         \/ m.type = "join" /\ m.room \in Room /\ m.auth \in Auth
         \/ m.type \in {"leave", "get_peers"} /\ m.room \in Room
         \/ m.type = "signal" /\ m.room \in Room /\ m.length \in 0 .. MaxSignal + 1
         \/ m.type = "relay" /\ m.to \in Peer
         \/ m.type = "other"
BY DEF Message, Server!Message

(* One client is changed, but not its identity.                            *)
LEMMA ClientChanged ==
  ASSUME ConstantsAssumption, DataTypes, OneSession,
         NEW s \in Connected, NEW c \in Client, c.peer = clients[s].peer,
         clients' = [clients EXCEPT ![s] = c], UNCHANGED deviceVars
  PROVE  /\ clients' \in [Socket -> Client \cup {None}] /\ Connected' = Connected
         /\ clients'[s] = c
         /\ \A x \in Socket : x # s => clients'[x] = clients[x]
         /\ \A x \in Socket : PeerOf(x)' = PeerOf(x)
         /\ OneSession'
<1>1. /\ None \notin Client /\ clients \in [Socket -> Client \cup {None}]
      /\ s \in Socket /\ clients[s] # None
  BY ConstantFacts DEF DataTypes, Connected
<1>2. /\ clients' \in [Socket -> Client \cup {None}] /\ clients'[s] = c
      /\ \A x \in Socket : x # s => clients'[x] = clients[x]
  BY <1>1
<1>3. Connected' = Connected /\ \A x \in Socket : PeerOf(x)' = PeerOf(x)
  BY <1>1, <1>2 DEF Connected, PeerOf
<1>4. \A x \in Connected : clients'[x].peer = clients[x].peer
  BY <1>2 DEF Connected
<1>5. Limited' = Limited
  BY DEF Limited, deviceVars
<1>6. OneSession'
  <2>1. \A x \in Connected : clients[x].peer # None =>
          socketsByPeerId[clients[x].peer] = x
    BY DEF OneSession
  <2>2. ASSUME NEW p \in Peer
        PROVE  /\ socketsByPeerId'[p] # None => PeerOf(socketsByPeerId[p])' = p
               /\ deviceLimits'[p] # None <=> socketsByPeerId'[p] # None
    BY <1>3 DEF OneSession, deviceVars, DataTypes
  <2>3. \A p \in Limited : deviceLimits'[p] \subseteq Limited \ {p}
    BY DEF OneSession, deviceVars
  <2> QED BY <1>3, <1>4, <1>5, <2>1, <2>2, <2>3 DEF OneSession, deviceVars
<1> QED BY <1>2, <1>3, <1>6

LEMMA JoinKeeps ==
  ASSUME ConstantsAssumption, DataInv, NEW s \in Connected, NEW r \in Room,
         NEW a \in Auth, JoinRoom(s, r, a)
  PROVE  /\ DataInv' /\ Connected' = Connected
         /\ \A x \in Socket : PeerOf(x)' = PeerOf(x)
<1> DEFINE c == [clients[s] EXCEPT !.rooms = @ \cup {r}]
<1>0. None \notin Auth
  BY ConstantFacts
<1>1. DataTypes /\ RoomsTrue /\ OneSession /\ RetainedTrue
  BY DEF DataInv
<1>2. s \in Socket /\ clients[s] \in Client
  BY <1>1 DEF Connected, DataTypes
<1>3. /\ c \in Client /\ c.peer = clients[s].peer
      /\ c.rooms = clients[s].rooms \cup {r} /\ c.signals = clients[s].signals
  BY <1>2 DEF Client
<1>4. /\ clients' = [clients EXCEPT ![s] = c]
      /\ rooms' = [rooms EXCEPT ![r] = IF r \notin clients[s].rooms
                                         THEN @ \cup {s} ELSE @]
      /\ auth' = [auth EXCEPT ![r] =
           IF r \notin clients[s].rooms /\ rooms[r] = {} THEN a ELSE @]
      /\ UNCHANGED <<retainedBytes, socketsByPeerId, deviceLimits,
                     connections, connectionsByIp>>
  BY DEF JoinRoom, deviceVars, countVars
<1> HIDE DEF c
<1>5. /\ clients' \in [Socket -> Client \cup {None}] /\ Connected' = Connected
      /\ clients'[s] = c
      /\ \A x \in Socket : x # s => clients'[x] = clients[x]
      /\ \A x \in Socket : PeerOf(x)' = PeerOf(x)
      /\ OneSession'
  BY <1>1, <1>3, <1>4, ClientChanged DEF deviceVars
<1>6. DataTypes'
  BY <1>1, <1>2, <1>4, <1>5 DEF DataTypes
<1>7. r \in clients[s].rooms => rooms[r] # {}
  BY <1>1 DEF RetainedTrue
<1>8. RoomsTrue'
  BY <1>1, <1>2, <1>4, <1>5, <1>7 DEF RoomsTrue, DataTypes
<1>9. RetainedTrue'
  <2>1. \A x \in Connected : clients'[x].signals = clients[x].signals
    BY <1>3, <1>5 DEF Connected
  <2>2. Bytes(Connected)' = Bytes(Connected)
    BY <1>5, <2>1, BytesKept
  <2>3. ASSUME NEW x \in Connected, NEW q \in Room
        PROVE  x \in rooms'[q] <=> x \in rooms[q] \/ (x = s /\ q = r)
    BY <1>1, <1>4 DEF DataTypes, RetainedTrue
  <2>4. ASSUME NEW x \in Connected, NEW q \in Room
        PROVE  q \in clients'[x].rooms <=> q \in clients[x].rooms \/ (x = s /\ q = r)
    BY <1>3, <1>5 DEF Connected
  <2> QED BY <1>1, <1>4, <1>5, <2>1, <2>2, <2>3, <2>4 DEF RetainedTrue
<1> QED BY <1>5, <1>6, <1>8, <1>9 DEF DataInv

LEMMA LeaveKeeps ==
  ASSUME ConstantsAssumption, DataInv, NEW s \in Connected, NEW r \in Room,
         LeaveRoom(s, r)
  PROVE  /\ DataInv' /\ Connected' = Connected
         /\ \A x \in Socket : PeerOf(x)' = PeerOf(x)
<1>1. CASE rooms[r] = {}
  <2>1. UNCHANGED <<clients, rooms, auth, retainedBytes, socketsByPeerId,
                    deviceLimits, connections, connectionsByIp>>
    BY <1>1 DEF LeaveRoom, dataVars, deviceVars, countVars
  <2> QED BY <2>1 DEF DataInv, DataTypes, RoomsTrue, OneSession, RetainedTrue,
              Connected, Limited, PeerOf, Bytes
<1>2. CASE rooms[r] # {}
  <2> DEFINE f == [clients[s].signals EXCEPT ![r] = 0]
             c1 == [clients[s] EXCEPT !.rooms = @ \ {r}]
             c == [c1 EXCEPT !.signals = f]
  <2>1. DataTypes /\ RoomsTrue /\ OneSession /\ RetainedTrue
    BY DEF DataInv
  <2>2. s \in Socket /\ clients[s] \in Client /\ MaxSignal \in Nat
    BY <2>1, ConstantFacts DEF Connected, DataTypes
  <2>3. /\ c \in Client /\ c.peer = clients[s].peer
        /\ c.rooms = clients[s].rooms \ {r} /\ c.signals = f
        /\ f \in [Room -> 0 .. MaxSignal]
    <3>1. f \in [Room -> 0 .. MaxSignal]
      BY <2>2 DEF Client
    <3>2. /\ c1 \in Client /\ c1.peer = clients[s].peer
          /\ c1.rooms = clients[s].rooms \ {r} /\ c1.signals = clients[s].signals
      BY <2>2 DEF Client
    <3> HIDE DEF c1, f
    <3> QED BY <3>1, <3>2 DEF Client
  <2>4. /\ clients' = [clients EXCEPT ![s] = c]
        /\ rooms' = [rooms EXCEPT ![r] = @ \ {s}]
        /\ auth' = [auth EXCEPT ![r] = IF rooms[r] \ {s} = {} THEN None ELSE @]
        /\ retainedBytes' = retainedBytes - clients[s].signals[r]
        /\ UNCHANGED <<socketsByPeerId, deviceLimits, connections, connectionsByIp>>
    <3>1. clients' = [clients EXCEPT ![s].rooms = @ \ {r}, ![s].signals[r] = 0]
      BY <1>2 DEF LeaveRoom
    <3>2. [clients EXCEPT ![s].rooms = @ \ {r}, ![s].signals[r] = 0] =
            [clients EXCEPT ![s] = c]
      BY <2>1, <2>2 DEF DataTypes, Client
    <3> QED BY <1>2, <3>1, <3>2 DEF LeaveRoom, deviceVars, countVars
  <2> HIDE DEF c, c1, f
  <2>5. /\ clients' \in [Socket -> Client \cup {None}] /\ Connected' = Connected
        /\ clients'[s] = c
        /\ \A x \in Socket : x # s => clients'[x] = clients[x]
        /\ \A x \in Socket : PeerOf(x)' = PeerOf(x)
        /\ OneSession'
    BY <2>1, <2>3, <2>4, ClientChanged DEF deviceVars
  <2>6. clients[s].signals[r] \in 0 .. MaxSignal
    BY <2>2 DEF Client
  <2>7. DataTypes'
    BY <2>1, <2>2, <2>4, <2>5, <2>6 DEF DataTypes
  <2>8. RoomsTrue'
    BY <2>1, <2>4, <2>5 DEF RoomsTrue, DataTypes
  <2>9. RetainedTrue'
    <3>1. Bytes(Connected)' = Bytes(Connected) - clients[s].signals[r] + 0
      <4>1. 0 \in 0 .. MaxSignal
        BY <2>2
      <4>2. clients'[s].signals = [clients[s].signals EXCEPT ![r] = 0]
        BY <2>3, <2>5 DEF f
      <4>3. \A x \in Connected : x # s => clients'[x].signals = clients[x].signals
        BY <2>5 DEF Connected
      <4> QED BY <2>1, <2>5, <4>1, <4>2, <4>3, BytesReplaced
    <3>2. retainedBytes' = Bytes(Connected)' /\ retainedBytes' <= MaxRetained
      <4>1. /\ retainedBytes = Bytes(Connected) /\ retainedBytes \in Int
            /\ retainedBytes <= MaxRetained /\ MaxRetained \in Nat
        BY <2>1, ConstantFacts DEF RetainedTrue, DataTypes
      <4> QED BY <2>2, <2>4, <2>6, <3>1, <4>1
    <3>3. ASSUME NEW x \in Connected, NEW q \in Room
          PROVE  /\ x \in rooms'[q] <=> x \in rooms[q] /\ ~(x = s /\ q = r)
                 /\ q \in clients'[x].rooms <=> q \in clients[x].rooms /\ ~(x = s /\ q = r)
                 /\ clients'[x].signals[q] =
                      IF x = s /\ q = r THEN 0 ELSE clients[x].signals[q]
      <4>1. x \in rooms'[q] <=> x \in rooms[q] /\ ~(x = s /\ q = r)
        BY <2>1, <2>4 DEF DataTypes
      <4>2. CASE x = s
        BY <2>2, <2>3, <2>5, <4>1, <4>2 DEF f, Client
      <4>3. CASE x # s
        BY <2>5, <4>1, <4>3 DEF Connected
      <4> QED BY <4>2, <4>3
    <3> QED BY <2>1, <2>5, <3>2, <3>3 DEF RetainedTrue
  <2> QED BY <2>5, <2>7, <2>8, <2>9 DEF DataInv
<1> QED BY <1>1, <1>2

LEMMA SignalKeeps ==
  ASSUME ConstantsAssumption, DataInv, NEW s \in Connected, NEW r \in Room,
         NEW length, MaySignal(s, r, length), SignalRoom(s, r, length)
  PROVE  /\ DataInv' /\ Connected' = Connected
         /\ \A x \in Socket : PeerOf(x)' = PeerOf(x)
<1> DEFINE f == [clients[s].signals EXCEPT ![r] = length]
           c == [clients[s] EXCEPT !.signals = f]
<1>1. DataTypes /\ RoomsTrue /\ OneSession /\ RetainedTrue
  BY DEF DataInv
<1>2. /\ s \in Socket /\ clients[s] \in Client /\ MaxSignal \in Nat
      /\ length \in 0 .. MaxSignal /\ r \in clients[s].rooms
      /\ retainedBytes - clients[s].signals[r] + length <= MaxRetained
  BY <1>1, ConstantFacts DEF Connected, DataTypes, MaySignal
<1>3. /\ c \in Client /\ c.peer = clients[s].peer
      /\ c.rooms = clients[s].rooms /\ c.signals = f
      /\ f \in [Room -> 0 .. MaxSignal] /\ clients[s].signals[r] \in 0 .. MaxSignal
  BY <1>2 DEF Client
<1>4. /\ clients' = [clients EXCEPT ![s] = c]
      /\ retainedBytes' = retainedBytes + length - clients[s].signals[r]
      /\ UNCHANGED <<rooms, auth, socketsByPeerId, deviceLimits, connections,
                     connectionsByIp>>
  BY DEF SignalRoom, deviceVars, countVars
<1> HIDE DEF c, f
<1>5. /\ clients' \in [Socket -> Client \cup {None}] /\ Connected' = Connected
      /\ clients'[s] = c
      /\ \A x \in Socket : x # s => clients'[x] = clients[x]
      /\ \A x \in Socket : PeerOf(x)' = PeerOf(x)
      /\ OneSession'
  BY <1>1, <1>3, <1>4, ClientChanged DEF deviceVars
<1>6. DataTypes'
  BY <1>1, <1>2, <1>3, <1>4, <1>5 DEF DataTypes
<1>7. RoomsTrue'
  BY <1>1, <1>4, <1>5 DEF RoomsTrue
<1>8. RetainedTrue'
  <2>1. Bytes(Connected)' = Bytes(Connected) - clients[s].signals[r] + length
    <3>1. clients'[s].signals = [clients[s].signals EXCEPT ![r] = length]
      BY <1>3, <1>5 DEF f
    <3>2. \A x \in Connected : x # s => clients'[x].signals = clients[x].signals
      BY <1>5 DEF Connected
    <3> QED BY <1>1, <1>2, <1>5, <3>1, <3>2, BytesReplaced
  <2>2. retainedBytes' = Bytes(Connected)' /\ retainedBytes' <= MaxRetained
    <3>1. /\ retainedBytes = Bytes(Connected) /\ retainedBytes \in Int
          /\ MaxRetained \in Nat
      BY <1>1, ConstantFacts DEF RetainedTrue, DataTypes
    <3> QED BY <1>2, <1>3, <1>4, <2>1, <3>1
  <2>3. ASSUME NEW x \in Connected, NEW q \in Room
        PROVE  /\ q \in clients'[x].rooms <=> q \in clients[x].rooms
               /\ ~(x = s /\ q = r) => clients'[x].signals[q] = clients[x].signals[q]
    <3>1. CASE x = s
      BY <1>2, <1>3, <1>5, <3>1 DEF f, Client
    <3>2. CASE x # s
      BY <1>5, <3>2 DEF Connected
    <3> QED BY <3>1, <3>2
  <2> QED BY <1>1, <1>2, <1>4, <1>5, <2>2, <2>3 DEF RetainedTrue
<1> QED BY <1>5, <1>6, <1>7, <1>8 DEF DataInv

LEMMA RelayKeeps ==
  ASSUME ConstantsAssumption, DataInv, NEW s \in Connected, NEW p \in Peer,
         clients[s].peer # None, MayRelay(s, p), RelayDatagram(s, p)
  PROVE  /\ DataInv' /\ Connected' = Connected
         /\ \A x \in Socket : PeerOf(x)' = PeerOf(x)
<1> DEFINE from == clients[s].peer
<1>1. DataTypes /\ RoomsTrue /\ OneSession /\ RetainedTrue
  BY DEF DataInv
<1>2. /\ UNCHANGED <<clients, rooms, auth, retainedBytes, socketsByPeerId,
                     connections, connectionsByIp>>
      /\ Connected' = Connected /\ \A x \in Socket : PeerOf(x)' = PeerOf(x)
      /\ Bytes(Connected)' = Bytes(Connected)
  BY DEF RelayDatagram, dataVars, countVars, Connected, PeerOf, Bytes
<1>3. from \in Peer /\ \A P \in SUBSET Peer : None # P
  BY <1>1, ConstantFacts DEF DataTypes, Connected, Client
<1>4. \/ deviceLimits' = deviceLimits
      \/ /\ from # p /\ from \in Limited /\ p \in Limited
         /\ \E new \in SUBSET (deviceLimits[from] \cup {p}) :
              deviceLimits' = [deviceLimits EXCEPT ![from] = new]
  <2>1. ASSUME Delivers(s, p)
        PROVE  from # p /\ from \in Limited /\ p \in Limited
    BY <1>3, <2>1 DEF Delivers, PeersShareRoom, MayRelay, Limited
  <2>2. Delivers(s, p) =>
          \E new \in SUBSET (deviceLimits[from] \cup {p}) :
            deviceLimits' = [deviceLimits EXCEPT ![from] = new]
    BY DEF RelayDatagram
  <2> QED BY <2>1, <2>2 DEF RelayDatagram
<1>5. CASE deviceLimits' = deviceLimits
  <2>1. Limited' = Limited
    BY <1>5 DEF Limited
  <2> QED BY <1>1, <1>2, <1>5, <2>1 DEF DataInv, DataTypes, RoomsTrue, OneSession,
             RetainedTrue
<1>6. ASSUME from # p, from \in Limited, p \in Limited,
             NEW new \in SUBSET (deviceLimits[from] \cup {p}),
             deviceLimits' = [deviceLimits EXCEPT ![from] = new]
      PROVE  DataInv'
  <2> HIDE DEF from
  <2>1. deviceLimits[from] \in SUBSET Peer /\ deviceLimits[from] \subseteq Limited \ {from}
    BY <1>1, <1>6 DEF DataTypes, Limited, OneSession
  <2>2. new \in SUBSET Peer /\ new # None /\ new \subseteq Limited \ {from}
    BY <1>3, <1>6, <2>1
  <2>3. /\ deviceLimits' \in [Peer -> (SUBSET Peer) \cup {None}]
        /\ deviceLimits'[from] = new
        /\ \A q \in Peer : q # from => deviceLimits'[q] = deviceLimits[q]
    BY <1>1, <1>3, <1>6, <2>2 DEF DataTypes
  <2>4. Limited' = Limited
    BY <1>6, <2>2, <2>3 DEF Limited
  <2>5. \A q \in Peer : deviceLimits'[q] # None <=> deviceLimits[q] # None
    BY <2>4 DEF Limited
  <2>6. OneSession'
    <3>1. \A q \in Limited : deviceLimits'[q] \subseteq Limited \ {q}
      BY <1>1, <2>2, <2>3 DEF OneSession, Limited
    <3>2. \A q \in Peer : PeerOf(socketsByPeerId[q])' = PeerOf(socketsByPeerId[q])
      BY <1>2 DEF PeerOf
    <3> QED BY <1>1, <1>2, <2>4, <2>5, <3>1, <3>2 DEF OneSession
  <2> QED BY <1>1, <1>2, <2>3, <2>6 DEF DataInv, DataTypes, RoomsTrue, RetainedTrue
<1>7. DataInv'
  BY <1>4, <1>5, <1>6
<1> QED BY <1>2, <1>7

LEMMA DataKept ==
  ASSUME DataInv, UNCHANGED <<dataVars, deviceVars, countVars>>
  PROVE  /\ DataInv' /\ Connected' = Connected
         /\ \A x \in Socket : PeerOf(x)' = PeerOf(x)
BY DEF DataInv, DataTypes, RoomsTrue, OneSession, RetainedTrue, Connected,
       Limited, PeerOf, Bytes, dataVars, deviceVars, countVars

(* Whatever is accepted of a connected client.                             *)
LEMMA AppliedKeeps ==
  ASSUME ConstantsAssumption, DataInv, NEW s \in Connected, NEW m \in Message,
         Accepted(s, m), Apply(s, m)
  PROVE  /\ DataInv' /\ Connected' = Connected
         /\ \A x \in Socket : PeerOf(x)' = PeerOf(x)
<1>1. CASE m.type = "join"
  <2>1. m.room \in Room /\ m.auth \in Auth
    BY <1>1, MessageKinds
  <2>2. JoinRoom(s, m.room, m.auth)
    BY <1>1 DEF Apply
  <2> QED BY <2>1, <2>2, JoinKeeps
<1>2. CASE m.type = "leave"
  <2>1. m.room \in Room /\ LeaveRoom(s, m.room)
    BY <1>2, MessageKinds DEF Apply
  <2> QED BY <2>1, LeaveKeeps
<1>3. CASE m.type = "signal"
  <2>1. m.room \in Room /\ SignalRoom(s, m.room, m.length)
    BY <1>3, MessageKinds DEF Apply
  <2>2. MaySignal(s, m.room, m.length)
    BY <1>3 DEF Accepted
  <2> QED BY <2>1, <2>2, SignalKeeps
<1>4. CASE m.type = "get_peers"
  <2>1. UNCHANGED <<dataVars, deviceVars, countVars>>
    BY <1>4 DEF Apply, FetchPeers
  <2> QED BY <2>1, DataKept
<1>5. CASE m.type = "relay"
  <2>1. m.to \in Peer /\ RelayDatagram(s, m.to)
    BY <1>5, MessageKinds DEF Apply
  <2>2. clients[s].peer # None /\ MayRelay(s, m.to)
    BY <1>5 DEF Accepted
  <2> QED BY <2>1, <2>2, RelayKeeps
<1> QED BY <1>1, <1>2, <1>3, <1>4, <1>5 DEF Apply

(* A new connection has no identity, no rooms and no cards.                *)
LEMMA ConnectKeeps ==
  ASSUME ConstantsAssumption, DataInv, NEW s \in Socket, Connect(s)
  PROVE  /\ DataInv' /\ Connected' = Connected \cup {s}
         /\ \A x \in Socket : PeerOf(x)' = PeerOf(x)
<1> DEFINE c == [peer |-> None, rooms |-> {}, signals |-> [r \in Room |-> 0]]
<1>0. /\ IpOf[s] \in Ip /\ None \notin Client /\ MaxSignal \in Nat /\ None \notin Peer
      /\ None \notin Socket
  BY ConstantFacts
<1>1. DataTypes /\ RoomsTrue /\ OneSession /\ RetainedTrue
  BY DEF DataInv
<1>2. /\ c \in Client /\ c # None /\ c.peer = None /\ c.rooms = {}
      /\ \A r \in Room : c.signals[r] = 0
  BY <1>0 DEF Client
<1>3. /\ clients[s] = None /\ clients' = [clients EXCEPT ![s] = c]
      /\ connections' = connections + 1
      /\ connectionsByIp' = [connectionsByIp EXCEPT ![IpOf[s]] = @ + 1]
      /\ UNCHANGED <<rooms, auth, retainedBytes, socketsByPeerId, deviceLimits>>
  BY DEF Connect, deviceVars
<1> HIDE DEF c
<1>4. /\ clients' \in [Socket -> Client \cup {None}] /\ clients'[s] = c
      /\ \A x \in Socket : x # s => clients'[x] = clients[x]
  BY <1>1, <1>2, <1>3 DEF DataTypes
<1>5. /\ Connected' = Connected \cup {s} /\ s \notin Connected
      /\ \A x \in Socket : PeerOf(x)' = PeerOf(x)
  BY <1>2, <1>3, <1>4 DEF Connected, PeerOf
<1>6. DataTypes'
  <2>1. connections' \in Nat /\ connectionsByIp' \in [Ip -> Nat]
    BY <1>0, <1>1, <1>3 DEF DataTypes
  <2> QED BY <1>1, <1>3, <1>4, <2>1 DEF DataTypes
<1>7. RoomsTrue'
  BY <1>1, <1>3, <1>5 DEF RoomsTrue
<1>8. OneSession'
  <2>1. Limited' = Limited
    BY <1>3 DEF Limited
  <2>2. \A x \in Connected' : clients'[x].peer # None =>
          socketsByPeerId[clients'[x].peer] = x
    BY <1>1, <1>2, <1>4, <1>5 DEF OneSession, Connected
  <2>3. ASSUME NEW p \in Peer, socketsByPeerId[p] # None
        PROVE  PeerOf(socketsByPeerId[p])' = p
    BY <1>1, <1>3, <1>5, <2>3 DEF OneSession, DataTypes
  <2> QED BY <1>1, <1>3, <2>1, <2>2, <2>3 DEF OneSession
<1>9. RetainedTrue'
  <2>1. Bytes(Connected)' = Bytes(Connected)
    <3>1. CardBytes(clients', {s}) = {}
      BY <1>0, <1>2, <1>4, NoCardBytes
    <3>2. CardBytes(clients', Connected) = CardBytes(clients, Connected)
      <4>1. \A x \in Connected : clients'[x].signals = clients[x].signals
        BY <1>4, <1>5 DEF Connected
      <4> QED BY <4>1, CardBytesSame
    <3>3. CardBytes(clients', Connected \cup {s}) =
            CardBytes(clients', Connected) \cup CardBytes(clients', {s})
      BY DEF CardBytes
    <3> QED BY <1>5, <3>1, <3>2, <3>3 DEF Bytes, CardBytes
  <2>2. ASSUME NEW x \in Connected', NEW r \in Room
        PROVE  /\ x \in rooms'[r] <=> r \in clients'[x].rooms
               /\ clients'[x].signals[r] > 0 => x \in rooms'[r]
    <3>1. CASE x = s
      BY <1>1, <1>2, <1>3, <1>4, <1>5, <3>1 DEF RoomsTrue
    <3>2. CASE x # s
      BY <1>1, <1>3, <1>4, <1>5, <3>2 DEF RetainedTrue, Connected
    <3> QED BY <3>1, <3>2
  <2> QED BY <1>1, <1>3, <2>1, <2>2 DEF RetainedTrue
<1> QED BY <1>5, <1>6, <1>7, <1>8, <1>9 DEF DataInv

----------------------------------------------------------------------------
(* The steps.                                                              *)

LEMMA DoneCounts ==
  ASSUME NEW s, NEW S
  PROVE  /\ Cardinality(S \cap {s}) = IF s \in S THEN 1 ELSE 0
         /\ Cardinality(S \cap {}) = 0
<1>1. s \in S => S \cap {s} = {s}
  OBVIOUS
<1>2. s \notin S => S \cap {s} = {}
  OBVIOUS
<1>3. S \cap {} = {}
  OBVIOUS
<1> QED BY <1>1, <1>2, <1>3, FS_EmptySet, FS_Singleton

LEMMA RunningKept ==
  ASSUME RunningTrue, QueueTypes, UNCHANGED running, ConstantsAssumption,
         \A x \in Socket : PeerOf(x)' \in {None, PeerOf(x)}
  PROVE  RunningTrue' /\ running' \in Entry \cup {None}
<1>1. running # None => running.socket \in Socket
  BY DEF QueueTypes, Entry
<1> QED BY <1>1 DEF RunningTrue, QueueTypes, Registers

LEMMA CloseKeepsInv ==
  ASSUME ConstantsAssumption, IInv, NEW s \in Socket, Close(s)
  PROVE  IInv'
<1>1. DataInv /\ QueueTypes /\ RunningTrue /\ PendingTrue /\ s \in Connected
  BY DEF IInv, Close, Connected
<1>2. /\ DataInv' /\ Connected' = Connected \ {s}
      /\ \A x \in Socket : PeerOf(x)' \in {None, PeerOf(x)}
  BY <1>1, RejectKeeps DEF Close
<1>3. RunningTrue' /\ running' \in Entry \cup {None}
  BY <1>1, <1>2, RunningKept DEF Close
<1>4. QueueTypes' /\ PendingTrue'
  <2>1. PendingCounts /\ \A n \in DOMAIN queue : queue[n].socket \in Connected
    BY <1>1, PendingParts
  <2>2. ASSUME NEW S \in SUBSET Socket
        PROVE  /\ Cardinality(S \cap {}) \in Nat
               /\ Held(S) = Count(queue, S) + Cardinality(S \cap {}) + InWork(running', S)
    <3>1. Cardinality(S \cap {}) = 0 /\ Count(queue, S) \in Nat
      BY <1>1, DoneCounts, IndexesFinite DEF QueueTypes
    <3> QED BY <3>1 DEF Held, InWork, Close
  <2>3. queue \in Seq(Entry) /\ {s} \in SUBSET Socket /\ Settle(queue, {s}, {})
    BY <1>1 DEF QueueTypes, Close
  <2> QED BY <1>1, <1>2, <1>3, <2>1, <2>2, <2>3, SettleKeeps
<1> QED BY <1>2, <1>3, <1>4 DEF IInv

LEMMA ConnectKeepsInv ==
  ASSUME ConstantsAssumption, IInv, NEW s \in Socket, Connect(s)
  PROVE  IInv'
<1>1. DataInv /\ QueueTypes /\ RunningTrue /\ PendingTrue
  BY DEF IInv
<1>2. UNCHANGED <<queue, running, pendingMessages, pendingByClient, pendingByIp>>
  BY DEF Connect, queueVars
<1>3. /\ DataInv' /\ Connected' = Connected \cup {s}
      /\ \A x \in Socket : PeerOf(x)' = PeerOf(x)
  BY <1>1, ConnectKeeps
<1>4. RunningTrue'
  BY <1>1, <1>2, <1>3, RunningKept
<1>5. QueueTypes' /\ PendingTrue'
  BY <1>1, <1>2, <1>3 DEF QueueTypes, PendingTrue, Count
<1> QED BY <1>3, <1>4, <1>5 DEF IInv

LEMMA AdmitKeepsInv ==
  ASSUME ConstantsAssumption, IInv, NEW s \in Socket, NEW m \in Message, Admit(s, m)
  PROVE  IInv'
<1> DEFINE e == [socket |-> s, message |-> m]
<1>1. /\ DataInv /\ QueueTypes /\ RunningTrue /\ PendingTrue
      /\ s \in Connected /\ IpOf \in [Socket -> Ip]
  BY ConstantFacts DEF IInv, Admit, Connected
<1>2. /\ e \in Entry /\ e.socket = s
      /\ queue' = Append(queue, e) /\ running' = running
      /\ pendingMessages' = pendingMessages + 1
      /\ pendingByClient' = [pendingByClient EXCEPT ![s] = @ + 1]
      /\ pendingByIp' = [pendingByIp EXCEPT ![IpOf[s]] = @ + 1]
      /\ UNCHANGED <<dataVars, deviceVars, countVars>>
  BY DEF Admit, Entry
<1> HIDE DEF e
<1>3. /\ DataInv' /\ Connected' = Connected
      /\ \A x \in Socket : PeerOf(x)' = PeerOf(x)
  BY <1>1, <1>2, DataKept
<1>4. RunningTrue'
  BY <1>1, <1>2, <1>3, RunningKept
<1>5. QueueTypes'
  BY <1>1, <1>2 DEF QueueTypes
<1>6. PendingTrue'
  <2>1. PendingCounts /\ \A n \in DOMAIN queue : queue[n].socket \in Connected
    BY <1>1, PendingParts
  <2>2. ASSUME NEW S
        PROVE  /\ Held(S)' = Held(S) + (IF s \in S THEN 1 ELSE 0)
               /\ Held(S) \in Nat
    <3>1. /\ Count(Append(queue, e), S) = Count(queue, S) + (IF s \in S THEN 1 ELSE 0)
          /\ Count(queue, S) \in Nat
      BY <1>1, <1>2, CountAppend, IndexesFinite DEF QueueTypes
    <3>2. Held(S)' = Count(Append(queue, e), S) + InWork(running, S)
      BY <1>2 DEF Held, Count, InWork
    <3>3. InWork(running, S) \in Nat
      BY DEF InWork
    <3> QED BY <3>1, <3>2, <3>3 DEF Held
  <2>3. PendingCounts'
    <3>1. pendingMessages' = Held(Socket)'
      BY <1>2, <2>1, <2>2 DEF PendingCounts
    <3>2. ASSUME NEW x \in Socket
          PROVE  pendingByClient'[x] = Held({x})'
      <4>1. s \in {x} <=> s = x
        OBVIOUS
      <4>2. Held({x})' = Held({x}) + (IF s = x THEN 1 ELSE 0) /\ Held({x}) \in Nat
        BY <2>2, <4>1
      <4>3. pendingByClient[x] = Held({x})
        BY <2>1 DEF PendingCounts
      <4>4. pendingByClient'[x] = pendingByClient[x] + (IF s = x THEN 1 ELSE 0)
        BY <1>1, <1>2, <2>1, <2>2, <4>3 DEF QueueTypes
      <4> QED BY <4>2, <4>3, <4>4
    <3>3. ASSUME NEW i \in Ip
          PROVE  pendingByIp'[i] = Held(From(i))'
      <4>1. s \in From(i) <=> IpOf[s] = i
        BY DEF From
      <4>2. Held(From(i))' = Held(From(i)) + (IF IpOf[s] = i THEN 1 ELSE 0)
            /\ Held(From(i)) \in Nat
        BY <2>2, <4>1 DEF From
      <4> QED BY <1>1, <1>2, <2>1, <4>2 DEF PendingCounts, QueueTypes
    <3> QED BY <3>1, <3>2, <3>3 DEF PendingCounts
  <2>4. \A n \in DOMAIN queue' : queue'[n].socket \in Connected'
    <3>1. /\ queue \in Seq(Entry) /\ DOMAIN queue = 1 .. Len(queue)
          /\ DOMAIN queue' = 1 .. Len(queue) + 1 /\ Len(queue) \in Nat
          /\ \A n \in 1 .. Len(queue) : queue'[n] = queue[n]
          /\ queue'[Len(queue) + 1] = e
      BY <1>1, <1>2 DEF QueueTypes
    <3> QED BY <1>1, <1>2, <1>3, <2>1, <3>1
  <2> QED BY <2>3, <2>4 DEF PendingTrue, PendingCounts, Held, InWork
<1> QED BY <1>3, <1>4, <1>5, <1>6 DEF IInv

(* The head of the queue goes into work, is applied or ends the connection. *)
LEMMA TakeKeepsInv ==
  ASSUME ConstantsAssumption, IInv, Take
  PROVE  IInv'
<1> DEFINE e == Head(queue)
           s == e.socket
           m == e.message
<1>1. DataInv /\ QueueTypes /\ RunningTrue /\ PendingTrue
  BY DEF IInv
<1>2. queue # <<>> /\ running = None /\ queue \in Seq(Entry)
  BY <1>1 DEF Take, QueueTypes
<1>3. /\ Tail(queue) \in Seq(Entry) /\ e \in Entry /\ s \in Socket /\ m \in Message
      /\ \A S : Count(queue, S) = Count(Tail(queue), S) + (IF s \in S THEN 1 ELSE 0)
  <2>1. Tail(queue) \in Seq(Entry) /\ e \in Entry
    BY <1>2
  <2>2. s \in Socket /\ m \in Message
    BY <2>1 DEF Entry
  <2> QED BY <1>2, <2>1, <2>2, CountTail
<1>4. /\ s \in Connected
      /\ \A n \in DOMAIN Tail(queue) : Tail(queue)[n].socket \in Connected
  <2>1. \A n \in DOMAIN queue : queue[n].socket \in Connected
    BY <1>1, PendingParts
  <2>2. /\ e = queue[1] /\ 1 \in DOMAIN queue
        /\ \A n \in DOMAIN Tail(queue) :
             n + 1 \in DOMAIN queue /\ Tail(queue)[n] = queue[n + 1]
    BY <1>2
  <2> QED BY <2>1, <2>2
<1>5. PendingCounts
  BY <1>1, PendingParts
<1>6. ASSUME NEW S \in SUBSET Socket, UNCHANGED running
      PROVE  /\ Cardinality(S \cap {s}) \in Nat
             /\ Held(S) = Count(Tail(queue), S) + Cardinality(S \cap {s})
                            + InWork(running', S)
  <2>1. /\ Cardinality(S \cap {s}) = IF s \in S THEN 1 ELSE 0
        /\ Count(Tail(queue), S) \in Nat
        /\ Count(queue, S) = Count(Tail(queue), S) + (IF s \in S THEN 1 ELSE 0)
    BY <1>3, DoneCounts, IndexesFinite
  <2>2. InWork(running', S) = 0 /\ Held(S) = Count(queue, S) + 0
    BY <1>2, <1>6 DEF InWork, Held
  <2> QED BY <2>1, <2>2
<1>7. CASE Registers(e) /\ StartRegister(e)
  <2>1. /\ clients[s].peer \in {None, m.peer} /\ running' = e /\ queue' = Tail(queue)
        /\ UNCHANGED <<dataVars, deviceVars, countVars>>
        /\ UNCHANGED <<pendingMessages, pendingByClient, pendingByIp>>
    BY <1>7 DEF StartRegister
  <2> HIDE DEF e
  <2>2. /\ DataInv' /\ Connected' = Connected
        /\ \A x \in Socket : PeerOf(x)' = PeerOf(x)
    BY <1>1, <2>1, DataKept
  <2>3. RunningTrue'
    BY <1>3, <1>4, <1>7, <2>1, <2>2 DEF RunningTrue, Registers, PeerOf, Connected
  <2>4. QueueTypes'
    BY <1>1, <1>3, <2>1 DEF QueueTypes
  <2>5. PendingTrue'
    <3>1. ASSUME NEW S
          PROVE  Held(S)' = Held(S)
      <4>1. Held(S)' = Count(Tail(queue), S) + InWork(e, S)
        BY <2>1 DEF Held, Count, InWork
      <4>2. InWork(e, S) = (IF s \in S THEN 1 ELSE 0) /\ InWork(running, S) = 0
        BY <1>2, <1>3, ConstantFacts DEF InWork
      <4>3. Count(queue, S) = Count(Tail(queue), S) + (IF s \in S THEN 1 ELSE 0)
            /\ Count(Tail(queue), S) \in Nat
        BY <1>3, IndexesFinite
      <4> QED BY <4>1, <4>2, <4>3 DEF Held
    <3>2. PendingCounts'
      BY <1>5, <2>1, <3>1 DEF PendingCounts, From
    <3>3. \A n \in DOMAIN queue' : queue'[n].socket \in Connected'
      BY <1>4, <2>1, <2>2
    <3> QED BY <3>2, <3>3 DEF PendingTrue, PendingCounts, Held, InWork
  <2> QED BY <2>2, <2>3, <2>4, <2>5 DEF IInv
<1>8. CASE /\ ~Registers(e) /\ Accepted(s, m) /\ Apply(s, m)
           /\ Settle(Tail(queue), {}, {s}) /\ UNCHANGED running
  <2> HIDE DEF e
  <2>1. /\ DataInv' /\ Connected' = Connected \ {}
        /\ \A x \in Socket : PeerOf(x)' = PeerOf(x)
    BY <1>1, <1>3, <1>4, <1>8, AppliedKeeps
  <2>2. RunningTrue' /\ running' \in Entry \cup {None}
    BY <1>1, <1>8, <2>1, RunningKept
  <2>3. QueueTypes' /\ PendingTrue'
    <3>1. {} \in SUBSET Socket
      OBVIOUS
    <3> QED BY <1>1, <1>3, <1>4, <1>5, <1>6, <1>8, <2>1, <2>2, <3>1, SettleKeeps
  <2> QED BY <2>1, <2>2, <2>3 DEF IInv
<1>9. CASE Reject({s}) /\ Settle(Tail(queue), {s}, {s}) /\ UNCHANGED running
  <2> HIDE DEF e
  <2>1. /\ DataInv' /\ Connected' = Connected \ {s}
        /\ \A x \in Socket : PeerOf(x)' \in {None, PeerOf(x)}
    BY <1>1, <1>4, <1>9, RejectKeeps
  <2>2. RunningTrue' /\ running' \in Entry \cup {None}
    BY <1>1, <1>9, <2>1, RunningKept
  <2>3. QueueTypes' /\ PendingTrue'
    <3>1. {s} \in SUBSET Socket
      BY <1>3
    <3> QED BY <1>1, <1>3, <1>4, <1>5, <1>6, <1>9, <2>1, <2>2, <3>1, SettleKeeps
  <2> QED BY <2>1, <2>2, <2>3 DEF IInv
<1> QED BY <1>7, <1>8, <1>9 DEF Take

(* A verification ends; its connection may be gone.                        *)
LEMMA FinishKeepsInv ==
  ASSUME ConstantsAssumption, IInv, FinishRegister
  PROVE  IInv'
<1> DEFINE s == running.socket
           m == running.message
<1>1. /\ DataInv /\ QueueTypes /\ RunningTrue /\ PendingTrue
      /\ queue \in Seq(Entry) /\ DataTypes /\ OneSession
  BY DEF IInv, QueueTypes, DataInv
<1>2. /\ running # None /\ running' = None /\ running \in Entry
      /\ s \in Socket /\ m \in Message /\ m.type = "device_register"
  BY <1>1 DEF FinishRegister, QueueTypes, Entry, RunningTrue, Registers
<1>3. /\ PendingCounts /\ \A n \in DOMAIN queue : queue[n].socket \in Connected
      /\ running' \in Entry \cup {None}
  BY <1>1, <1>2, PendingParts
<1>4. ASSUME NEW S \in SUBSET Socket
      PROVE  /\ Cardinality(S \cap {s}) \in Nat
             /\ Held(S) = Count(queue, S) + Cardinality(S \cap {s}) + InWork(running', S)
  <2>1. /\ Cardinality(S \cap {s}) = IF s \in S THEN 1 ELSE 0
        /\ Count(queue, S) \in Nat
    BY <1>1, DoneCounts, IndexesFinite
  <2>2. InWork(running', S) = 0 /\ InWork(running, S) = IF s \in S THEN 1 ELSE 0
    BY <1>2 DEF InWork
  <2> QED BY <2>1, <2>2 DEF Held
<1>5. RunningTrue'
  BY <1>2 DEF RunningTrue
<1>6. PICK gone \in SUBSET Connected :
        DataInv' /\ Connected' = Connected \ gone /\ Settle(queue, gone, {s})
  <2>1. CASE /\ clients[s] = None /\ UNCHANGED <<dataVars, deviceVars, countVars>>
             /\ Settle(queue, {}, {s})
    <3>1. DataInv' /\ Connected' = Connected \ {} /\ {} \in SUBSET Connected
      BY <1>1, <2>1, DataKept
    <3> QED BY <2>1, <3>1
  <2>2. CASE clients[s] # None /\ Reject({s}) /\ Settle(queue, {s}, {s})
    <3>1. s \in Connected
      BY <1>2, <2>2 DEF Connected
    <3>2. DataInv' /\ Connected' = Connected \ {s} /\ {s} \in SUBSET Connected
      BY <1>1, <2>2, <3>1, RejectKeeps
    <3> QED BY <2>2, <3>2
  <2>3. CASE /\ clients[s] # None /\ Commit(s, m.peer)
             /\ Settle(queue, Replaced(s, m.peer), {s})
    <3>1. s \in Connected /\ clients[s].peer \in {None, m.peer} /\ m.peer \in Peer
      BY <1>1, <1>2, <2>3, MessageKinds DEF Connected, RunningTrue, PeerOf
    <3>2. DataInv' /\ Connected' = Connected \ Replaced(s, m.peer)
      BY <1>1, <2>3, <3>1, CommitKeeps
    <3>3. Replaced(s, m.peer) \in SUBSET Connected
      BY <1>1, <3>1, ConstantFacts DEF Replaced, OneSession, PeerOf, Connected, DataTypes
    <3> QED BY <2>3, <3>2, <3>3
  <2> QED BY <2>1, <2>2, <2>3 DEF FinishRegister
<1>7. QueueTypes' /\ PendingTrue'
  <2> HIDE DEF s
  <2>1. gone \in SUBSET Socket
    BY DEF Connected
  <2> QED BY <1>1, <1>3, <1>4, <1>6, <2>1, SettleKeeps
<1> QED BY <1>5, <1>6, <1>7 DEF IInv

LEMMA InitIsGood ==
  ASSUME ConstantsAssumption, Init
  PROVE  IInv
<1>0. /\ MaxRetained \in Nat /\ None \notin Socket /\ None \notin Entry
      /\ MaxSignal \in Nat
  BY ConstantFacts
<1>1. Connected = {} /\ Limited = {}
  BY DEF Init, Connected, Limited
<1>2. DataTypes /\ RoomsTrue /\ QueueTypes /\ RunningTrue
  BY DEF Init, DataTypes, RoomsTrue, QueueTypes, RunningTrue
<1>3. OneSession
  BY <1>1 DEF Init, OneSession
<1>4. RetainedTrue
  <2>1. Cardinality(CardBytes(clients, {})) = 0
    BY <1>0, NoCardBytes
  <2>2. Bytes(Connected) = 0
    BY <1>1, <2>1 DEF Bytes, CardBytes
  <2> QED BY <1>0, <1>1, <2>2 DEF Init, RetainedTrue
<1>5. PendingTrue
  <2>1. ASSUME NEW S
        PROVE  Held(S) = 0
    <3>1. IndexesOf(queue, S) = {} /\ InWork(running, S) = 0
      BY DEF Init, IndexesOf, InWork
    <3>2. Count(queue, S) = 0
      BY <3>1, FS_EmptySet DEF Count, IndexesOf
    <3> QED BY <3>1, <3>2 DEF Held
  <2>2. PendingCounts
    BY <2>1 DEF PendingCounts, Init
  <2> QED BY <2>2, PendingParts DEF Init
<1> QED BY <1>2, <1>3, <1>4, <1>5 DEF IInv, DataInv

LEMMA StutterKeeps ==
  ASSUME ConstantsAssumption, IInv, UNCHANGED vars
  PROVE  IInv'
<1>1. DataInv /\ QueueTypes /\ RunningTrue /\ PendingTrue
  BY DEF IInv
<1>2. UNCHANGED <<dataVars, deviceVars, countVars>>
      /\ UNCHANGED <<queue, running, pendingMessages, pendingByClient, pendingByIp>>
  BY DEF vars, queueVars
<1>3. /\ DataInv' /\ Connected' = Connected
      /\ \A x \in Socket : PeerOf(x)' = PeerOf(x)
  BY <1>1, <1>2, DataKept
<1>4. RunningTrue'
  BY <1>1, <1>2, <1>3, RunningKept
<1>5. QueueTypes' /\ PendingTrue'
  BY <1>1, <1>2, <1>3 DEF QueueTypes, PendingTrue, Count
<1> QED BY <1>3, <1>4, <1>5 DEF IInv

(* In every reachable state the sessions, the rooms with their cards and   *)
(* the counters of what waits agree, whatever closes while a registration  *)
(* is verified (drainQueue, handleClose and registerDevice of worker.ts).  *)
THEOREM Invariant == Spec => []IInv
<1>1. Init => IInv
  BY ConstantsAssumption, InitIsGood
<1>2. IInv /\ [Next]_vars => IInv'
  <2> SUFFICES ASSUME IInv, [Next]_vars
               PROVE  IInv'
    OBVIOUS
  <2> USE ConstantsAssumption
  <2>1. ASSUME NEW s \in Socket, Connect(s)
        PROVE  IInv'
    BY <2>1, ConnectKeepsInv
  <2>2. ASSUME NEW s \in Socket, Close(s) \/ OneTooMany(s)
        PROVE  IInv'
    BY <2>2, CloseKeepsInv DEF OneTooMany
  <2>3. ASSUME NEW s \in Socket, NEW m \in Message, Admit(s, m)
        PROVE  IInv'
    BY <2>3, AdmitKeepsInv
  <2>4. CASE Take
    BY <2>4, TakeKeepsInv
  <2>5. CASE FinishRegister
    BY <2>5, FinishKeepsInv
  <2>6. CASE UNCHANGED vars
    BY <2>6, StutterKeeps
  <2> QED BY <2>1, <2>2, <2>3, <2>4, <2>5, <2>6 DEF Next
<1> QED BY <1>1, <1>2, PTL DEF Spec

(* The tables, the queue and the counters of the service have their types. *)
THEOREM Typed == Spec => []TypeOK
BY Invariant, PTL DEF IInv, DataInv, TypeOK

(* A device has one session, the latest to prove its identity, and quotas  *)
(* exactly while it has one (registerDevice and handleClose).              *)
THEOREM SessionsTrue == Spec => []OneSession
BY Invariant, PTL DEF IInv, DataInv

(* The bytes retained are those of the cards of the members of rooms.      *)
THEOREM CardsTrue == Spec => []RetainedTrue
BY Invariant, PTL DEF IInv, DataInv

(* Every message that waits or is in work is counted once, for its         *)
(* connection, its address and the service (releasePending).               *)
THEOREM CountersTrue == Spec => []PendingTrue
BY Invariant, PTL DEF IInv

----------------------------------------------------------------------------
(* The refinement: every step of the worker is a step of the service, or   *)
(* none that a client sees.                                                *)

LEMMA InitRefines ==
  ASSUME Init
  PROVE  Server!Init
BY DEF Init, Server!Init, Server!NoSignals, Connected, Limited, PeerOf, RoomsOf,
       SignalsOf

LEMMA StutterRefines ==
  ASSUME UNCHANGED <<dataVars, deviceVars, countVars>>
  PROVE  UNCHANGED Server!vars
BY DEF dataVars, deviceVars, countVars, Server!vars, Server!roomVars,
       Server!deviceVars, Server!countVars, Connected, Limited, PeerOf, RoomsOf,
       SignalsOf

(* What a client sees of the clients of the service.                       *)
LEMMA SameView ==
  ASSUME NEW s \in Socket, clients[s] # None
  PROVE  /\ PeerOf(s) = clients[s].peer /\ RoomsOf(s) = clients[s].rooms
         /\ SignalsOf(s) = clients[s].signals
BY DEF PeerOf, RoomsOf, SignalsOf

LEMMA ConnectRefines ==
  ASSUME ConstantsAssumption, DataTypes, NEW s \in Socket, Connect(s)
  PROVE  Server!Connect(s)
<1> DEFINE c == [peer |-> None, rooms |-> {}, signals |-> [r \in Room |-> 0]]
<1>0. None \notin Client /\ MaxSignal \in Nat
  BY ConstantFacts
<1>1. c \in Client /\ c # None
  BY <1>0 DEF Client
<1>2. /\ clients[s] = None /\ clients' = [clients EXCEPT ![s] = c]
      /\ connections < MaxConnections /\ connectionsByIp[IpOf[s]] < MaxPerIp
      /\ connections' = connections + 1
      /\ connectionsByIp' = [connectionsByIp EXCEPT ![IpOf[s]] = @ + 1]
      /\ UNCHANGED <<rooms, auth, retainedBytes, socketsByPeerId, deviceLimits>>
  BY DEF Connect, deviceVars
<1> HIDE DEF c
<1>3. /\ clients'[s] = c /\ clients'[s] # None
      /\ \A x \in Socket : x # s => clients'[x] = clients[x]
  BY <1>1, <1>2 DEF DataTypes
<1>4. /\ Connected' = Connected \cup {s} /\ s \notin Connected
      /\ \A x \in Socket : PeerOf(x)' = PeerOf(x)
      /\ \A x \in Socket : RoomsOf(x)' = RoomsOf(x)
      /\ \A x \in Socket : SignalsOf(x)' = SignalsOf(x)
  BY <1>1, <1>2, <1>3 DEF Connected, PeerOf, RoomsOf, SignalsOf, c
<1>5. Limited' = Limited
  BY <1>2 DEF Limited
<1> QED BY <1>2, <1>4, <1>5 DEF Server!Connect, Server!roomVars, Server!deviceVars

(* The arguments of handleClose when a socket goes: clients with the same  *)
(* rooms and cards, and quotas of which those that are new are empty.      *)
Closing(g, cl, own, limits) ==
  /\ cl \in [Socket -> Client \cup {None}]
  /\ own \in [Peer -> Socket \cup {None}]
  /\ limits \in [Peer -> (SUBSET Peer) \cup {None}]
  /\ cl[g].peer = clients[g].peer
  /\ \A x \in Socket : cl[x] = None <=> clients[x] = None
  /\ \A x \in Connected : /\ cl[x].rooms = clients[x].rooms
                           /\ cl[x].signals = clients[x].signals
  /\ \A p \in Peer : limits[p] # deviceLimits[p] =>
       deviceLimits[p] = None /\ limits[p] = {}

Closed(g, cl, own, limits) ==
  /\ Server!CloseClient(g, own, {d \in Peer : limits[d] # None})
  /\ clients'[g] = None /\ \A x \in Socket : x # g => clients'[x] = cl[x]

(* handleClose of one socket is closeClient of it.                         *)
LEMMA HandleCloseRefines ==
  ASSUME ConstantsAssumption, DataTypes, RetainedTrue, RoomsTrue,
         NEW g \in Connected, NEW cl, NEW own, NEW limits,
         Closing(g, cl, own, limits), HandleClose({g}, cl, own, limits)
  PROVE  Closed(g, cl, own, limits)
<1> DEFINE gone == {p \in Peer : own[p] \in {g} /\ cl[own[p]].peer = p}
           left == {p \in Peer : own[p] = g /\ [x \in Socket |-> PeerOf(x)][g] = p}
           lim == {d \in Peer : limits[d] # None}
<1>c. /\ cl \in [Socket -> Client \cup {None}]
      /\ own \in [Peer -> Socket \cup {None}]
      /\ limits \in [Peer -> (SUBSET Peer) \cup {None}]
      /\ cl[g].peer = clients[g].peer
      /\ \A x \in Socket : cl[x] = None <=> clients[x] = None
      /\ \A x \in Connected : /\ cl[x].rooms = clients[x].rooms
                               /\ cl[x].signals = clients[x].signals
      /\ \A p \in Peer : limits[p] # deviceLimits[p] =>
           deviceLimits[p] = None /\ limits[p] = {}
  BY DEF Closing
<1>0. /\ g \in Socket /\ clients[g] # None /\ clients[g] \in Client
      /\ IpOf[g] \in Ip /\ None \notin Client /\ MaxSignal \in Nat
      /\ \A P \in SUBSET Peer : None # P
  BY ConstantFacts DEF Connected, DataTypes
<1>1. /\ clients' = [s \in Socket |-> IF s \in {g} THEN None ELSE cl[s]]
      /\ rooms' = [r \in Room |-> rooms[r] \ {g}]
      /\ auth' = [r \in Room |-> IF rooms[r] \ {g} = {} THEN None ELSE auth[r]]
      /\ retainedBytes' = retainedBytes - Bytes({g})
      /\ connections' = AtLeastZero(connections - Cardinality({g}))
      /\ connectionsByIp' = [i \in Ip |-> AtLeastZero(
           connectionsByIp[i] - Cardinality({s \in {g} : IpOf[s] = i}))]
      /\ socketsByPeerId' = [p \in Peer |-> IF p \in gone THEN None ELSE own[p]]
      /\ deviceLimits' = [p \in Peer |->
           IF p \in gone \/ limits[p] = None THEN None ELSE limits[p] \ gone]
  BY DEF HandleClose
<1>2. /\ clients'[g] = None /\ \A x \in Socket : x # g => clients'[x] = cl[x]
      /\ Connected' = Connected \ {g}
  BY <1>0, <1>1, <1>c DEF Connected
<1>3. /\ RoomsOf(g) = clients[g].rooms /\ SignalsOf(g) = clients[g].signals
      /\ PeerOf(g) = clients[g].peer
      /\ RoomsOf(g)' = {} /\ SignalsOf(g)' = [r \in Room |-> 0]
      /\ \A x \in Socket : x # g => RoomsOf(x)' = RoomsOf(x)
      /\ \A x \in Socket : x # g => SignalsOf(x)' = SignalsOf(x)
  BY <1>0, <1>2, <1>c DEF RoomsOf, SignalsOf, PeerOf, Connected
<1>4. Server!Uncount(g)
  <2>1. connections' = IF connections > 0 THEN connections - 1 ELSE 0
    <3>1. Cardinality({g}) = 1
      BY FS_Singleton
    <3> QED BY <1>1, <3>1 DEF AtLeastZero, DataTypes
  <2>2. connectionsByIp' = [connectionsByIp EXCEPT
                              ![IpOf[g]] = IF @ > 1 THEN @ - 1 ELSE 0]
    <3>1. ASSUME NEW i \in Ip
          PROVE  connectionsByIp'[i] =
                   IF i # IpOf[g] THEN connectionsByIp[i]
                   ELSE IF connectionsByIp[i] > 1 THEN connectionsByIp[i] - 1 ELSE 0
      <4>1. CASE i = IpOf[g]
        <5>1. {s \in {g} : IpOf[s] = i} = {g} /\ Cardinality({g}) = 1
          BY <4>1, FS_Singleton
        <5>2. connectionsByIp'[i] = AtLeastZero(connectionsByIp[i] - 1)
          BY <1>1, <5>1
        <5> QED BY <4>1, <5>2 DEF AtLeastZero, DataTypes
      <4>2. CASE i # IpOf[g]
        <5>1. {s \in {g} : IpOf[s] = i} = {}
          BY <4>2
        <5>2. connectionsByIp'[i] = AtLeastZero(connectionsByIp[i] - 0)
          BY <1>1, <5>1, FS_EmptySet
        <5> QED BY <4>2, <5>2 DEF AtLeastZero, DataTypes
      <4> QED BY <4>1, <4>2
    <3>2. DOMAIN connectionsByIp' = Ip /\ connectionsByIp \in [Ip -> Nat]
      BY <1>1 DEF DataTypes
    <3>3. connectionsByIp' = [i \in Ip |-> connectionsByIp'[i]]
      BY <1>1
    <3> QED BY <3>1, <3>2, <3>3
  <2> QED BY <1>2, <2>1, <2>2 DEF Server!Uncount
<1>5. Server!LeaveRooms(g, [x \in Socket |-> RoomsOf(x)][g])
  <2> DEFINE js == [x \in Socket |-> RoomsOf(x)][g]
             before == [x \in Socket |-> SignalsOf(x)]
             none == [r \in Room |-> IF r \in js THEN 0 ELSE before[g][r]]
  <2>1. \A r \in Room : g \in rooms[r] <=> r \in clients[g].rooms
    BY DEF RetainedTrue
  <2>2. js = RoomsOf(g) /\ js = clients[g].rooms
    BY <1>0, <1>3
  <2>3. before[g] = SignalsOf(g)
    BY <1>0
  <2>4. \A r \in Room : r \notin js => SignalsOf(g)[r] = 0
    <3>1. \A r \in Room : clients[g].signals[r] \in 0 .. MaxSignal
      BY <1>0 DEF Client
    <3> QED BY <1>0, <1>3, <2>1, <2>2, <3>1 DEF RetainedTrue
  <2>5. [x \in Socket |-> RoomsOf(x)]' =
          [[x \in Socket |-> RoomsOf(x)] EXCEPT ![g] = @ \ js]
    BY <1>0, <1>3
  <2> HIDE DEF js
  <2>6. Server!Without(g, js) = rooms'
    BY <1>1, <2>1, <2>2 DEF Server!Without
  <2>7. auth' = [r \in Room |-> IF Server!Without(g, js)[r] = {} THEN None ELSE auth[r]]
    BY <1>1, <2>6
  <2>8. none = SignalsOf(g)'
    BY <1>3, <2>3, <2>4
  <2> HIDE DEF none
  <2>9. before' = [before EXCEPT ![g] = none]
    BY <1>0, <1>3, <2>8
  <2>10. Server!LengthOver(g, js) = Bytes({g})
    <3>1. js \in SUBSET Room /\ \A r \in Room \ js : clients[g].signals[r] = 0
      BY <1>0, <1>3, <2>2, <2>4 DEF Client
    <3> QED BY <1>0, <3>1, LengthIsBytes DEF Bytes, CardBytes
  <2>11. retainedBytes' = retainedBytes - Server!LengthOver(g, js)
    BY <1>1, <2>10
  <2>12. Server!LeaveRooms(g, js)
    <3> USE DEF none
    <3> QED BY <2>5, <2>6, <2>7, <2>9, <2>11 DEF Server!LeaveRooms
  <2> QED BY <2>12 DEF js
<1>6. gone = left
  BY <1>0, <1>3, <1>c
<1> HIDE DEF gone, left
<1>7. /\ Limited' = lim \ left
      /\ \A p \in Peer : limits[p] # None => limits[p] \in SUBSET Peer
  BY <1>0, <1>1, <1>6, <1>c DEF Limited
<1>8. [p \in Peer |-> IF p \in Limited THEN deviceLimits[p] ELSE {}]' =
        [p \in Peer |-> IF p \in left THEN {} ELSE
           [q \in Peer |-> IF q \in Limited THEN deviceLimits[q] ELSE {}][p] \ left]
  BY <1>1, <1>6, <1>7, <1>c DEF Limited
<1>9. socketsByPeerId' = [p \in Peer |-> IF p \in left THEN None ELSE own[p]]
  BY <1>1, <1>6
<1>10. Server!CloseClient(g, own, lim)
  <2> HIDE DEF lim
  <2> USE DEF left
  <2> QED BY <1>4, <1>5, <1>7, <1>8, <1>9 DEF Server!CloseClient
<1> QED BY <1>2, <1>10 DEF Closed

LEMMA RejectRefines ==
  ASSUME ConstantsAssumption, DataInv, NEW s \in Connected, Reject({s})
  PROVE  Server!Close(s)
<1>1. DataTypes /\ RetainedTrue /\ RoomsTrue /\ s \in Socket
  BY DEF DataInv, Connected
<1>2. HandleClose({s}, clients, socketsByPeerId, deviceLimits)
  BY DEF Reject
<1>3. Closing(s, clients, socketsByPeerId, deviceLimits)
  BY <1>1 DEF Closing, DataTypes
<1>4. Closed(s, clients, socketsByPeerId, deviceLimits)
  BY <1>1, <1>2, <1>3, HandleCloseRefines
<1>5. /\ Server!CloseClient(s, socketsByPeerId, Limited)
      /\ clients'[s] = None /\ \A x \in Socket : x # s => clients'[x] = clients[x]
  <2> DEFINE lim == {d \in Peer : deviceLimits[d] # None}
  <2>1. Server!CloseClient(s, socketsByPeerId, lim)
    BY <1>4 DEF Closed
  <2>2. lim = Limited
    BY DEF Limited
  <2> HIDE DEF lim
  <2>3. Server!CloseClient(s, socketsByPeerId, Limited)
    BY <2>1, <2>2 DEF Server!CloseClient
  <2> QED BY <1>4, <2>3 DEF Closed
<1>6. [x \in Socket |-> PeerOf(x)]' = [[x \in Socket |-> PeerOf(x)] EXCEPT ![s] = None]
  BY <1>1, <1>5 DEF PeerOf
<1> QED BY <1>5, <1>6 DEF Server!Close

LEMMA JoinRefines ==
  ASSUME ConstantsAssumption, DataInv, NEW s \in Connected, NEW r \in Room,
         NEW a \in Auth, MayJoin(s, r, a), JoinRoom(s, r, a)
  PROVE  Server!Join(s, r, a)
<1> DEFINE c == [clients[s] EXCEPT !.rooms = @ \cup {r}]
<1>1. DataTypes /\ OneSession /\ s \in Socket /\ clients[s] \in Client /\ clients[s] # None
  BY ConstantFacts DEF DataInv, DataTypes, Connected
<1>2. /\ c \in Client /\ c.peer = clients[s].peer
      /\ c.rooms = clients[s].rooms \cup {r} /\ c.signals = clients[s].signals
  BY <1>1 DEF Client
<1>3. clients' = [clients EXCEPT ![s] = c] /\ UNCHANGED deviceVars
  BY DEF JoinRoom
<1> HIDE DEF c
<1>4. /\ clients'[s] = c /\ Connected' = Connected
      /\ \A x \in Socket : x # s => clients'[x] = clients[x]
      /\ \A x \in Socket : PeerOf(x)' = PeerOf(x)
  BY <1>1, <1>2, <1>3, ClientChanged
<1>5. /\ RoomsOf(s) = clients[s].rooms /\ RoomsOf(s)' = clients[s].rooms \cup {r}
      /\ \A x \in Socket : x # s => RoomsOf(x)' = RoomsOf(x)
      /\ \A x \in Socket : SignalsOf(x)' = SignalsOf(x)
  BY <1>1, <1>2, <1>4 DEF RoomsOf, SignalsOf, Connected
<1>6. Limited' = Limited
  BY <1>3 DEF Limited, deviceVars
<1>7. /\ [x \in Socket |-> RoomsOf(x)][s] = clients[s].rooms
      /\ [x \in Socket |-> RoomsOf(x)]' =
           [[x \in Socket |-> RoomsOf(x)] EXCEPT ![s] = @ \cup {r}]
  BY <1>1, <1>5
<1>8. CASE r \in clients[s].rooms
  <2>1. rooms' = rooms /\ auth' = auth
    BY <1>1, <1>8 DEF JoinRoom, DataTypes
  <2>2. [x \in Socket |-> RoomsOf(x)]' = [x \in Socket |-> RoomsOf(x)]
    BY <1>5, <1>8
  <2> QED BY <1>3, <1>4, <1>5, <1>6, <1>7, <1>8, <2>1, <2>2 DEF JoinRoom, Server!Join,
            Server!deviceVars, Server!countVars, deviceVars, countVars
<1>9. CASE r \notin clients[s].rooms
  <2>1. rooms' = [rooms EXCEPT ![r] = @ \cup {s}]
    BY <1>9 DEF JoinRoom
  <2>2. auth' = [auth EXCEPT ![r] = a]
    BY <1>1, <1>9 DEF JoinRoom, MayJoin, DataTypes
  <2> QED BY <1>3, <1>4, <1>5, <1>6, <1>7, <1>9, <2>1, <2>2 DEF JoinRoom, Server!Join,
            Server!deviceVars, Server!countVars, deviceVars, countVars
<1> QED BY <1>8, <1>9

LEMMA MayJoinRefines ==
  ASSUME DataTypes, NEW s \in Connected, NEW m, MayJoin(s, m.room, m.auth), m.room \in Room
  PROVE  Server!MayJoin(s, m)
<1>1. [x \in Socket |-> RoomsOf(x)][s] = clients[s].rooms
  BY DEF RoomsOf, Connected
<1>2. Server!Existing = {x \in Room : rooms[x] # {}}
  BY DEF Server!Existing
<1> QED BY <1>1, <1>2, SameCardinality DEF MayJoin, Server!MayJoin

LEMMA LeaveRefines ==
  ASSUME ConstantsAssumption, DataInv, NEW s \in Connected, NEW r \in Room,
         LeaveRoom(s, r)
  PROVE  Server!Leave(s, r)
<1>1. /\ DataTypes /\ OneSession /\ RoomsTrue
      /\ s \in Socket /\ clients[s] \in Client /\ clients[s] # None
  BY ConstantFacts DEF DataInv, DataTypes, Connected
<1>2. /\ RoomsOf(s) = clients[s].rooms /\ SignalsOf(s) = clients[s].signals
      /\ clients[s].signals \in [Room -> 0 .. MaxSignal] /\ MaxSignal \in Nat
  BY <1>1, ConstantFacts DEF RoomsOf, SignalsOf, Client
<1> DEFINE before == [x \in Socket |-> SignalsOf(x)]
           js == [x \in Socket |-> RoomsOf(x)]
<1>3. before[s] = SignalsOf(s) /\ js[s] = RoomsOf(s)
  BY <1>1
<1>4. Server!Existing = {x \in Room : rooms[x] # {}}
  BY DEF Server!Existing
<1>5. CASE rooms[r] = {}
  <2>1. UNCHANGED <<clients, rooms, auth, retainedBytes, socketsByPeerId,
                    deviceLimits, connections, connectionsByIp>>
    BY <1>5 DEF LeaveRoom, dataVars, deviceVars, countVars
  <2>2. {r} \cap Server!Existing = {}
    BY <1>4, <1>5
  <2>3. Server!Without(s, {}) = rooms
    BY <1>1 DEF Server!Without, DataTypes
  <2>4. auth' = [q \in Room |-> IF Server!Without(s, {})[q] = {} THEN None ELSE auth[q]]
    BY <1>1, <2>1, <2>3 DEF RoomsTrue, DataTypes
  <2>5. js' = [js EXCEPT ![s] = js[s] \ {}]
    BY <1>3, <2>1 DEF RoomsOf
  <2>6. [q \in Room |-> IF q \in {} THEN 0 ELSE before[s][q]] = SignalsOf(s)
    BY <1>2, <1>3
  <2>7. before' = [before EXCEPT ![s] = SignalsOf(s)]
    BY <1>3, <2>1 DEF SignalsOf
  <2>8. retainedBytes' = retainedBytes - Server!LengthOver(s, {})
    <3>1. Server!LengthOver(s, {}) = 0
      BY <1>1, LengthOfOne
    <3> QED BY <1>1, <2>1, <3>1 DEF DataTypes
  <2>9. Server!LeaveRooms(s, {})
    BY <2>1, <2>3, <2>4, <2>5, <2>6, <2>7, <2>8 DEF Server!LeaveRooms
  <2>10. UNCHANGED Server!deviceVars /\ UNCHANGED Server!countVars
    BY <2>1 DEF Server!deviceVars, Server!countVars, Limited, PeerOf, Connected
  <2> QED BY <2>2, <2>9, <2>10 DEF Server!Leave
<1>6. CASE rooms[r] # {}
  <2> DEFINE f == [clients[s].signals EXCEPT ![r] = 0]
             c1 == [clients[s] EXCEPT !.rooms = @ \ {r}]
             c == [c1 EXCEPT !.signals = f]
             none == [q \in Room |-> IF q \in {r} THEN 0 ELSE before[s][q]]
  <2>1. /\ c \in Client /\ c.peer = clients[s].peer
        /\ c.rooms = clients[s].rooms \ {r} /\ c.signals = f
    <3>1. f \in [Room -> 0 .. MaxSignal]
      BY <1>2
    <3>2. /\ c1 \in Client /\ c1.peer = clients[s].peer
          /\ c1.rooms = clients[s].rooms \ {r} /\ c1.signals = clients[s].signals
      BY <1>1 DEF Client
    <3> HIDE DEF c1, f
    <3> QED BY <3>1, <3>2 DEF Client
  <2>2. /\ rooms' = [rooms EXCEPT ![r] = @ \ {s}]
        /\ auth' = [auth EXCEPT ![r] = IF rooms[r] \ {s} = {} THEN None ELSE @]
        /\ retainedBytes' = retainedBytes - clients[s].signals[r]
        /\ UNCHANGED <<socketsByPeerId, deviceLimits, connections, connectionsByIp>>
    BY <1>6 DEF LeaveRoom, deviceVars, countVars
  <2>3. clients' = [clients EXCEPT ![s] = c]
    <3>1. clients' = [clients EXCEPT ![s].rooms = @ \ {r}, ![s].signals[r] = 0]
      BY <1>6 DEF LeaveRoom
    <3>2. [clients EXCEPT ![s].rooms = @ \ {r}, ![s].signals[r] = 0] =
            [clients EXCEPT ![s] = c]
      BY <1>1 DEF DataTypes, Client
    <3> QED BY <3>1, <3>2
  <2> HIDE DEF c, c1
  <2>4. /\ clients'[s] = c /\ Connected' = Connected
        /\ \A x \in Socket : x # s => clients'[x] = clients[x]
        /\ \A x \in Socket : PeerOf(x)' = PeerOf(x)
    BY <1>1, <2>1, <2>2, <2>3, ClientChanged DEF deviceVars
  <2>5. /\ RoomsOf(s)' = RoomsOf(s) \ {r} /\ SignalsOf(s)' = f
        /\ \A x \in Socket : x # s => RoomsOf(x)' = RoomsOf(x)
        /\ \A x \in Socket : x # s => SignalsOf(x)' = SignalsOf(x)
    <3>1. clients'[s] # None
      BY <2>4, <1>1 DEF Connected
    <3> QED BY <1>2, <2>1, <2>4, <3>1 DEF RoomsOf, SignalsOf
  <2>6. {r} \cap Server!Existing = {r}
    BY <1>4, <1>6
  <2>7. Server!Without(s, {r}) = rooms'
    BY <1>1, <2>2 DEF Server!Without, DataTypes
  <2>8. auth' = [q \in Room |-> IF Server!Without(s, {r})[q] = {} THEN None ELSE auth[q]]
    BY <1>1, <2>2, <2>7 DEF RoomsTrue, DataTypes
  <2>9. js' = [js EXCEPT ![s] = js[s] \ {r}]
    BY <1>1, <1>3, <2>5
  <2>10. none = f
    BY <1>2, <1>3
  <2> HIDE DEF none, f
  <2>11. before' = [before EXCEPT ![s] = none]
    BY <1>1, <2>5, <2>10
  <2>12. retainedBytes' = retainedBytes - Server!LengthOver(s, {r})
    BY <1>1, <2>2, LengthOfOne
  <2>13. Server!LeaveRooms(s, {r})
    <3> USE DEF none
    <3> QED BY <2>7, <2>8, <2>9, <2>11, <2>12 DEF Server!LeaveRooms
  <2>14. UNCHANGED Server!deviceVars /\ UNCHANGED Server!countVars
    BY <2>2, <2>4 DEF Server!deviceVars, Server!countVars, Limited
  <2> QED BY <2>6, <2>13, <2>14 DEF Server!Leave
<1> QED BY <1>5, <1>6

LEMMA SignalRefines ==
  ASSUME ConstantsAssumption, DataInv, NEW s \in Connected, NEW r \in Room,
         NEW length, MaySignal(s, r, length), SignalRoom(s, r, length)
  PROVE  Server!Signal(s, r, length)
<1> DEFINE f == [clients[s].signals EXCEPT ![r] = length]
           c == [clients[s] EXCEPT !.signals = f]
           before == [x \in Socket |-> SignalsOf(x)]
<1>1. /\ DataTypes /\ OneSession
      /\ s \in Socket /\ clients[s] \in Client /\ clients[s] # None
      /\ MaxSignal \in Nat
  BY ConstantFacts DEF DataInv, DataTypes, Connected
<1>2. length \in 0 .. MaxSignal
  BY <1>1 DEF MaySignal
<1>3. /\ c \in Client /\ c.peer = clients[s].peer
      /\ c.rooms = clients[s].rooms /\ c.signals = f
  BY <1>1, <1>2 DEF Client
<1>4. /\ clients' = [clients EXCEPT ![s] = c] /\ UNCHANGED deviceVars
      /\ retainedBytes' = retainedBytes + length - clients[s].signals[r]
      /\ UNCHANGED <<rooms, auth, socketsByPeerId, deviceLimits, connections,
                     connectionsByIp>>
  BY DEF SignalRoom, deviceVars, countVars
<1> HIDE DEF c
<1>5. /\ clients'[s] = c /\ Connected' = Connected
      /\ \A x \in Socket : x # s => clients'[x] = clients[x]
      /\ \A x \in Socket : PeerOf(x)' = PeerOf(x)
  BY <1>1, <1>3, <1>4, ClientChanged
<1>6. clients'[s] # None /\ SignalsOf(s) = clients[s].signals
  BY <1>1, <1>5 DEF Connected, SignalsOf
<1>7. /\ SignalsOf(s)' = f
      /\ \A x \in Socket : x # s => SignalsOf(x)' = SignalsOf(x)
      /\ \A x \in Socket : RoomsOf(x)' = RoomsOf(x)
  BY <1>1, <1>3, <1>5, <1>6 DEF RoomsOf, SignalsOf
<1>8. before[s] = clients[s].signals
  BY <1>1, <1>6
<1>9. before' = [before EXCEPT ![s][r] = length]
  <2>1. before' = [before EXCEPT ![s] = f]
    BY <1>1, <1>7
  <2>2. [before EXCEPT ![s][r] = length] = [before EXCEPT ![s] = f]
    BY <1>8
  <2> QED BY <2>1, <2>2
<1>10. Limited' = Limited
  BY <1>4 DEF Limited
<1> QED BY <1>4, <1>5, <1>7, <1>8, <1>9, <1>10 DEF Server!Signal, Server!deviceVars,
        Server!countVars

(* The frame is forwarded for the same reasons.                            *)
LEMMA DeliversRefines ==
  ASSUME DataTypes, NEW s \in Connected, NEW p
  PROVE  Server!Reaches(s, p) <=> Delivers(s, p)
<1>1. /\ [x \in Socket |-> PeerOf(x)][s] = clients[s].peer
      /\ [x \in Socket |-> RoomsOf(x)][s] = clients[s].rooms
      /\ clients[s].rooms \subseteq Room
  BY DEF PeerOf, RoomsOf, Connected, DataTypes, Client
<1>2. \A r \in Room : \A t \in rooms[r] :
        [x \in Socket |-> PeerOf(x)][t] = PeerOf(t)
  BY DEF DataTypes
<1> QED BY <1>1, <1>2 DEF Server!Reaches, Server!ShareRoom, Delivers, PeersShareRoom

LEMMA RelayRefines ==
  ASSUME ConstantsAssumption, DataInv, NEW s \in Connected, NEW m, m.to \in Peer,
         clients[s].peer # None, MayRelay(s, m.to), RelayDatagram(s, m.to)
  PROVE  Server!MayRelay(s, m) /\ Server!Relay(s, m.to)
<1> DEFINE from == clients[s].peer
           p == m.to
           slots == [q \in Peer |-> IF q \in Limited THEN deviceLimits[q] ELSE {}]
           peer == [x \in Socket |-> PeerOf(x)][s]
           unchanged == UNCHANGED <<[x \in Socket |-> PeerOf(x)], socketsByPeerId,
                          Limited, Server!roomVars, Server!countVars>>
<1>1. /\ DataTypes /\ s \in Socket /\ from \in Peer /\ p \in Peer
      /\ \A P \in SUBSET Peer : None # P
      /\ [x \in Socket |-> PeerOf(x)][s] = from
  BY ConstantFacts DEF DataInv, DataTypes, Connected, Client, PeerOf
<1>2. Server!Reaches(s, p) <=> Delivers(s, p)
  BY <1>1, DeliversRefines
<1>3. Delivers(s, p) => from \in Limited /\ p \in Limited
  BY <1>1 DEF MayRelay, Limited
<1>4. Server!MayRelay(s, m)
  BY <1>1, <1>2, <1>3 DEF MayRelay, Server!MayRelay
<1>5. UNCHANGED <<clients, rooms, auth, retainedBytes, socketsByPeerId, connections,
                  connectionsByIp>>
  BY DEF RelayDatagram, dataVars, countVars
<1>6. /\ Connected' = Connected /\ \A x \in Socket : PeerOf(x)' = PeerOf(x)
      /\ \A x \in Socket : RoomsOf(x)' = RoomsOf(x)
      /\ \A x \in Socket : SignalsOf(x)' = SignalsOf(x)
  BY <1>5 DEF Connected, PeerOf, RoomsOf, SignalsOf
<1>7. CASE ~Delivers(s, p) /\ deviceLimits' = deviceLimits
  <2>1. UNCHANGED <<dataVars, deviceVars, countVars>>
    BY <1>5, <1>7 DEF dataVars, deviceVars, countVars
  <2>2. UNCHANGED Server!vars
    BY <2>1, StutterRefines
  <2> QED BY <1>2, <1>4, <1>7, <2>2 DEF Server!Relay
<1>8. ASSUME Delivers(s, p), NEW new \in SUBSET (deviceLimits[from] \cup {p}),
             deviceLimits' = [deviceLimits EXCEPT ![from] = new]
      PROVE  Limited' = Limited /\ slots' = [slots EXCEPT ![from] = new]
  <2>1. from \in Limited /\ p \in Limited /\ deviceLimits[from] \in SUBSET Peer
    BY <1>1, <1>3, <1>8 DEF DataTypes, Limited
  <2>2. new # None
    BY <1>1, <2>1
  <2> HIDE DEF from, p
  <2>3. /\ deviceLimits'[from] = new /\ from \in Peer
        /\ \A q \in Peer : q # from => deviceLimits'[q] = deviceLimits[q]
    BY <1>1, <1>8 DEF DataTypes
  <2>4. Limited' = Limited
    BY <2>1, <2>2, <2>3 DEF Limited
  <2> QED BY <2>1, <2>3, <2>4
<1>9. CASE Delivers(s, p)
  <2>1. PICK kept \in SUBSET deviceLimits[from] :
          \/ deviceLimits' = [deviceLimits EXCEPT ![from] = kept]
          \/ /\ p \in kept \/ Cardinality(kept) < MaxRelayPeers
             /\ deviceLimits' = [deviceLimits EXCEPT ![from] = kept \cup {p}]
    BY <1>9 DEF RelayDatagram
  <2>2. kept \in SUBSET slots[peer]
    BY <1>1, <1>3, <1>9
  <2>3. Server!Cardinality(kept) = Cardinality(kept)
    BY SameCardinality
  <2>4. CASE deviceLimits' = [deviceLimits EXCEPT ![from] = kept]
    <3>1. Limited' = Limited /\ slots' = [slots EXCEPT ![peer] = kept]
      BY <1>1, <1>8, <1>9, <2>4
    <3>2. Server!Reaches(s, p) /\ unchanged
      BY <1>2, <1>5, <1>6, <1>9, <3>1 DEF Server!roomVars, Server!countVars
    <3>3. \E k \in SUBSET slots[peer] :
            \/ slots' = [slots EXCEPT ![peer] = k]
            \/ /\ p \in k \/ Server!Cardinality(k) < MaxRelayPeers
               /\ slots' = [slots EXCEPT ![peer] = k \cup {p}]
      BY <2>2, <3>1
    <3> QED BY <1>4, <3>2, <3>3 DEF Server!Relay
  <2>5. CASE /\ p \in kept \/ Cardinality(kept) < MaxRelayPeers
             /\ deviceLimits' = [deviceLimits EXCEPT ![from] = kept \cup {p}]
    <3>1. Limited' = Limited /\ slots' = [slots EXCEPT ![peer] = kept \cup {p}]
      BY <1>1, <1>8, <1>9, <2>5
    <3>2. Server!Reaches(s, p) /\ unchanged
      BY <1>2, <1>5, <1>6, <1>9, <3>1 DEF Server!roomVars, Server!countVars
    <3>3. \E k \in SUBSET slots[peer] :
            \/ slots' = [slots EXCEPT ![peer] = k]
            \/ /\ p \in k \/ Server!Cardinality(k) < MaxRelayPeers
               /\ slots' = [slots EXCEPT ![peer] = k \cup {p}]
      BY <2>2, <2>3, <2>5, <3>1
    <3> QED BY <1>4, <3>2, <3>3 DEF Server!Relay
  <2> QED BY <2>1, <2>4, <2>5
<1> QED BY <1>7, <1>9 DEF RelayDatagram

(* What the worker accepts and applies, the service does.                  *)
LEMMA AppliedRefines ==
  ASSUME ConstantsAssumption, DataInv, NEW s \in Connected, NEW m \in Message,
         Accepted(s, m), Apply(s, m)
  PROVE  Server!Handle(s, m)
<1>1. /\ DataTypes /\ s \in Socket /\ clients[s].peer # None
      /\ [x \in Socket |-> PeerOf(x)][s] = clients[s].peer
      /\ [x \in Socket |-> RoomsOf(x)][s] = clients[s].rooms
      /\ [x \in Socket |-> SignalsOf(x)][s] = clients[s].signals
  BY DEF DataInv, Connected, Accepted, PeerOf, RoomsOf, SignalsOf
<1> SUFFICES Server!Accepted(s, m) /\ Server!Apply(s, m)
  BY DEF Server!Handle
<1>2. CASE m.type = "join"
  <2>1. m.room \in Room /\ m.auth \in Auth
    BY <1>2, MessageKinds
  <2>2. MayJoin(s, m.room, m.auth) /\ JoinRoom(s, m.room, m.auth)
    BY <1>2 DEF Accepted, Apply
  <2>3. Server!MayJoin(s, m)
    BY <1>1, <2>1, <2>2, MayJoinRefines
  <2>4. Server!Join(s, m.room, m.auth)
    BY <2>1, <2>2, JoinRefines
  <2> QED BY <1>1, <1>2, <2>3, <2>4 DEF Server!Accepted, Server!Apply
<1>3. CASE m.type = "leave"
  <2>1. m.room \in Room /\ LeaveRoom(s, m.room)
    BY <1>3, MessageKinds DEF Apply
  <2>2. Server!Leave(s, m.room)
    BY <2>1, LeaveRefines
  <2> QED BY <1>1, <1>3, <2>2 DEF Server!Accepted, Server!Apply
<1>4. CASE m.type = "signal"
  <2>1. m.room \in Room /\ SignalRoom(s, m.room, m.length)
    BY <1>4, MessageKinds DEF Apply
  <2>2. MaySignal(s, m.room, m.length)
    BY <1>4 DEF Accepted
  <2>3. Server!Signal(s, m.room, m.length)
    BY <2>1, <2>2, SignalRefines
  <2>4. Server!MaySignal(s, m)
    BY <1>1, <2>2 DEF MaySignal, Server!MaySignal
  <2> QED BY <1>1, <1>4, <2>3, <2>4 DEF Server!Accepted, Server!Apply
<1>5. CASE m.type = "get_peers"
  <2>1. m.room \in clients[s].rooms /\ UNCHANGED <<dataVars, deviceVars, countVars>>
    BY <1>5 DEF Accepted, Apply, FetchPeers
  <2>2. UNCHANGED Server!vars
    BY <2>1, StutterRefines
  <2> QED BY <1>1, <1>5, <2>1, <2>2 DEF Server!Accepted, Server!Apply, Server!FetchPeers
<1>6. CASE m.type = "relay"
  <2>1. m.to \in Peer /\ RelayDatagram(s, m.to)
    BY <1>6, MessageKinds DEF Apply
  <2>2. MayRelay(s, m.to)
    BY <1>6 DEF Accepted
  <2>3. Server!MayRelay(s, m) /\ Server!Relay(s, m.to)
    BY <1>1, <2>1, <2>2, RelayRefines
  <2> QED BY <1>1, <1>6, <2>3 DEF Server!Accepted, Server!Apply
<1> QED BY <1>2, <1>3, <1>4, <1>5, <1>6 DEF Apply

(* A registration that is valid when its verification ends is the          *)
(* synchronous one; the session it replaces closes with it.                *)
LEMMA CommitRefines ==
  ASSUME ConstantsAssumption, DataInv, NEW s \in Connected, NEW p \in Peer,
         clients[s].peer \in {None, p}, Commit(s, p)
  PROVE  Server!Register(s, p)
<1> DEFINE cl == [clients EXCEPT ![s].peer = p]
           own == [socketsByPeerId EXCEPT ![p] = s]
           limits == [deviceLimits EXCEPT ![p] = IF @ = None THEN {} ELSE @]
           c == [clients[s] EXCEPT !.peer = p]
           peer == [x \in Socket |-> PeerOf(x)]
<1>0. /\ None \notin Socket /\ None \notin Client /\ MaxSignal \in Nat
      /\ None \notin Peer /\ \A P \in SUBSET Peer : None # P
  BY ConstantFacts
<1>1. /\ DataTypes /\ RetainedTrue /\ RoomsTrue /\ OneSession
      /\ s \in Socket /\ clients[s] \in Client /\ clients[s] # None
  BY DEF DataInv, DataTypes, Connected
<1>p. PICK previous \in Socket \cup {None} : previous = socketsByPeerId[p]
  BY <1>1 DEF DataTypes
<1>2. /\ c \in Client /\ c.peer = p /\ c.rooms = clients[s].rooms
      /\ c.signals = clients[s].signals /\ cl = [clients EXCEPT ![s] = c]
  BY <1>1 DEF Client
<1> HIDE DEF c
<1>3. /\ cl \in [Socket -> Client \cup {None}] /\ cl[s] = c
      /\ \A x \in Socket : x # s => cl[x] = clients[x]
  BY <1>1, <1>2 DEF DataTypes
<1>4. /\ own \in [Peer -> Socket \cup {None}] /\ own[p] = s
      /\ \A q \in Peer : q # p => own[q] = socketsByPeerId[q]
  BY <1>1 DEF DataTypes
<1>5. /\ limits \in [Peer -> (SUBSET Peer) \cup {None}] /\ limits[p] # None
      /\ limits[p] = IF deviceLimits[p] = None THEN {} ELSE deviceLimits[p]
      /\ \A q \in Peer : q # p => limits[q] = deviceLimits[q]
  BY <1>0, <1>1 DEF DataTypes
<1>6. {q \in Peer : limits[q] # None} = Limited \cup {p}
  BY <1>5 DEF Limited
<1>7. HandleClose(Replaced(s, p), cl, own, limits)
  BY DEF Commit
<1>8. CASE previous \in {None, s}
  <2>1. Replaced(s, p) = {}
    BY <1>8, <1>p DEF Replaced
  <2> HIDE DEF cl, own, limits
  <2>2. HandleClose({}, cl, own, limits)
    BY <1>7, <2>1
  <2>3. Bytes({}) = 0 /\ Cardinality({}) = 0
    BY <1>0, NoCardBytes, FS_EmptySet DEF Bytes, CardBytes
  <2>4. clients' = cl
    BY <1>3, <2>2 DEF HandleClose
  <2>5. rooms' = rooms /\ auth' = auth
    BY <1>1, <2>2 DEF HandleClose, DataTypes, RoomsTrue
  <2>6. retainedBytes' = retainedBytes /\ connections' = connections
    BY <1>1, <2>2, <2>3 DEF HandleClose, AtLeastZero, DataTypes
  <2>7. connectionsByIp' = connectionsByIp
    <3>1. \A i \in Ip : {x \in {} : IpOf[x] = i} = {}
      OBVIOUS
    <3>2. connectionsByIp' = [i \in Ip |-> AtLeastZero(connectionsByIp[i] - 0)]
      BY <2>2, <2>3, <3>1 DEF HandleClose
    <3>3. \A i \in Ip : AtLeastZero(connectionsByIp[i] - 0) = connectionsByIp[i]
      BY <1>1 DEF AtLeastZero, DataTypes
    <3> QED BY <1>1, <3>2, <3>3 DEF DataTypes
  <2>8. socketsByPeerId' = own
    BY <1>4, <2>2 DEF HandleClose
  <2>9. deviceLimits' = limits
    <3>1. deviceLimits' = [q \in Peer |-> IF limits[q] = None THEN None ELSE limits[q] \ {}]
      BY <2>2 DEF HandleClose
    <3>2. \A q \in Peer : limits[q] # None => limits[q] \ {} = limits[q]
      BY <1>5
    <3> QED BY <1>5, <3>1, <3>2
  <2>10. /\ Connected' = Connected
         /\ \A x \in Socket : PeerOf(x)' = IF x = s THEN p ELSE PeerOf(x)
         /\ \A x \in Socket : RoomsOf(x)' = RoomsOf(x)
         /\ \A x \in Socket : SignalsOf(x)' = SignalsOf(x)
    <3>1. c # None
      BY <1>0, <1>2
    <3> QED BY <1>1, <1>2, <1>3, <2>4, <3>1 DEF Connected, PeerOf, RoomsOf, SignalsOf
  <2>11. peer' = [peer EXCEPT ![s] = p]
    BY <1>1, <2>10
  <2>12. Limited' = Limited \cup {p}
    BY <1>6, <2>9 DEF Limited
  <2>13. \A q \in Peer : (IF q \in Limited' THEN deviceLimits'[q] ELSE {}) =
                         (IF q \in Limited THEN deviceLimits[q] ELSE {})
    BY <1>5, <2>9, <2>12 DEF Limited
  <2>14. socketsByPeerId' = [socketsByPeerId EXCEPT ![p] = s]
    BY <2>8 DEF own
  <2> QED BY <1>p, <1>8, <2>5, <2>6, <2>7, <2>10, <2>11, <2>12, <2>13, <2>14
          DEF Server!Register, Server!roomVars, Server!countVars
<1>9. CASE previous \notin {None, s}
  <2>1. Replaced(s, p) = {previous}
    BY <1>9, <1>p DEF Replaced
  <2>2. previous \in Connected /\ PeerOf(previous) = p /\ previous \in Socket
    <3>1. PeerOf(previous) = p /\ previous \in Socket
      BY <1>1, <1>9, <1>p DEF OneSession
    <3>2. PeerOf(previous) # None
      BY <1>0, <3>1
    <3> QED BY <3>1, <3>2 DEF PeerOf, Connected
  <2> HIDE DEF cl, own, limits
  <2>3. HandleClose({previous}, cl, own, limits)
    BY <1>7, <2>1
  <2>4. /\ \A x \in Socket : cl[x] = None <=> clients[x] = None
        /\ \A x \in Connected : /\ cl[x].rooms = clients[x].rooms
                                 /\ cl[x].signals = clients[x].signals
        /\ cl[previous] = clients[previous]
    BY <1>0, <1>1, <1>2, <1>3, <1>9, <2>2 DEF Connected
  <2>5. \A q \in Peer : limits[q] # deviceLimits[q] =>
          deviceLimits[q] = None /\ limits[q] = {}
    BY <1>5
  <2>6. Closing(previous, cl, own, limits)
    <3>1. /\ cl \in [Socket -> Client \cup {None}]
          /\ own \in [Peer -> Socket \cup {None}]
          /\ limits \in [Peer -> (SUBSET Peer) \cup {None}]
          /\ cl[previous].peer = clients[previous].peer
      BY <1>3, <1>4, <1>5, <2>4
    <3> QED BY <2>4, <2>5, <3>1 DEF Closing
  <2>7. Closed(previous, cl, own, limits)
    BY <1>1, <2>2, <2>3, <2>6, HandleCloseRefines
  <2> DEFINE lim == {d \in Peer : limits[d] # None}
  <2>8. /\ Server!CloseClient(previous, own, lim)
        /\ clients'[previous] = None
        /\ \A x \in Socket : x # previous => clients'[x] = cl[x]
    <3>1. Server!CloseClient(previous, own, lim)
      BY <2>7 DEF Closed
    <3>2. clients'[previous] = None /\ \A x \in Socket : x # previous => clients'[x] = cl[x]
      BY <2>7 DEF Closed
    <3> QED BY <3>1, <3>2
  <2> HIDE DEF lim
  <2>9. \A x \in Socket : PeerOf(x)' = IF x = previous THEN None ELSE
                                       IF x = s THEN p ELSE PeerOf(x)
    BY <1>0, <1>1, <1>2, <1>3, <1>9, <2>2, <2>8 DEF PeerOf
  <2>10. peer' = [peer EXCEPT ![s] = p, ![previous] = None]
    BY <1>1, <1>9, <2>2, <2>9
  <2>11. lim = Limited \cup {p}
    BY <1>6 DEF lim
  <2>12. Server!CloseClient(previous, own, Limited \cup {p})
    BY <2>8, <2>11 DEF Server!CloseClient
  <2> QED BY <1>p, <1>9, <2>10, <2>12 DEF Server!Register, own
<1> QED BY <1>8, <1>9

LEMMA StepRefines ==
  ASSUME ConstantsAssumption, IInv, [Next]_vars
  PROVE  [Server!Next]_Server!vars
<1>1. DataInv /\ QueueTypes /\ RunningTrue /\ PendingTrue /\ DataTypes
  BY DEF IInv, DataInv
<1>2. ASSUME NEW s \in Socket, Connect(s)
      PROVE  Server!Next
  BY <1>1, <1>2, ConnectRefines DEF Server!Next
<1>3. ASSUME NEW s \in Connected, Reject({s})
      PROVE  Server!Next
  <2>1. s \in Socket
    BY DEF Connected
  <2> QED BY <1>1, <1>3, <2>1, RejectRefines DEF Server!Next
<1>4. ASSUME NEW s \in Socket, NEW m \in Message, Server!Handle(s, m)
      PROVE  Server!Next
  BY <1>4 DEF Server!Next, Message
<1>5. ASSUME UNCHANGED <<dataVars, deviceVars, countVars>>
      PROVE  UNCHANGED Server!vars
  BY <1>5, StutterRefines
<1>6. ASSUME NEW s \in Socket, Close(s) \/ OneTooMany(s)
      PROVE  Server!Next
  BY <1>3, <1>6 DEF Close, OneTooMany, Connected
<1>7. ASSUME NEW s \in Socket, NEW m \in Message, Admit(s, m)
      PROVE  UNCHANGED Server!vars
  BY <1>5, <1>7 DEF Admit
<1>8. CASE Take
  <2> DEFINE e == Head(queue)
             s == e.socket
             m == e.message
  <2>1. queue # <<>> /\ queue \in Seq(Entry)
    BY <1>1, <1>8 DEF Take, QueueTypes
  <2>2. e \in Entry /\ 1 \in DOMAIN queue /\ e = queue[1]
    BY <2>1
  <2>3. s \in Connected /\ s \in Socket /\ m \in Message
    <3>1. queue[1].socket \in Connected
      BY <1>1, <2>2, PendingParts
    <3> QED BY <2>2, <3>1 DEF Entry
  <2>4. CASE Registers(e) /\ StartRegister(e)
    BY <1>5, <2>4 DEF StartRegister
  <2>5. CASE /\ ~Registers(e) /\ Accepted(s, m) /\ Apply(s, m)
             /\ Settle(Tail(queue), {}, {s}) /\ UNCHANGED running
    <3> HIDE DEF e
    <3> QED BY <1>1, <1>4, <2>3, <2>5, AppliedRefines
  <2>6. CASE Reject({s}) /\ Settle(Tail(queue), {s}, {s}) /\ UNCHANGED running
    <3> HIDE DEF e
    <3> QED BY <1>3, <2>3, <2>6
  <2> QED BY <1>8, <2>4, <2>5, <2>6 DEF Take
<1>9. CASE FinishRegister
  <2> DEFINE s == running.socket
             m == running.message
  <2>1. /\ running \in Entry /\ s \in Socket /\ m \in Message
        /\ m.type = "device_register" /\ PeerOf(s) \in {None, m.peer}
    BY <1>1, <1>9 DEF FinishRegister, QueueTypes, Entry, RunningTrue, Registers
  <2>2. CASE UNCHANGED <<dataVars, deviceVars, countVars>>
    BY <1>5, <2>2
  <2>3. CASE clients[s] # None /\ Reject({s})
    BY <1>3, <2>1, <2>3 DEF Connected
  <2>4. CASE clients[s] # None /\ m.valid /\ Commit(s, m.peer)
    <3>1. ASSUME NEW x \in Connected, NEW n \in Message, n.type = "device_register",
                 clients[x].peer \in {None, n.peer}, n.valid, Commit(x, n.peer)
          PROVE  Server!Next
      <4>1. n.peer \in Peer /\ x \in Socket
        BY <3>1, MessageKinds DEF Connected
      <4>2. Server!Register(x, n.peer)
        BY <1>1, <3>1, <4>1, CommitRefines
      <4>3. [y \in Socket |-> PeerOf(y)][x] = clients[x].peer
        BY <4>1 DEF PeerOf, Connected
      <4>4. Server!Registrable(x, n)
        BY <3>1, <4>3 DEF Server!Registrable
      <4>5. Server!Accepted(x, n) /\ Server!Apply(x, n)
        BY <3>1, <4>2, <4>4 DEF Server!Accepted, Server!Apply
      <4>6. Server!Handle(x, n)
        BY <4>5 DEF Server!Handle
      <4> QED BY <1>4, <4>1, <4>6
    <3>2. s \in Connected /\ clients[s].peer \in {None, m.peer}
      BY <2>1, <2>4 DEF Connected, PeerOf
    <3> QED BY <2>1, <2>4, <3>1, <3>2
  <2> QED BY <1>9, <2>2, <2>3, <2>4 DEF FinishRegister
<1>10. CASE UNCHANGED vars
  BY <1>5, <1>10 DEF vars
<1> QED BY <1>2, <1>6, <1>7, <1>8, <1>9, <1>10 DEF Next

(* The Durable Object implements the service of the Bun server: awaiting   *)
(* the crypto library, queueing meanwhile and dropping what a closed       *)
(* connection had queued shows a client nothing that a service whose       *)
(* handlers are synchronous does not (worker.ts:3-6).                      *)
THEOREM Refinement == Spec => ServerSpec
<1>1. Init => Server!Init
  BY InitRefines
<1>2. IInv /\ [Next]_vars => [Server!Next]_Server!vars
  BY ConstantsAssumption, StepRefines
<1> QED BY <1>1, <1>2, Invariant, PTL DEF Spec, ServerSpec, Server!Spec
=============================================================================
