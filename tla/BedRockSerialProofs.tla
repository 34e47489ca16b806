----------------------- MODULE BedRockSerialProofs ------------------------
(***************************************************************************)
(* At most one transaction of a way group is under way, the pending bits   *)
(* count it exactly, and a block comes to a cache from one source:         *)
(* SerialInv of BedRockInvariant is an invariant of the coherence system,  *)
(* for every number of caches, engines, blocks, sets, ways and credits.    *)
(***************************************************************************)
EXTENDS BedRockInvariant, FiniteSetTheorems

----------------------------------------------------------------------------
(* Queues.                                                                 *)

(* The entries of a queue without its head.                                *)
LEMMA TailFacts ==
  ASSUME NEW S, NEW q \in Seq(S), q # <<>>
  PROVE  /\ Len(q) \in Nat /\ Len(q) >= 1 /\ DOMAIN q = 1 .. Len(q)
         /\ DOMAIN Tail(q) = 1 .. (Len(q) - 1)
         /\ \A i \in 1 .. (Len(q) - 1) : Tail(q)[i] = q[i + 1]
         /\ Head(q) = q[1]
OBVIOUS

(* The entries of a queue with one more.                                   *)
LEMMA AppendFacts ==
  ASSUME NEW S, NEW q \in Seq(S), NEW x
  PROVE  /\ Len(q) \in Nat /\ DOMAIN q = 1 .. Len(q)
         /\ DOMAIN Append(q, x) = 1 .. (Len(q) + 1)
         /\ \A i \in 1 .. Len(q) : Append(q, x)[i] = q[i]
         /\ Append(q, x)[Len(q) + 1] = x
OBVIOUS

(* A set with one element more, and with one less.                         *)
LEMMA PlusOne ==
  ASSUME NEW S, IsFiniteSet(S), NEW x, x \notin S, NEW T, T = S \cup {x}
  PROVE  /\ IsFiniteSet(T) /\ Cardinality(S) \in Nat
         /\ Cardinality(T) = Cardinality(S) + 1
BY FS_AddElement, FS_CardinalityType

(* An element less is one less.                                            *)
LEMMA MinusOne ==
  ASSUME NEW S, IsFiniteSet(S), NEW x, x \in S, NEW T, T = S \ {x}
  PROVE  /\ IsFiniteSet(T) /\ Cardinality(S) \in Nat
         /\ Cardinality(T) = Cardinality(S) - 1
BY FS_RemoveElement, FS_CardinalityType

(* How many entries of a queue are in R, once its head is taken.           *)
Entries(q, R) == {i \in DOMAIN q : q[i] \in R}

(* Dropping the head of a queue takes one off the count of its kind only.  *)
LEMMA TailCount ==
  ASSUME NEW S, NEW q \in Seq(S), q # <<>>, NEW R,
         NEW P, P = Entries(q, R), IsFiniteSet(P),
         NEW T, T = Entries(Tail(q), R)
  PROVE  /\ IsFiniteSet(T)
         /\ Head(q) \in R => Cardinality(T) = Cardinality(P) - 1
         /\ Head(q) \notin R => Cardinality(T) = Cardinality(P)
<1> USE DEF Entries
<1> DEFINE U == P \ {1}
<1>1. Len(q) \in Nat /\ Len(q) >= 1 /\ DOMAIN q = 1 .. Len(q)
      /\ DOMAIN Tail(q) = 1 .. (Len(q) - 1)
      /\ \A i \in 1 .. (Len(q) - 1) : Tail(q)[i] = q[i + 1]
  BY TailFacts
<1>2. 1 \in P <=> Head(q) \in R
  BY <1>1
<1>3. /\ IsFiniteSet(U)
      /\ Head(q) \in R => Cardinality(U) = Cardinality(P) - 1
      /\ Head(q) \notin R => Cardinality(U) = Cardinality(P)
  <2>1. CASE 1 \in P
    BY <1>2, <2>1, MinusOne
  <2>2. CASE 1 \notin P
    <3>1. U = P /\ Cardinality(P) \in Nat
      BY <2>2, FS_CardinalityType
    <3>2. IsFiniteSet(U) /\ Cardinality(U) = Cardinality(P)
      BY <3>1, Zenon
    <3>3. QED
      BY <1>2, <2>2, <3>1, <3>2
  <2>3. QED
    BY <2>1, <2>2
<1>4. ExistsBijection(U, T)
  <2> DEFINE f == [i \in U |-> i - 1]
  <2>1. U \subseteq 2 .. Len(q) /\ T \subseteq 1 .. (Len(q) - 1)
    BY <1>1
  <2>2. \A i \in U : i - 1 \in T
    <3> SUFFICES ASSUME NEW i \in U PROVE i - 1 \in T
      OBVIOUS
    <3>1. i \in 2 .. Len(q) /\ q[i] \in R
      BY <2>1
    <3>2. i - 1 \in 1 .. (Len(q) - 1) /\ (i - 1) + 1 = i
      BY <3>1, <1>1
    <3>3. QED
      BY <3>1, <3>2, <1>1
  <2>3. \A j \in T : j + 1 \in U
    BY <1>1, <2>1
  <2>4. f \in Bijection(U, T)
    <3>1. f \in Injection(U, T)
      BY <2>1, <2>2 DEF Injection, IsInjective
    <3>2. \A j \in T : \E i \in U : f[i] = j
      <4> SUFFICES ASSUME NEW j \in T PROVE \E i \in U : f[i] = j
        OBVIOUS
      <4>1. j + 1 \in U /\ (j + 1) - 1 = j
        BY <2>1, <2>3, <1>1
      <4>2. QED
        BY <4>1
    <3>3. QED
      BY <3>1, <3>2 DEF Bijection, Surjection, Injection
  <2>5. QED
    BY <2>4 DEF ExistsBijection
<1>5. QED
  BY <1>3, <1>4, FS_Bijection

(* And once an entry is added at the end.                                  *)
LEMMA AppendCount ==
  ASSUME NEW S, NEW q \in Seq(S), NEW x, NEW R,
         NEW P, P = Entries(q, R), IsFiniteSet(P),
         NEW T, T = Entries(Append(q, x), R)
  PROVE  /\ IsFiniteSet(T)
         /\ x \in R => Cardinality(T) = Cardinality(P) + 1
         /\ x \notin R => Cardinality(T) = Cardinality(P)
<1> USE DEF Entries
<1>1. /\ Len(q) \in Nat /\ DOMAIN q = 1 .. Len(q)
      /\ DOMAIN Append(q, x) = 1 .. (Len(q) + 1)
      /\ \A i \in 1 .. Len(q) : Append(q, x)[i] = q[i]
      /\ Append(q, x)[Len(q) + 1] = x
  BY AppendFacts
<1>2. T = IF x \in R THEN P \cup {Len(q) + 1} ELSE P
  BY <1>1
<1>3. Len(q) + 1 \notin P
  BY <1>1
<1>4. QED
  <2>1. CASE x \in R
    BY <1>2, <1>3, <2>1, PlusOne
  <2>2. CASE x \notin R
    <3>1. T = P /\ Cardinality(P) \in Nat
      BY <1>2, <2>2, FS_CardinalityType
    <3>2. IsFiniteSet(T) /\ Cardinality(T) = Cardinality(P)
      BY <3>1, Zenon
    <3>3. QED
      BY <2>2, <3>1, <3>2
  <2>3. QED
    BY <2>1, <2>2

----------------------------------------------------------------------------
(* The channels of requests.                                               *)

(* The requests of a channel are requests.                                 *)
LEMMA Channel ==
  ASSUME IInv, NEW l \in LCE, NEW c \in CCE
  PROVE  /\ reqNet[<<l, c>>] \in Seq(Request)
         /\ reqNet[<<l, c>>] \in Seq(RequestsOf(l))
BY DEF IInv, NetTypeOK, SrcWF

(* An engine takes the head of a channel.                                  *)
Taken(l, c) ==
  /\ reqNet[<<l, c>>] # <<>>
  /\ reqNet' = [reqNet EXCEPT ![<<l, c>>] = Tail(reqNet[<<l, c>>])]

(* What is left, and where it was.                                         *)
LEMMA TakenFacts ==
  ASSUME IInv, NEW l \in LCE, NEW c \in CCE, Taken(l, c)
  PROVE  /\ \A k \in LCE, d \in CCE : <<k, d>> # <<l, c>> =>
              reqNet'[<<k, d>>] = reqNet[<<k, d>>]
         /\ 1 \in DOMAIN reqNet[<<l, c>>]
         /\ Head(reqNet[<<l, c>>]) = reqNet[<<l, c>>][1]
         /\ \A i \in DOMAIN reqNet'[<<l, c>>] :
              /\ i + 1 \in DOMAIN reqNet[<<l, c>>] /\ i \in Nat /\ i # 0
              /\ reqNet'[<<l, c>>][i] = reqNet[<<l, c>>][i + 1]
         /\ \A i \in DOMAIN reqNet[<<l, c>>] : i # 1 =>
              /\ i - 1 \in DOMAIN reqNet'[<<l, c>>] /\ i \in Nat
              /\ reqNet'[<<l, c>>][i - 1] = reqNet[<<l, c>>][i]
<1> DEFINE q == reqNet[<<l, c>>]
<1>1. /\ reqNet'[<<l, c>>] = Tail(q)
      /\ \A k \in LCE, d \in CCE : <<k, d>> # <<l, c>> =>
            reqNet'[<<k, d>>] = reqNet[<<k, d>>]
  BY DEF Taken, IInv, NetTypeOK
<1>2. q \in Seq(Request) /\ q # <<>>
  BY Channel DEF Taken
<1>3. /\ Len(q) \in Nat /\ Len(q) >= 1 /\ DOMAIN q = 1 .. Len(q)
      /\ DOMAIN Tail(q) = 1 .. (Len(q) - 1)
      /\ \A i \in 1 .. (Len(q) - 1) : Tail(q)[i] = q[i + 1]
      /\ Head(q) = q[1]
  BY <1>2, TailFacts
<1>4. \A i \in DOMAIN Tail(q) : /\ i + 1 \in DOMAIN q /\ i \in Nat /\ i # 0
                               /\ Tail(q)[i] = q[i + 1]
  BY <1>3
<1>5. \A i \in DOMAIN q : i # 1 => /\ i - 1 \in DOMAIN Tail(q) /\ i \in Nat
                                  /\ Tail(q)[i - 1] = q[i]
  <2> SUFFICES ASSUME NEW i \in DOMAIN q, i # 1
               PROVE  /\ i - 1 \in DOMAIN Tail(q) /\ i \in Nat
                      /\ Tail(q)[i - 1] = q[i]
    OBVIOUS
  <2>1. i - 1 \in 1 .. (Len(q) - 1) /\ (i - 1) + 1 = i /\ i \in Nat
    BY <1>3
  <2>2. QED
    BY <1>3, <2>1
<1>6. 1 \in DOMAIN q
  BY <1>3
<1> HIDE DEF q
<1>7. QED
  BY <1>1, <1>3, <1>4, <1>5, <1>6 DEF q

(* A cache sends a request.                                                *)
Sent(l, c, r) ==
  reqNet' = [reqNet EXCEPT ![<<l, c>>] = Append(reqNet[<<l, c>>], r)]

(* What sending a request does to the channels: one entry more in one of   *)
(* them.                                                                   *)
LEMMA SentFacts ==
  ASSUME IInv, NEW l \in LCE, NEW c \in CCE, NEW r \in Request, Sent(l, c, r)
  PROVE  /\ \A k \in LCE, d \in CCE : <<k, d>> # <<l, c>> =>
              reqNet'[<<k, d>>] = reqNet[<<k, d>>]
         /\ \E n \in Nat :
              /\ n \notin DOMAIN reqNet[<<l, c>>]
              /\ DOMAIN reqNet'[<<l, c>>] = DOMAIN reqNet[<<l, c>>] \cup {n}
              /\ reqNet'[<<l, c>>][n] = r
              /\ \A i \in DOMAIN reqNet[<<l, c>>] :
                   reqNet'[<<l, c>>][i] = reqNet[<<l, c>>][i]
<1> DEFINE q == reqNet[<<l, c>>]  n == Len(q) + 1
<1>1. /\ reqNet'[<<l, c>>] = Append(q, r)
      /\ \A k \in LCE, d \in CCE : <<k, d>> # <<l, c>> =>
            reqNet'[<<k, d>>] = reqNet[<<k, d>>]
  BY DEF Sent, IInv, NetTypeOK
<1>2. q \in Seq(Request)
  BY Channel
<1>3. /\ Len(q) \in Nat /\ DOMAIN q = 1 .. Len(q)
      /\ DOMAIN Append(q, r) = 1 .. (Len(q) + 1)
      /\ \A i \in 1 .. Len(q) : Append(q, r)[i] = q[i]
      /\ Append(q, r)[Len(q) + 1] = r
  BY <1>2, AppendFacts
<1>4. /\ n \in Nat /\ n \notin DOMAIN q
      /\ DOMAIN Append(q, r) = DOMAIN q \cup {n}
  BY <1>3
<1>5. /\ Append(q, r)[n] = r
      /\ \A i \in DOMAIN q : Append(q, r)[i] = q[i]
  BY <1>3
<1> HIDE DEF n
<1>6. QED
  BY <1>1, <1>4, <1>5

(* ReqInv is about the channels and the misses only.                       *)
LEMMA ReqFrame == ASSUME ReqInv, UNCHANGED <<reqNet, miss>> PROVE ReqInv'
<1>1. ReqHome'
  BY DEF ReqInv, ReqHome
<1>2. ReqAsks'
  BY DEF ReqInv, ReqAsks, Asks, Blocking
<1>3. ReqOne'
  BY DEF ReqInv, ReqOne, Blocking
<1>4. QED
  BY <1>1, <1>2, <1>3 DEF ReqInv

(* Where a request that blocks its cache was before a head was taken.      *)
LEMMA TakenBlocking ==
  ASSUME IInv, NEW l \in LCE, NEW c \in CCE, Taken(l, c),
         NEW k \in LCE, NEW d \in CCE, NEW i \in Nat, Blocking(k, d, i)'
  PROVE  LET j == IF k = l /\ d = c THEN i + 1 ELSE i IN
           /\ j \in Nat /\ Blocking(k, d, j)
           /\ reqNet'[<<k, d>>][i] = reqNet[<<k, d>>][j]
<1>1. CASE <<k, d>> # <<l, c>>
  <2>1. reqNet'[<<k, d>>] = reqNet[<<k, d>>]
    <3>1. \A kk \in LCE, dd \in CCE : <<kk, dd>> # <<l, c>> =>
            reqNet'[<<kk, dd>>] = reqNet[<<kk, dd>>]
      BY TakenFacts
    <3>2. QED
      BY <1>1, <3>1
  <2>2. QED
    BY <1>1, <2>1 DEF Blocking
<1>2. CASE k = l /\ d = c
  BY <1>2, TakenFacts DEF Blocking
<1>3. QED
  BY <1>1, <1>2

(* Taking a request leaves the others as they were.                        *)
LEMMA ReqTaken ==
  ASSUME IInv, ReqInv, NEW l \in LCE, NEW c \in CCE, Taken(l, c),
         UNCHANGED miss
  PROVE  ReqInv'
<1>1. ReqHome'
  <2> SUFFICES ASSUME NEW k \in LCE, NEW d \in CCE,
                      NEW i \in DOMAIN reqNet'[<<k, d>>]
               PROVE  Home(reqNet'[<<k, d>>][i].addr) = d
    BY DEF ReqHome, Home
  <2>1. CASE <<k, d>> # <<l, c>>
    <3>1. \A kk \in LCE, dd \in CCE : <<kk, dd>> # <<l, c>> =>
            reqNet'[<<kk, dd>>] = reqNet[<<kk, dd>>]
      BY TakenFacts
    <3>2. reqNet'[<<k, d>>] = reqNet[<<k, d>>]
      BY <2>1, <3>1
    <3>3. QED
      BY <3>2 DEF ReqInv, ReqHome
  <2>2. CASE k = l /\ d = c
    BY <2>2, TakenFacts DEF ReqInv, ReqHome
  <2>3. QED
    BY <2>1, <2>2
<1>2. ReqAsks'
  BY TakenBlocking DEF ReqInv, ReqAsks, Asks
<1>3. ReqOne'
  <2> SUFFICES ASSUME NEW k \in LCE, NEW d \in CCE, NEW i \in Nat, NEW j \in Nat,
                      Blocking(k, d, i)', Blocking(k, d, j)'
               PROVE  i = j
    BY DEF ReqOne
  <2>1. CASE k = l /\ d = c
    <3>1. Blocking(k, d, i + 1) /\ Blocking(k, d, j + 1)
      BY <2>1, TakenBlocking
    <3>2. i + 1 \in Nat /\ j + 1 \in Nat
      OBVIOUS
    <3>3. i + 1 = j + 1
      BY <3>1, <3>2 DEF ReqInv, ReqOne
    <3>4. QED
      BY <3>3
  <2>2. CASE ~(k = l /\ d = c)
    BY <2>2, TakenBlocking DEF ReqInv, ReqOne
  <2>3. QED
    BY <2>1, <2>2
<1>4. QED
  BY <1>1, <1>2, <1>3 DEF ReqInv

(* Without a request under way the cache may wait for what it likes.       *)
LEMMA ReqFree ==
  ASSUME ReqInv, NEW l \in LCE, ~Unsent(l), UNCHANGED reqNet,
         \A k \in LCE : k # l => miss'[k] = miss[k]
  PROVE  ReqInv'
<1>1. ReqHome' /\ ReqOne'
  BY DEF ReqInv, ReqHome, ReqOne, Blocking
<1>2. ReqAsks'
  <2> SUFFICES ASSUME NEW k \in LCE, NEW d \in CCE, NEW i \in Nat,
                      Blocking(k, d, i)
               PROVE  Asks(k, reqNet[<<k, d>>][i])'
    BY DEF ReqAsks, Blocking
  <2>1. k # l
    BY DEF Unsent
  <2>2. QED
    BY <2>1 DEF ReqInv, ReqAsks, Asks
<1>3. QED
  BY <1>1, <1>2 DEF ReqInv

(* A cache that is not waiting has no request under way.                   *)
LEMMA NotSent ==
  ASSUME ReqInv, NEW l \in LCE, miss[l].phase # "sent"
  PROVE  ~Unsent(l)
BY DEF ReqInv, ReqAsks, Unsent, Asks

(* A request that is in its channel now was there or has just been sent.   *)
LEMMA SentBlocking ==
  ASSUME IInv, NEW l \in LCE, NEW c \in CCE, NEW r \in Request, Sent(l, c, r)
  PROVE  \E n \in Nat :
           /\ \A k \in LCE, d \in CCE, i \in Nat : Blocking(k, d, i)' =>
                \/ /\ Blocking(k, d, i)
                   /\ reqNet'[<<k, d>>][i] = reqNet[<<k, d>>][i]
                \/ k = l /\ d = c /\ i = n /\ r.op # "uc_wr"
           /\ \A k \in LCE, d \in CCE, i \in Nat :
                Blocking(k, d, i) => Blocking(k, d, i)'
           /\ reqNet'[<<l, c>>][n] = r /\ n \in DOMAIN reqNet'[<<l, c>>]
           /\ \A k \in LCE, d \in CCE : \A i \in DOMAIN reqNet'[<<k, d>>] :
                \/ /\ i \in DOMAIN reqNet[<<k, d>>]
                   /\ reqNet'[<<k, d>>][i] = reqNet[<<k, d>>][i]
                \/ k = l /\ d = c /\ i = n
<1>1. PICK n \in Nat :
              /\ n \notin DOMAIN reqNet[<<l, c>>]
              /\ DOMAIN reqNet'[<<l, c>>] = DOMAIN reqNet[<<l, c>>] \cup {n}
              /\ reqNet'[<<l, c>>][n] = r
              /\ \A j \in DOMAIN reqNet[<<l, c>>] :
                   reqNet'[<<l, c>>][j] = reqNet[<<l, c>>][j]
  BY SentFacts
<1>2. \A k \in LCE, d \in CCE : <<k, d>> # <<l, c>> =>
              reqNet'[<<k, d>>] = reqNet[<<k, d>>]
  BY SentFacts
<1>3. \A k \in LCE, d \in CCE : \A i \in DOMAIN reqNet'[<<k, d>>] :
                \/ /\ i \in DOMAIN reqNet[<<k, d>>]
                   /\ reqNet'[<<k, d>>][i] = reqNet[<<k, d>>][i]
                \/ k = l /\ d = c /\ i = n
  BY <1>1, <1>2
<1>4. \A k \in LCE, d \in CCE : \A i \in DOMAIN reqNet[<<k, d>>] :
                /\ i \in DOMAIN reqNet'[<<k, d>>]
                /\ reqNet'[<<k, d>>][i] = reqNet[<<k, d>>][i]
  BY <1>1, <1>2
<1>5. \A k \in LCE, d \in CCE, i \in Nat :
                Blocking(k, d, i) => Blocking(k, d, i)'
  BY <1>4 DEF Blocking
<1>6. \A k \in LCE, d \in CCE, i \in Nat : Blocking(k, d, i)' =>
                \/ /\ Blocking(k, d, i)
                   /\ reqNet'[<<k, d>>][i] = reqNet[<<k, d>>][i]
                \/ k = l /\ d = c /\ i = n /\ r.op # "uc_wr"
  BY <1>1, <1>3 DEF Blocking
<1>7. QED
  BY <1>1, <1>3, <1>5, <1>6

(* An uncached store joins its channel.                                    *)
LEMMA ReqStore ==
  ASSUME IInv, ReqInv, NEW l \in LCE, NEW c \in CCE, NEW r \in Request,
         r.op = "uc_wr", c = Home(r.addr), Sent(l, c, r), UNCHANGED miss
  PROVE  ReqInv'
<1>0. PICK n \in Nat :
           /\ \A k \in LCE, d \in CCE, i \in Nat : Blocking(k, d, i)' =>
                \/ /\ Blocking(k, d, i)
                   /\ reqNet'[<<k, d>>][i] = reqNet[<<k, d>>][i]
                \/ k = l /\ d = c /\ i = n /\ r.op # "uc_wr"
           /\ reqNet'[<<l, c>>][n] = r
           /\ \A k \in LCE, d \in CCE : \A i \in DOMAIN reqNet'[<<k, d>>] :
                \/ /\ i \in DOMAIN reqNet[<<k, d>>]
                   /\ reqNet'[<<k, d>>][i] = reqNet[<<k, d>>][i]
                \/ k = l /\ d = c /\ i = n
  BY SentBlocking
<1>1. ReqHome'
  <2> SUFFICES ASSUME NEW k \in LCE, NEW d \in CCE,
                      NEW i \in DOMAIN reqNet'[<<k, d>>]
               PROVE  Home(reqNet'[<<k, d>>][i].addr) = d
    BY DEF ReqHome, Home
  <2>1. QED
    BY <1>0 DEF ReqInv, ReqHome
<1>2. ReqAsks'
  BY <1>0 DEF ReqInv, ReqAsks, Asks
<1>3. ReqOne'
  BY <1>0 DEF ReqInv, ReqOne
<1>4. QED
  BY <1>1, <1>2, <1>3 DEF ReqInv

(* The request of a miss is the only one of its cache.                     *)
LEMMA ReqMiss ==
  ASSUME IInv, ReqInv, NEW l \in LCE, LceSendReq(l)
  PROVE  /\ ReqInv' /\ ~Unsent(l)
         /\ \E c \in CCE, r \in Request :
              /\ Sent(l, c, r) /\ r.op # "uc_wr" /\ c = Home(r.addr)
              /\ r.addr = miss[l].addr
<1> DEFINE m == miss[l]
           r == IF m.op = "uc_rd"
                  THEN [op |-> m.op, src |-> l, addr |-> m.addr,
                        data |-> InitData]
                  ELSE [op |-> IF m.op = "rd" THEN "rd" ELSE "wr", src |-> l,
                        addr |-> m.addr, lru |-> m.lru,
                        nonExcl |-> m.op = "rd" /\ l \in ReadOnlyLCE]
           c == Home(m.addr)
<1>1. \/ m.op = "uc_rd" /\ m.addr \in IoBlock
      \/ /\ m.op \in CoreOps \cup {"rd"}
         /\ m.addr \in Block /\ m.lru \in Way
  BY DEF LceSendReq, IInv, CoreOK, MissWF
<1>2. m.op \in {"rd", "wr", "lr", "uc_rd"}
  BY <1>1, ConstantsAssumption
<1>3. /\ r \in Request /\ r.op \in {"uc_rd", "rd", "wr"} /\ r.addr = m.addr
      /\ r.op = "uc_rd" <=> m.op = "uc_rd"
      /\ r.op # "uc_rd" => /\ r.lru = m.lru
                           /\ r.op = "rd" <=> m.op = "rd"
                           /\ r.nonExcl = TRUE => r.op = "rd"
  <2>1. CASE m.op = "uc_rd"
    <3>1. m.addr \in IoBlock
      BY <1>1, <2>1, ConstantsAssumption
    <3>2. r = [op |-> "uc_rd", src |-> l, addr |-> m.addr, data |-> InitData]
      BY <2>1
    <3>3. r \in Request
      BY <3>1, <3>2, ConstantsAssumption DEF Request, UcOp
    <3>4. QED
      BY <2>1, <3>2, <3>3
  <2>2. CASE m.op # "uc_rd"
    <3>1. m.addr \in Block /\ m.lru \in Way
      BY <1>1, <2>2
    <3>2. r = [op |-> IF m.op = "rd" THEN "rd" ELSE "wr", src |-> l,
               addr |-> m.addr, lru |-> m.lru,
               nonExcl |-> m.op = "rd" /\ l \in ReadOnlyLCE]
      BY <2>2
    <3>3. r \in Request
      BY <3>1, <3>2 DEF Request, CacheOp
    <3>4. QED
      BY <2>2, <3>2, <3>3
  <2>3. QED
    BY <2>1, <2>2
<1>4. c \in CCE
  BY <1>1, ConstantsAssumption DEF Home
<1>5. /\ Sent(l, c, r) /\ m.phase = "send"
      /\ miss' = [miss EXCEPT ![l].phase = "sent"]
  BY DEF LceSendReq, SendReq, Sent
<1>6. ~Unsent(l)
  BY <1>5, NotSent
<1>7. /\ miss'[l].phase = "sent" /\ miss'[l].op = m.op
      /\ miss'[l].addr = m.addr /\ miss'[l].lru = m.lru
      /\ \A k \in LCE : k # l => miss'[k] = miss[k]
  BY <1>5 DEF IInv, CoreOK, CoreTypeOK, Miss
<1>8. c = Home(r.addr)
  BY <1>3
<1>9. r.addr = miss[l].addr
  BY <1>3
<1> HIDE DEF m, r, c
<1>10. ReqInv'
  <2>0. PICK n \in Nat :
             /\ \A k \in LCE, d \in CCE, i \in Nat : Blocking(k, d, i)' =>
                  \/ /\ Blocking(k, d, i)
                     /\ reqNet'[<<k, d>>][i] = reqNet[<<k, d>>][i]
                  \/ k = l /\ d = c /\ i = n /\ r.op # "uc_wr"
             /\ reqNet'[<<l, c>>][n] = r
             /\ \A k \in LCE, d \in CCE : \A i \in DOMAIN reqNet'[<<k, d>>] :
                  \/ /\ i \in DOMAIN reqNet[<<k, d>>]
                     /\ reqNet'[<<k, d>>][i] = reqNet[<<k, d>>][i]
                  \/ k = l /\ d = c /\ i = n
    BY <1>3, <1>4, <1>5, SentBlocking
  <2>1. ReqHome'
    <3> SUFFICES ASSUME NEW k \in LCE, NEW d \in CCE,
                        NEW i \in DOMAIN reqNet'[<<k, d>>]
                 PROVE  Home(reqNet'[<<k, d>>][i].addr) = d
      BY DEF ReqHome, Home
    <3>1. QED
      BY <1>8, <2>0 DEF ReqInv, ReqHome
  <2>2. ReqAsks'
    <3> SUFFICES ASSUME NEW k \in LCE, NEW d \in CCE, NEW i \in Nat,
                        Blocking(k, d, i)'
                 PROVE  Asks(k, reqNet[<<k, d>>][i])'
      BY DEF ReqAsks
    <3>1. CASE k # l
      BY <1>7, <2>0, <3>1 DEF ReqInv, ReqAsks, Asks
    <3>2. CASE k = l
      <4>1. reqNet'[<<k, d>>][i] = r
        BY <1>6, <2>0, <3>2 DEF Unsent
      <4>2. QED
        BY <1>3, <1>7, <3>2, <4>1 DEF Asks, CacheOp
    <3>3. QED
      BY <3>1, <3>2
  <2>3. ReqOne'
    <3> SUFFICES ASSUME NEW k \in LCE, NEW d \in CCE, NEW i \in Nat,
                        NEW j \in Nat, Blocking(k, d, i)', Blocking(k, d, j)'
                 PROVE  i = j
      BY DEF ReqOne
    <3>1. CASE k # l
      BY <2>0, <3>1 DEF ReqInv, ReqOne
    <3>2. CASE k = l
      <4>1. ~Blocking(k, d, i) /\ ~Blocking(k, d, j)
        BY <1>6, <3>2 DEF Unsent
      <4>2. i = n /\ j = n
        BY <2>0, <4>1
      <4>3. QED
        BY <4>2
    <3>3. QED
      BY <3>1, <3>2
  <2>4. QED
    BY <2>1, <2>2, <2>3 DEF ReqInv
<1>11. QED
  BY <1>3, <1>4, <1>5, <1>6, <1>8, <1>9, <1>10

----------------------------------------------------------------------------
(* Places: how the miss of a cache moves from one to another.              *)

(* Where a place of a queue was before its head was taken.                 *)
Before(q, c, k, l, a, x, i) ==
  IF a = q /\ x = c /\ (q = "mem" \/ l = k) THEN i + 1 ELSE i

(* Different places were in different places before.                       *)
LEMMA BeforeOne ==
  ASSUME NEW q, NEW c, NEW k, NEW l, NEW a, NEW x, NEW i \in Nat, NEW j \in Nat
  PROVE  /\ Before(q, c, k, l, a, x, i) \in Nat
         /\ Before(q, c, k, l, a, x, i) = Before(q, c, k, l, a, x, j) => i = j
BY DEF Before

(* Every miss stays where it is, or moves up in its queue.                 *)
Shifts(q, c, k) ==
  \A l \in LCE, i \in Nat : \A a, x, b, u :
    Tok(a, x, i, l, b, u)' => Tok(a, x, Before(q, c, k, l, a, x, i), l, b, u)

(* A step that moves no miss to another place keeps TokInv.                *)
LEMMA TokShift ==
  ASSUME TokInv, UNCHANGED miss, NEW q, NEW c, NEW k, Shifts(q, c, k)
  PROVE  TokInv'
<1> USE DEF Shifts
<1>1. TokWaits'
  <2> SUFFICES ASSUME NEW l \in LCE, NEW i \in Nat, NEW a, NEW x, NEW b, NEW u,
                      Tok(a, x, i, l, b, u)'
               PROVE  Waits(l, b, u)'
    BY DEF TokWaits
  <2>1. Waits(l, b, u)
    BY BeforeOne DEF TokInv, TokWaits
  <2>2. QED
    BY <2>1 DEF Waits
<1>2. TokOne'
  <2> SUFFICES ASSUME NEW l \in LCE, NEW i \in Nat, NEW j \in Nat,
                      NEW a, NEW x, NEW b, NEW u, NEW aa, NEW xx, NEW bb, NEW uu,
                      Tok(a, x, i, l, b, u)', Tok(aa, xx, j, l, bb, uu)'
               PROVE  a = aa /\ x = xx /\ i = j
    BY DEF TokOne
  <2> DEFINE ii == Before(q, c, k, l, a, x, i)  jj == Before(q, c, k, l, aa, xx, j)
  <2>1. ii \in Nat /\ jj \in Nat
    BY BeforeOne
  <2>2. Tok(a, x, ii, l, b, u) /\ Tok(aa, xx, jj, l, bb, uu)
    OBVIOUS
  <2>3. a = aa /\ x = xx /\ ii = jj
    BY <2>1, <2>2 DEF TokInv, TokOne
  <2>4. QED
    BY <2>3, BeforeOne
<1>3. QED
  BY <1>1, <1>2 DEF TokInv

(* One miss, of cache k, moves from one place to another.                  *)
Moves(q, c, k, aa, xx, ii, bb, uu, ya, yx, yi) ==
  \A l \in LCE, i \in Nat : \A a, x, b, u : Tok(a, x, i, l, b, u)' =>
    \/ /\ Tok(a, x, Before(q, c, k, l, a, x, i), l, b, u)
       /\ ~(l = k /\ a = aa /\ x = xx /\ Before(q, c, k, l, a, x, i) = ii)
    \/ l = k /\ a = ya /\ x = yx /\ i = yi /\ b = bb /\ u = uu

(* A step that moves the miss of one cache to one new place keeps TokInv.  *)
LEMMA TokMove ==
  ASSUME TokInv, UNCHANGED miss, NEW q, NEW c, NEW k \in LCE,
         NEW aa, NEW xx, NEW ii \in Nat, NEW bb, NEW uu,
         Tok(aa, xx, ii, k, bb, uu),
         NEW ya, NEW yx, NEW yi \in Nat,
         Moves(q, c, k, aa, xx, ii, bb, uu, ya, yx, yi)
  PROVE  TokInv'
<1> USE DEF Moves
<1>0. \A i \in Nat : \A a, x, b, u : Tok(a, x, i, k, b, u)' =>
         a = ya /\ x = yx /\ i = yi /\ b = bb /\ u = uu
  <2> SUFFICES ASSUME NEW i \in Nat, NEW a, NEW x, NEW b, NEW u,
                      Tok(a, x, i, k, b, u)',
                      ~(a = ya /\ x = yx /\ i = yi /\ b = bb /\ u = uu)
               PROVE  FALSE
    OBVIOUS
  <2> DEFINE j == Before(q, c, k, k, a, x, i)
  <2>1. Tok(a, x, j, k, b, u) /\ ~(a = aa /\ x = xx /\ j = ii)
    OBVIOUS
  <2>2. j \in Nat
    BY BeforeOne
  <2>3. QED
    BY <2>1, <2>2 DEF TokInv, TokOne
<1>1. \A l \in LCE, i \in Nat : \A a, x, b, u : l # k /\ Tok(a, x, i, l, b, u)' =>
         Tok(a, x, Before(q, c, k, l, a, x, i), l, b, u)
  OBVIOUS
<1>2. TokWaits'
  <2> SUFFICES ASSUME NEW l \in LCE, NEW i \in Nat, NEW a, NEW x, NEW b, NEW u,
                      Tok(a, x, i, l, b, u)'
               PROVE  Waits(l, b, u)'
    BY DEF TokWaits
  <2>1. CASE l = k
    <3>1. b = bb /\ u = uu
      BY <1>0, <2>1
    <3>2. Waits(k, bb, uu)
      BY DEF TokInv, TokWaits
    <3>3. QED
      BY <2>1, <3>1, <3>2 DEF Waits
  <2>2. CASE l # k
    <3>1. Waits(l, b, u)
      BY <1>1, <2>2, BeforeOne DEF TokInv, TokWaits
    <3>2. QED
      BY <3>1 DEF Waits
  <2>3. QED
    BY <2>1, <2>2
<1>3. TokOne'
  <2> SUFFICES ASSUME NEW l \in LCE, NEW i \in Nat, NEW j \in Nat,
                      NEW a, NEW x, NEW b, NEW u, NEW ba, NEW bx, NEW b2, NEW u2,
                      Tok(a, x, i, l, b, u)', Tok(ba, bx, j, l, b2, u2)'
               PROVE  a = ba /\ x = bx /\ i = j
    BY DEF TokOne
  <2>0. CASE l = k
    BY <1>0, <2>0
  <2>5. CASE l # k
    <3> DEFINE i0 == Before(q, c, k, l, a, x, i)  j0 == Before(q, c, k, l, ba, bx, j)
    <3>1. i0 \in Nat /\ j0 \in Nat
      BY BeforeOne
    <3>2. Tok(a, x, i0, l, b, u) /\ Tok(ba, bx, j0, l, b2, u2)
      BY <1>1, <2>5
    <3>3. a = ba /\ x = bx /\ i0 = j0
      BY <3>1, <3>2 DEF TokInv, TokOne
    <3>4. QED
      BY <3>3, BeforeOne
  <2>6. QED
    BY <2>0, <2>5
<1>4. QED
  BY <1>2, <1>3 DEF TokInv

(* No miss comes to a place of the kind.                                   *)
ReqQuiet == \A c \in CCE, l \in LCE, i \in Nat : \A b, u : ReqTok(c, i, l, b, u)' => ReqTok(c, i, l, b, u)
FsmQuiet == \A c \in CCE, l \in LCE : \A b, u : FsmTok(c, l, b, u)' => FsmTok(c, l, b, u)
MemQuiet == \A c \in CCE, l \in LCE, i \in Nat : \A b, u : MemTok(c, i, l, b, u)' => MemTok(c, i, l, b, u)
CmdQuiet == \A l \in LCE : \A m, b, u : CmdTok(m, l, b, u)' => CmdTok(m, l, b, u)
LceQuiet == \A k, l \in LCE : \A b, u : LceTok(k, l, b, u)' => LceTok(k, l, b, u)

(* A step that adds no place keeps TokInv.                                 *)
LEMMA TokQuiet ==
  ASSUME TokInv, UNCHANGED miss, ReqQuiet, FsmQuiet, MemQuiet, CmdQuiet, LceQuiet
  PROVE  TokInv'
<1>1. Shifts("none", None, None)
  <2> SUFFICES ASSUME NEW l \in LCE, NEW i \in Nat, NEW a, NEW x, NEW b, NEW u,
                      Tok(a, x, i, l, b, u)'
               PROVE  Tok(a, x, i, l, b, u) /\ a # "none"
    BY DEF Before, Shifts
  <2>1. a \in {"req", "fsm", "mem", "cmd", "lce"}
    BY DEF Tok
  <2>2. Tok(a, x, i, l, b, u)
    BY DEF Tok, ReqQuiet, FsmQuiet, MemQuiet, CmdQuiet, LceQuiet
  <2>3. QED
    BY <2>1, <2>2
<1>2. QED
  BY <1>1, TokShift

(* No place is added in the channels while they are unchanged.             *)
LEMMA ReqPlace == ASSUME UNCHANGED reqNet PROVE ReqQuiet
BY DEF ReqQuiet, ReqTok, Blocking

(* Nor at the engines while their states and requests are unchanged.       *)
LEMMA FsmPlace == ASSUME UNCHANGED <<cceState, mshr>> PROVE FsmQuiet
BY DEF FsmQuiet, FsmTok, AtFsm

(* An engine that is not given a request has none, or keeps it.            *)
LEMMA FsmStay ==
  ASSUME NEW c \in CCE,
         \A d \in CCE : d # c => cceState'[d] = cceState[d] /\ mshr'[d] = mshr[d],
         AtFsm(c)' => /\ AtFsm(c)
                      /\ mshr'[c].lce = mshr[c].lce /\ mshr'[c].addr = mshr[c].addr
  PROVE  FsmQuiet
BY DEF FsmQuiet, FsmTok, AtFsm

(* Nor at the memories while reads and speculation bits are unchanged.     *)
LEMMA MemPlace == ASSUME UNCHANGED <<memResp, specBits>> PROVE MemQuiet
BY DEF MemQuiet, MemTok, Released

(* Nor in the network by a command that brings no block.                   *)
LEMMA CmdPlace ==
  ASSUME \A m \in cmdNet' : m \in cmdNet \/ m.type \notin Sources
  PROVE  CmdQuiet
BY DEF CmdQuiet, CmdTok, Carries, Target

(* Nor in the caches while they hold the same commands.                    *)
LEMMA LcePlace == ASSUME UNCHANGED <<lceCmd, lceState>> PROVE LceQuiet
BY DEF LceQuiet, LceTok, Carries, Target

(* A cache that goes on with its command, or ends it.                      *)
LEMMA LceStay ==
  ASSUME NEW l \in LCE,
         \A k \in LCE : k # l => lceCmd'[k] = lceCmd[k] /\ lceState'[k] = lceState[k],
         \/ lceCmd'[l] = None
         \/ lceCmd'[l] = lceCmd[l] /\ lceCmd[l].type \notin Sources
         \/ lceCmd'[l] = lceCmd[l] /\ lceState[l] \notin Passed
         \/ lceCmd'[l] = lceCmd[l] /\ lceState'[l] \in Passed
  PROVE  LceQuiet
BY DEF LceQuiet, LceTok, Carries, Target

(* The memory has a response more.                                         *)
MemAdded(c, r) == memResp' = [memResp EXCEPT ![c] = Append(memResp[c], r)]

(* What adding a memory response does: one entry more in one queue.        *)
LEMMA MemAddedFacts ==
  ASSUME IInv, NEW c \in CCE, NEW r, MemAdded(c, r)
  PROVE  /\ \A d \in CCE : d # c => memResp'[d] = memResp[d]
         /\ \E n \in Nat :
              /\ n \notin DOMAIN memResp[c]
              /\ DOMAIN memResp'[c] = DOMAIN memResp[c] \cup {n}
              /\ memResp'[c][n] = r
              /\ \A i \in DOMAIN memResp[c] :
                   memResp'[c][i] = memResp[c][i]
<1> DEFINE q == memResp[c]  n == Len(q) + 1
<1>1. /\ memResp'[c] = Append(q, r)
      /\ \A d \in CCE : d # c => memResp'[d] = memResp[d]
  BY DEF MemAdded, IInv, MemTypeOK
<1>2. q \in Seq(MemResponse)
  BY DEF IInv, MemTypeOK
<1>3. /\ Len(q) \in Nat /\ DOMAIN q = 1 .. Len(q)
      /\ DOMAIN Append(q, r) = 1 .. (Len(q) + 1)
      /\ \A i \in 1 .. Len(q) : Append(q, r)[i] = q[i]
      /\ Append(q, r)[Len(q) + 1] = r
  BY <1>2, AppendFacts
<1>4. /\ n \in Nat /\ n \notin DOMAIN q
      /\ DOMAIN Append(q, r) = DOMAIN q \cup {n}
  BY <1>3
<1>5. /\ Append(q, r)[n] = r
      /\ \A i \in DOMAIN q : Append(q, r)[i] = q[i]
  BY <1>3
<1> HIDE DEF n
<1>6. QED
  BY <1>1, <1>4, <1>5

(* Its first response is taken.                                            *)
MemTaken(c) ==
  memResp[c] # <<>> /\ memResp' = [memResp EXCEPT ![c] = Tail(memResp[c])]

(* What taking one does: the others move up by one.                        *)
LEMMA MemTakenFacts ==
  ASSUME IInv, NEW c \in CCE, MemTaken(c)
  PROVE  /\ \A d \in CCE : d # c => memResp'[d] = memResp[d]
         /\ 1 \in DOMAIN memResp[c]
         /\ RespHead(c) = memResp[c][1]
         /\ \A i \in DOMAIN memResp'[c] :
              /\ i + 1 \in DOMAIN memResp[c] /\ i \in Nat /\ i # 0
              /\ memResp'[c][i] = memResp[c][i + 1]
         /\ \A i \in DOMAIN memResp[c] : i # 1 =>
              /\ i - 1 \in DOMAIN memResp'[c] /\ i \in Nat
              /\ memResp'[c][i - 1] = memResp[c][i]
<1> DEFINE q == memResp[c]
<1>1. /\ memResp'[c] = Tail(q)
      /\ \A d \in CCE : d # c => memResp'[d] = memResp[d]
  BY DEF MemTaken, IInv, MemTypeOK
<1>2. q \in Seq(MemResponse) /\ q # <<>>
  BY DEF IInv, MemTypeOK, MemTaken
<1>3. /\ Len(q) \in Nat /\ Len(q) >= 1 /\ DOMAIN q = 1 .. Len(q)
      /\ DOMAIN Tail(q) = 1 .. (Len(q) - 1)
      /\ \A i \in 1 .. (Len(q) - 1) : Tail(q)[i] = q[i + 1]
      /\ Head(q) = q[1]
  BY <1>2, TailFacts
<1>4. \A i \in 1 .. (Len(q) - 1) : i + 1 \in 1 .. Len(q) /\ i \in Nat /\ i # 0
  BY <1>3
<1>5. \A i \in 1 .. Len(q) : i # 1 =>
         i - 1 \in 1 .. (Len(q) - 1) /\ (i - 1) + 1 = i /\ i \in Nat
  BY <1>3
<1>6. RespHead(c) = Head(q)
  BY DEF RespHead
<1>7. \A i \in DOMAIN Tail(q) : /\ i + 1 \in DOMAIN q /\ i \in Nat /\ i # 0
                               /\ Tail(q)[i] = q[i + 1]
  BY <1>3, <1>4
<1>8. \A i \in DOMAIN q : i # 1 => /\ i - 1 \in DOMAIN Tail(q) /\ i \in Nat
                                  /\ Tail(q)[i - 1] = q[i]
  BY <1>3, <1>5
<1>9. 1 \in DOMAIN q
  BY <1>3
<1> HIDE DEF q
<1>10. QED
  BY <1>1, <1>3, <1>6, <1>7, <1>8, <1>9 DEF q

(* A response that is no read, or is held back, brings nobody a block.     *)
LEMMA MemAddPlace ==
  ASSUME IInv, NEW c \in CCE, NEW r, MemAdded(c, r),
         \/ r.type \in {"wr", "uc_wr"}
         \/ r.type = "rd" /\ ~Released(SetOf[r.addr])',
         \A s \in Set : specBits'[s] = specBits[s] \/ ~Released(s)'
  PROVE  MemQuiet
<1>1. PICK n \in Nat :
              /\ n \notin DOMAIN memResp[c]
              /\ DOMAIN memResp'[c] = DOMAIN memResp[c] \cup {n}
              /\ memResp'[c][n] = r
              /\ \A i \in DOMAIN memResp[c] :
                   memResp'[c][i] = memResp[c][i]
  BY MemAddedFacts
<1>2. \A d \in CCE : d # c => memResp'[d] = memResp[d]
  BY MemAddedFacts
<1> SUFFICES ASSUME NEW d \in CCE, NEW l \in LCE, NEW i \in Nat, NEW b, NEW u,
                    MemTok(d, i, l, b, u)'
             PROVE  MemTok(d, i, l, b, u)
  BY DEF MemQuiet
<1>3. i \in DOMAIN memResp[d] /\ memResp'[d][i] = memResp[d][i]
  BY <1>1, <1>2 DEF MemTok
<1>4. memResp[d][i] \in MemResponse
  BY <1>3 DEF IInv, MemTypeOK
<1>5. memResp[d][i].type = "rd" => SetOf[memResp[d][i].addr] \in Set
  BY <1>4, MemResponseFields, ConstantsAssumption
<1>6. memResp[d][i].type = "rd" => Released(SetOf[memResp[d][i].addr])
  BY <1>3, <1>5 DEF MemTok, Released
<1>7. QED
  BY <1>3, <1>6 DEF MemTok

(* Taking a request moves up those behind it.                              *)
LEMMA ReqShift ==
  ASSUME IInv, NEW k \in LCE, NEW c \in CCE, Taken(k, c)
  PROVE  \A x \in CCE, l \in LCE, i \in Nat : \A b, u : ReqTok(x, i, l, b, u)' =>
           /\ ReqTok(x, Before("req", c, k, l, "req", x, i), l, b, u)
           /\ ~(l = k /\ x = c /\ Before("req", c, k, l, "req", x, i) = 1)
<1> SUFFICES ASSUME NEW x \in CCE, NEW l \in LCE, NEW i \in Nat, NEW b, NEW u,
                    ReqTok(x, i, l, b, u)'
             PROVE  /\ ReqTok(x, Before("req", c, k, l, "req", x, i), l, b, u)
                    /\ ~(l = k /\ x = c /\ Before("req", c, k, l, "req", x, i) = 1)
  OBVIOUS
<1> DEFINE j == IF l = k /\ x = c THEN i + 1 ELSE i
<1>1. Blocking(l, x, i)'
  BY DEF ReqTok
<1>2. /\ j \in Nat /\ Blocking(l, x, j)
      /\ reqNet'[<<l, x>>][i] = reqNet[<<l, x>>][j]
  BY <1>1, TakenBlocking
<1>3. j = Before("req", c, k, l, "req", x, i)
  BY DEF Before
<1>4. ReqTok(x, j, l, b, u)
  BY <1>2 DEF ReqTok
<1>5. l = k /\ x = c => j # 1
  <2>1. l = k /\ x = c => i # 0
    BY <1>1, TakenFacts DEF Blocking
  <2>2. QED
    BY <2>1
<1> HIDE DEF j
<1>6. QED
  BY <1>3, <1>4, <1>5

(* The engine takes the request off its channel.                           *)
LEMMA TokDeqReq ==
  ASSUME IInv, SerialInv, NEW c \in CCE, CceDeqReq(c)
  PROVE  TokInv'
<1> DEFINE k == mshr[c].lce  r == Head(reqNet[<<k, c>>])
<1>1. /\ cceState[c] = "deq_lce_req" /\ k \in LCE /\ Taken(k, c)
      /\ cceState'[c] = "read_mem_spec"
      /\ \A d \in CCE : d # c => cceState'[d] = cceState[d]
      /\ UNCHANGED <<mshr, memResp, specBits, cmdNet, lceCmd, lceState, miss>>
  BY DEF CceDeqReq, Goto, DequeueReq, Taken, IInv, ReqWF, Taking, CceOK, CceTypeOK,
    memVars, lceVars, coreVars
<1>2. r.op \in CacheOp /\ mshr[c].addr = r.addr
  BY <1>1 DEF SerialInv, MshrInv, MshrTaking, Loaded
<1>3. 1 \in DOMAIN reqNet[<<k, c>>] /\ r = reqNet[<<k, c>>][1]
  BY <1>1, TakenFacts
<1>4. Tok("req", c, 1, k, mshr[c].addr, "cached")
  BY <1>1, <1>2, <1>3 DEF Tok, ReqTok, Blocking, CacheOp, Kind
<1>5. MemQuiet /\ CmdQuiet /\ LceQuiet
  BY <1>1, MemPlace, CmdPlace, LcePlace
<1>6. \A x \in CCE, l \in LCE : \A b, u : FsmTok(x, l, b, u)' =>
        \/ FsmTok(x, l, b, u)
        \/ l = k /\ x = c /\ b = mshr[c].addr /\ u = "cached"
  BY <1>1 DEF FsmTok, AtFsm
<1>7. Moves("req", c, k, "req", c, 1, mshr[c].addr, "cached", "fsm", c, 0)
  <2> SUFFICES ASSUME NEW l \in LCE, NEW i \in Nat, NEW a, NEW x, NEW b, NEW u,
                      Tok(a, x, i, l, b, u)'
               PROVE  \/ /\ Tok(a, x, Before("req", c, k, l, a, x, i), l, b, u)
                         /\ ~(l = k /\ a = "req" /\ x = c
                                /\ Before("req", c, k, l, a, x, i) = 1)
                      \/ /\ l = k /\ a = "fsm" /\ x = c /\ i = 0
                         /\ b = mshr[c].addr /\ u = "cached"
    BY DEF Moves
  <2>1. CASE a = "req"
    <3>1. x \in CCE /\ ReqTok(x, i, l, b, u)'
      BY <2>1 DEF Tok
    <3>2. QED
      BY <1>1, <2>1, <3>1, ReqShift, BeforeOne DEF Tok
  <2>2. CASE a # "req"
    <3>1. Before("req", c, k, l, a, x, i) = i
      BY <2>2 DEF Before
    <3>2. QED
      BY <1>5, <1>6, <2>2, <3>1 DEF Tok, MemQuiet, CmdQuiet, LceQuiet
  <2>3. QED
    BY <2>1, <2>2
<1> HIDE DEF k
<1>8. QED
  BY <1>1, <1>4, <1>7, TokMove DEF SerialInv

(* What the directory read puts in the MSHR, and what it leaves.           *)
LEMMA ReadDirMshr ==
  ASSUME IInv, NEW c \in CCE, CceReadDir(c)
  PROVE  LET l == mshr[c].lce  b == mshr[c].addr  n == mshr'[c] IN
         /\ \A d \in CCE : d # c => mshr'[d] = mshr[d]
         /\ n.lce = l /\ n.addr = b /\ n.lru = mshr[c].lru
         /\ n.write = mshr[c].write /\ n.nonExcl = mshr[c].nonExcl
         /\ n.way = HitWay(dir, l, b)
         /\ n.lruBlk = dir[l][FrameOf(b, mshr[c].lru)].blk
         /\ n.rf = Replace(dir, l, b, mshr[c].write, mshr[c].lru)
         /\ n.uf = Upgrade(dir, l, b, mshr[c].write)
         /\ n.csf = CachedShared(dir, l, b) /\ n.xf = CachedOwned(dir, l, b)
         /\ n.owner = Owner(dir, b)
         /\ n.ownerWay = IF Owner(dir, b) = None THEN None
                         ELSE HitWay(dir, Owner(dir, b), b)
         /\ n.next = NextState(dir, l, b, mshr[c].write, mshr[c].nonExcl)
<1> DEFINE m == mshr[c]  l == m.lce  b == m.addr  o == Owner(dir, b)
           ow == IF o = None THEN None ELSE HitWay(dir, o, b)
           way == HitWay(dir, l, b)  blk == dir[l][FrameOf(b, m.lru)].blk
           rf == Replace(dir, l, b, m.write, m.lru)
           uf == Upgrade(dir, l, b, m.write)
           csf == CachedShared(dir, l, b)  xf == CachedOwned(dir, l, b)
           st == NextState(dir, l, b, m.write, m.nonExcl)
           n == MshrRead(m, way, blk, rf, uf, csf, xf, o, ow, st)
<1>1. mshr' = [mshr EXCEPT ![c] = n]
  BY Zenon DEF CceReadDir, MshrRead
<1>2. mshr \in [CCE -> Mshr] /\ m \in Mshr
  BY DEF IInv, CceOK, CceTypeOK
<1>3. /\ mshr'[c] = n
      /\ \A d \in CCE : d # c => mshr'[d] = mshr[d]
  <2> HIDE DEF n
  <2>1. QED
    BY <1>1, <1>2
<1>4. PICK rf1 \in BOOLEAN, uf1 \in BOOLEAN, csf1 \in BOOLEAN, xf1 \in BOOLEAN :
        rf1 = rf /\ uf1 = uf /\ csf1 = csf /\ xf1 = xf
  BY DEF Replace, Upgrade, CachedShared, CachedOwned
<1>5. n = MshrRead(m, way, blk, rf1, uf1, csf1, xf1, o, ow, st)
  BY <1>4
<1> HIDE DEF n, m, way, blk, rf, uf, csf, xf, o, ow, st
<1>6. /\ n.lce = m.lce /\ n.addr = m.addr /\ n.lru = m.lru
      /\ n.write = m.write /\ n.nonExcl = m.nonExcl
      /\ n.way = way /\ n.lruBlk = blk
      /\ n.owner = o /\ n.ownerWay = ow /\ n.next = st
  BY <1>2, <1>5 DEF MshrRead, Mshr
<1>7. n.rf = rf1 /\ n.uf = uf1 /\ n.csf = csf1 /\ n.xf = xf1
  BY <1>2, <1>5 DEF MshrRead, Mshr
<1>8. QED
  BY <1>3, <1>4, <1>6, <1>7 DEF m, l, b, way, blk, rf, uf, csf, xf, o, ow, st

(* The states of the engine that pass no request on.                       *)
LEMMA FsmKeeps ==
  ASSUME IInv, SerialInv, NEW c \in CCE,
         \/ CceReset(c) \/ CceClearDir(c) \/ CceLeaveUncached(c) \/ CceSyncAck(c)
         \/ CceReadPending(c) \/ CceReadMemSpec(c) \/ CceReadDir(c)
         \/ CceWriteNextState(c) \/ CceReplacement(c) \/ CceReplacementWbResp(c)
         \/ CceInvCmd(c) \/ CceInvAck(c) \/ CceTransferWbResp(c)
         \/ \E l \in LCE : CceReady(c, l) \/ CceSendSync(c, l)
  PROVE  FsmQuiet
<1>1. CASE \/ CceReset(c) \/ CceClearDir(c) \/ CceLeaveUncached(c) \/ CceSyncAck(c)
           \/ CceReadPending(c) \/ \E l \in LCE : CceReady(c, l) \/ CceSendSync(c, l)
  <2>1. /\ \A d \in CCE : d # c => cceState'[d] = cceState[d] /\ mshr'[d] = mshr[d]
        /\ cceState'[c] \in {"clear_dir", "send_sync", "uncached_only", "error", "ready",
                             "deq_lce_req", "read_pending", "uc_req", "sync_ack"}
    BY <1>1 DEF CceReset, CceClearDir, CceLeaveUncached, CceSyncAck, CceReadPending,
      CceReady, CceSendSync, Goto, IInv, CceOK, CceTypeOK
  <2>2. ~AtFsm(c)'
    BY <2>1 DEF AtFsm, Unsourced, Working, Cached
  <2>3. QED
    BY <2>1, <2>2, FsmStay
<1>2. CASE \/ CceReadMemSpec(c) \/ CceReadDir(c) \/ CceReplacement(c)
           \/ CceInvCmd(c) \/ CceInvAck(c)
  <2>0. CceReadDir(c) =>
        /\ \A d \in CCE : d # c => cceState'[d] = cceState[d] /\ mshr'[d] = mshr[d]
        /\ mshr'[c].lce = mshr[c].lce /\ mshr'[c].addr = mshr[c].addr
        /\ cceState[c] = "read_dir"
    BY ReadDirMshr DEF CceReadDir, Goto, IInv, CceOK, CceTypeOK
  <2>1. /\ \A d \in CCE : d # c => cceState'[d] = cceState[d] /\ mshr'[d] = mshr[d]
        /\ mshr'[c].lce = mshr[c].lce /\ mshr'[c].addr = mshr[c].addr
        /\ cceState[c] \in {"read_mem_spec", "read_dir", "replacement", "inv_cmd", "inv_ack"}
    BY <1>2, <2>0 DEF CceReadMemSpec, CceReplacement, CceInvCmd, CceInvAck, Goto,
      IInv, CceOK, CceTypeOK
  <2>2. AtFsm(c)
    BY <2>1 DEF AtFsm, Unsourced, Working, Cached
  <2>3. QED
    BY <2>1, <2>2, FsmStay
<1>3. CASE CceWriteNextState(c) \/ CceReplacementWbResp(c)
  <2>1. /\ \A d \in CCE : d # c => cceState'[d] = cceState[d] /\ mshr'[d] = mshr[d]
        /\ mshr'[c].lce = mshr[c].lce /\ mshr'[c].addr = mshr[c].addr
        /\ cceState[c] \in {"write_next_state", "replacement_wb_resp"}
    BY <1>3 DEF CceWriteNextState, CceReplacementWbResp, StartInvOrFill, Goto,
      IInv, CceOK, CceTypeOK, Mshr
  <2>2. AtFsm(c)
    BY <2>1 DEF AtFsm, Unsourced, Working, Cached
  <2>3. QED
    BY <2>1, <2>2, FsmStay
<1>4. CASE CceTransferWbResp(c)
  <2>1. /\ \A d \in CCE : d # c => cceState'[d] = cceState[d] /\ mshr'[d] = mshr[d]
        /\ mshr'[c] = mshr[c] /\ cceState'[c] = "resolve_speculation" /\ mshr[c].xf
    BY <1>4 DEF CceTransferWbResp, Goto, IInv, CceOK, CceTypeOK, SerialInv, MshrInv,
      MshrFlagsOK
  <2>2. ~AtFsm(c)'
    BY <2>1 DEF AtFsm, Unsourced, Working, Cached
  <2>3. QED
    BY <2>1, <2>2, FsmStay
<1>5. QED
  BY <1>1, <1>2, <1>3, <1>4

(* The read the engine starts.                                             *)
LEMMA ReadAdded ==
  ASSUME NEW c \in CCE, CceReadMemSpec(c)
  PROVE  \E r : /\ MemAdded(c, r) /\ r.type = "rd" /\ SetOf[r.addr] = ReqSet(c)
                /\ r.addr = mshr[c].addr /\ r.lce = mshr[c].lce
                /\ r.way = mshr[c].lru /\ r.data = mem[r.addr]
<1> DEFINE r == [type |-> "rd", addr |-> mshr[c].addr, lce |-> mshr[c].lce,
                 way |-> mshr[c].lru, data |-> mem[mshr[c].addr]]
<1>1. MemAdded(c, r)
  BY DEF CceReadMemSpec, MemCommand, MemAdded
<1>2. /\ r.type = "rd" /\ SetOf[r.addr] = ReqSet(c)
      /\ r.addr = mshr[c].addr /\ r.lce = mshr[c].lce
      /\ r.way = mshr[c].lru /\ r.data = mem[r.addr]
  BY DEF ReqSet
<1> HIDE DEF r
<1>3. QED
  BY <1>1, <1>2

(* A write-back is not sent to anybody.                                    *)
LEMMA WbQuiet ==
  ASSUME IInv, NEW c \in CCE, NEW m \in respNet, WritebackResp(c, m), UNCHANGED specBits
  PROVE  MemQuiet
<1>1. CASE UNCHANGED memVars
  BY <1>1, MemPlace DEF memVars
<1>2. CASE MemCommand(c, [type |-> "wr", addr |-> m.addr])
  <2>1. MemAdded(c, [type |-> "wr", addr |-> m.addr])
    BY <1>2 DEF MemCommand, MemAdded, IInv, MemTypeOK
  <2>2. QED
    BY <2>1, MemAddPlace
<1>3. QED
  BY <1>1, <1>2 DEF WritebackResp

(* The steps of an engine that give no right away keep TokInv.             *)
LEMMA TokFsmQuiet ==
  ASSUME IInv, SerialInv, NEW c \in CCE,
         \/ CceReset(c) \/ CceClearDir(c) \/ CceLeaveUncached(c) \/ CceSyncAck(c)
         \/ CceReadPending(c) \/ CceReadMemSpec(c) \/ CceReadDir(c)
         \/ CceWriteNextState(c) \/ CceReplacement(c) \/ CceReplacementWbResp(c)
         \/ CceInvCmd(c) \/ CceInvAck(c) \/ CceTransferWbResp(c)
         \/ \E l \in LCE : CceReady(c, l) \/ CceSendSync(c, l)
  PROVE  TokInv'
<1>1. FsmQuiet
  BY FsmKeeps
<1>2. UNCHANGED <<reqNet, lceCmd, lceState, miss>>
  BY DEF CceReset, CceClearDir, CceLeaveUncached, CceSyncAck, CceReadPending, CceReadMemSpec,
    CceReadDir, CceWriteNextState, CceReplacement, CceReplacementWbResp, CceInvCmd, CceInvAck,
    CceTransferWbResp, CceReady, CceSendSync, netVars, lceVars, coreVars
<1>3. ReqQuiet /\ LceQuiet
  BY <1>2, ReqPlace, LcePlace
<1>4. CmdQuiet
  <2>1. CASE CceReplacement(c)
    BY <2>1, CmdPlace DEF CceReplacement, SendCmd, Sources
  <2>2. CASE CceInvCmd(c)
    BY <2>2, CmdPlace DEF CceInvCmd, SendCmd, Sources
  <2>3. CASE \E l \in LCE : CceSendSync(c, l)
    BY <2>3, CmdPlace DEF CceSendSync, SendCmd, Sources
  <2>4. CASE UNCHANGED cmdNet
    BY <2>4, CmdPlace
  <2>5. QED
    BY <2>1, <2>2, <2>3, <2>4 DEF CceReset, CceClearDir, CceLeaveUncached, CceSyncAck,
      CceReadPending, CceReadMemSpec, CceReadDir, CceWriteNextState, CceReplacementWbResp,
      CceInvAck, CceTransferWbResp, CceReady, netVars
<1>5. MemQuiet
  <2>1. CASE CceReadMemSpec(c)
    <3>1. PICK s \in Set : s = ReqSet(c)
      BY <2>1, ConstantsAssumption DEF CceReadMemSpec, ReqSet, IInv, CceOK, MshrWF, Cached
    <3>2. PICK r : /\ MemAdded(c, r) /\ r.type = "rd" /\ SetOf[r.addr] = s
      BY <2>1, <3>1, ReadAdded
    <3>3. specBits' = [specBits EXCEPT ![s] = [NoSpec EXCEPT !.spec = TRUE]]
      BY <2>1, <3>1 DEF CceReadMemSpec
    <3>4. ~Released(s)'
      BY <3>3 DEF Released, NoSpec, IInv, DirTypeOK
    <3>5. \A z \in Set : specBits'[z] = specBits[z] \/ ~Released(z)'
      BY <3>3, <3>4 DEF IInv, DirTypeOK
    <3>6. QED
      BY <3>2, <3>4, <3>5, MemAddPlace
  <2>2. CASE CceReplacementWbResp(c) \/ CceTransferWbResp(c)
    BY <2>2, WbQuiet DEF CceReplacementWbResp, CceTransferWbResp
  <2>3. CASE UNCHANGED <<memResp, specBits>>
    BY <2>3, MemPlace
  <2>4. QED
    BY <2>1, <2>2, <2>3 DEF CceReset, CceClearDir, CceLeaveUncached, CceSyncAck,
      CceReadPending, CceReadDir, CceWriteNextState, CceReplacement, CceInvCmd,
      CceInvAck, CceReady, CceSendSync, memVars, dirVars
<1>6. QED
  BY <1>1, <1>2, <1>3, <1>4, <1>5, TokQuiet DEF SerialInv

(* A response more: where a miss can have come to.                         *)
LEMMA MemAddTok ==
  ASSUME IInv, NEW c \in CCE, NEW r, MemAdded(c, r), UNCHANGED specBits
  PROVE  \E n \in Nat : \A x \in CCE, l \in LCE, i \in Nat : \A b, u :
           MemTok(x, i, l, b, u)' =>
             \/ MemTok(x, i, l, b, u)
             \/ x = c /\ i = n /\ l = r.lce /\ b = r.addr /\ u = Kind(r.type = "uc_rd")
<1>1. PICK n \in Nat :
              /\ n \notin DOMAIN memResp[c]
              /\ DOMAIN memResp'[c] = DOMAIN memResp[c] \cup {n}
              /\ memResp'[c][n] = r
              /\ \A i \in DOMAIN memResp[c] :
                   memResp'[c][i] = memResp[c][i]
  BY MemAddedFacts
<1>2. \A d \in CCE : d # c => memResp'[d] = memResp[d]
  BY MemAddedFacts
<1>3. \A x \in CCE, i \in Nat : i \in DOMAIN memResp'[x] =>
        \/ i \in DOMAIN memResp[x] /\ memResp'[x][i] = memResp[x][i]
        \/ x = c /\ i = n
  BY <1>1, <1>2
<1>4. QED
  BY <1>1, <1>3 DEF MemTok, Released

(* A response less: those behind move up.                                  *)
LEMMA MemShift ==
  ASSUME IInv, NEW c \in CCE, MemTaken(c), UNCHANGED specBits, NEW k
  PROVE  \A x \in CCE, l \in LCE, i \in Nat : \A b, u : MemTok(x, i, l, b, u)' =>
           /\ MemTok(x, Before("mem", c, k, l, "mem", x, i), l, b, u)
           /\ ~(x = c /\ Before("mem", c, k, l, "mem", x, i) = 1)
<1> SUFFICES ASSUME NEW x \in CCE, NEW l \in LCE, NEW i \in Nat, NEW b, NEW u,
                    MemTok(x, i, l, b, u)'
             PROVE  /\ MemTok(x, Before("mem", c, k, l, "mem", x, i), l, b, u)
                    /\ ~(x = c /\ Before("mem", c, k, l, "mem", x, i) = 1)
  OBVIOUS
<1>1. CASE x = c
  <2>1. /\ i + 1 \in DOMAIN memResp[c] /\ i # 0
        /\ memResp'[c][i] = memResp[c][i + 1]
    BY <1>1, MemTakenFacts DEF MemTok
  <2>2. MemTok(x, i + 1, l, b, u)
    BY <1>1, <2>1 DEF MemTok, Released
  <2>3. Before("mem", c, k, l, "mem", x, i) = i + 1 /\ i + 1 # 1
    BY <1>1, <2>1 DEF Before
  <2>4. QED
    BY <2>2, <2>3
<1>2. CASE x # c
  <2>1. memResp'[x] = memResp[x]
    BY <1>2, MemTakenFacts
  <2>2. MemTok(x, i, l, b, u)
    BY <2>1 DEF MemTok, Released
  <2>3. Before("mem", c, k, l, "mem", x, i) = i
    BY <1>2 DEF Before
  <2>4. QED
    BY <1>2, <2>2, <2>3
<1>3. QED
  BY <1>1, <1>2

(* A command more.                                                         *)
LEMMA CmdAddTok ==
  ASSUME NEW m, cmdNet' = cmdNet \cup {m}
  PROVE  \A x : \A l \in LCE : \A b, u : CmdTok(x, l, b, u)' =>
           CmdTok(x, l, b, u) \/ (x = m /\ Carries(m, l, b, u))
BY DEF CmdTok, Carries, Target

(* An uncached access of cache k goes to memory.                           *)
LEMMA TokUncached ==
  ASSUME IInv, SerialInv, NEW c \in CCE, NEW k \in LCE, Taken(k, c),
         NEW r, r = Head(reqNet[<<k, c>>]), r.op \in UcOp, r.src = k, UncachedAccess(c, r),
         FsmQuiet, UNCHANGED <<specBits, cmdNet, lceCmd, lceState, miss>>
  PROVE  TokInv'
<1>0. CmdQuiet /\ LceQuiet /\ TokInv /\ 0 \in Nat /\ 1 \in Nat
  BY CmdPlace, LcePlace DEF SerialInv
<1>1. CASE r.op = "uc_wr"
  <2>1. PICK p : MemAdded(c, p) /\ p.type = "uc_wr"
    <3>1. MemAdded(c, [type |-> "uc_wr", addr |-> r.addr, lce |-> r.src])
      BY <1>1 DEF UncachedAccess, MemCommand, MemAdded
    <3>2. QED
      BY <3>1
  <2>2. MemQuiet
    BY <2>1, MemAddPlace
  <2>3. Shifts("req", c, k)
    <3> SUFFICES ASSUME NEW l \in LCE, NEW i \in Nat, NEW a, NEW x, NEW b, NEW u,
                        Tok(a, x, i, l, b, u)'
                 PROVE  Tok(a, x, Before("req", c, k, l, a, x, i), l, b, u)
      BY DEF Shifts
    <3>1. CASE a = "req"
      <4>1. x \in CCE /\ ReqTok(x, i, l, b, u)'
        BY <3>1 DEF Tok
      <4>2. QED
        BY <3>1, <4>1, ReqShift, BeforeOne DEF Tok
    <3>2. CASE a # "req"
      <4>1. Before("req", c, k, l, a, x, i) = i
        BY <3>2 DEF Before
      <4>2. QED
        BY <1>0, <2>2, <3>2, <4>1 DEF Tok, MemQuiet, CmdQuiet, LceQuiet, FsmQuiet
    <3>3. QED
      BY <3>1, <3>2
  <2>4. QED
    BY <1>0, <2>3, TokShift
<1>2. CASE r.op = "uc_rd"
  <2>1. PICK p : MemAdded(c, p) /\ p.type = "uc_rd" /\ p.lce = k /\ p.addr = r.addr
    <3>1. MemAdded(c, [type |-> "uc_rd", addr |-> r.addr, lce |-> r.src,
                         data |-> mem[r.addr]])
      BY <1>2 DEF UncachedAccess, MemCommand, MemAdded
    <3>2. QED
      BY <3>1
  <2>2. PICK n \in Nat : \A x \in CCE, l \in LCE, i \in Nat : \A b, u :
           MemTok(x, i, l, b, u)' =>
             \/ MemTok(x, i, l, b, u)
             \/ x = c /\ i = n /\ l = p.lce /\ b = p.addr /\ u = Kind(p.type = "uc_rd")
    BY <2>1, MemAddTok
  <2>3. 1 \in DOMAIN reqNet[<<k, c>>] /\ r = reqNet[<<k, c>>][1]
    BY TakenFacts
  <2>4. Tok("req", c, 1, k, r.addr, "uncached")
    BY <1>2, <2>3 DEF Tok, ReqTok, Blocking, Kind
  <2>5. Moves("req", c, k, "req", c, 1, r.addr, "uncached", "mem", c, n)
    <3> SUFFICES ASSUME NEW l \in LCE, NEW i \in Nat, NEW a, NEW x, NEW b, NEW u,
                        Tok(a, x, i, l, b, u)'
                 PROVE  \/ /\ Tok(a, x, Before("req", c, k, l, a, x, i), l, b, u)
                           /\ ~(l = k /\ a = "req" /\ x = c
                                  /\ Before("req", c, k, l, a, x, i) = 1)
                        \/ /\ l = k /\ a = "mem" /\ x = c /\ i = n
                           /\ b = r.addr /\ u = "uncached"
      BY DEF Moves
    <3>1. CASE a = "req"
      <4>1. x \in CCE /\ ReqTok(x, i, l, b, u)'
        BY <3>1 DEF Tok
      <4>2. QED
        BY <3>1, <4>1, ReqShift, BeforeOne DEF Tok
    <3>2. CASE a # "req"
      <4>1. Before("req", c, k, l, a, x, i) = i
        BY <3>2 DEF Before
      <4>2. CASE a = "mem"
        <5>1. Kind(p.type = "uc_rd") = "uncached"
          BY <2>1 DEF Kind
        <5>2. x \in CCE /\ MemTok(x, i, l, b, u)'
          BY <4>2 DEF Tok
        <5>3. CASE MemTok(x, i, l, b, u)
          BY <3>2, <4>1, <4>2, <5>2, <5>3 DEF Tok
        <5>4. CASE ~MemTok(x, i, l, b, u)
          <6>1. x = c /\ i = n /\ l = p.lce /\ b = p.addr /\ u = Kind(p.type = "uc_rd")
            BY <2>2, <5>2, <5>4
          <6>2. QED
            BY <2>1, <4>2, <5>1, <6>1
        <5>5. QED
          BY <5>3, <5>4
      <4>3. QED
        BY <1>0, <3>2, <4>1, <4>2 DEF Tok, CmdQuiet, LceQuiet, FsmQuiet
    <3>3. QED
      BY <3>1, <3>2
  <2>6. QED
    BY <1>0, <2>4, <2>5, TokMove
<1>3. QED
  BY <1>1, <1>2 DEF UcOp

(* Memory gives the block away.                                            *)
LEMMA TokMemSent ==
  ASSUME IInv, SerialInv, NEW c \in CCE, MemTaken(c), NEW k \in LCE, NEW b0, NEW u0, NEW m,
         MemTok(c, 1, k, b0, u0), cmdNet' = cmdNet \cup {m},
         \A l \in LCE : \A b, u : Carries(m, l, b, u) => l = k /\ b = b0 /\ u = u0,
         UNCHANGED <<cceState, mshr, specBits, reqNet, lceCmd, lceState, miss>>
  PROVE  TokInv'
<1>0. FsmQuiet /\ LceQuiet /\ ReqQuiet /\ TokInv /\ 0 \in Nat /\ 1 \in Nat
  BY FsmPlace, LcePlace, ReqPlace DEF SerialInv
<1>1. Tok("mem", c, 1, k, b0, u0)
  BY DEF Tok
<1>2. Moves("mem", c, k, "mem", c, 1, b0, u0, "cmd", m, 0)
  <2> SUFFICES ASSUME NEW l \in LCE, NEW i \in Nat, NEW a, NEW x, NEW b, NEW u,
                      Tok(a, x, i, l, b, u)'
               PROVE  \/ /\ Tok(a, x, Before("mem", c, k, l, a, x, i), l, b, u)
                         /\ ~(l = k /\ a = "mem" /\ x = c
                                /\ Before("mem", c, k, l, a, x, i) = 1)
                      \/ /\ l = k /\ a = "cmd" /\ x = m /\ i = 0 /\ b = b0 /\ u = u0
    BY DEF Moves
  <2>1. CASE a = "mem"
    <3>1. x \in CCE /\ MemTok(x, i, l, b, u)'
      BY <2>1 DEF Tok
    <3>2. QED
      BY <2>1, <3>1, MemShift, BeforeOne DEF Tok
  <2>2. CASE a # "mem"
    <3>1. Before("mem", c, k, l, a, x, i) = i
      BY <2>2 DEF Before
    <3>2. CASE a = "cmd"
      BY <3>1, <3>2, CmdAddTok DEF Tok
    <3>3. QED
      BY <1>0, <2>2, <3>1, <3>2 DEF Tok, ReqQuiet, LceQuiet, FsmQuiet
  <2>3. QED
    BY <2>1, <2>2
<1>3. QED
  BY <1>0, <1>1, <1>2, TokMove

(* Memory drops a response, or sends one that nobody waits for.            *)
LEMMA TokMemTaken ==
  ASSUME IInv, SerialInv, NEW c \in CCE, MemTaken(c), CmdQuiet,
         UNCHANGED <<cceState, mshr, specBits, reqNet, lceCmd, lceState, miss>>
  PROVE  TokInv'
<1>0. FsmQuiet /\ LceQuiet /\ ReqQuiet /\ TokInv
  BY FsmPlace, LcePlace, ReqPlace DEF SerialInv
<1>1. Shifts("mem", c, None)
  <2> SUFFICES ASSUME NEW l \in LCE, NEW i \in Nat, NEW a, NEW x, NEW b, NEW u,
                      Tok(a, x, i, l, b, u)'
               PROVE  Tok(a, x, Before("mem", c, None, l, a, x, i), l, b, u)
    BY DEF Shifts
  <2>1. CASE a = "mem"
    <3>1. x \in CCE /\ MemTok(x, i, l, b, u)'
      BY <2>1 DEF Tok
    <3>2. QED
      BY <2>1, <3>1, MemShift, BeforeOne DEF Tok
  <2>2. CASE a # "mem"
    <3>1. Before("mem", c, None, l, a, x, i) = i
      BY <2>2 DEF Before
    <3>2. QED
      BY <1>0, <2>2, <3>1 DEF Tok, ReqQuiet, LceQuiet, FsmQuiet, CmdQuiet
  <2>3. QED
    BY <2>1, <2>2
<1>2. QED
  BY <1>0, <1>1, TokShift

(* The right to send the block leaves the engine.                          *)
LEMMA TokCmdSent ==
  ASSUME IInv, SerialInv, NEW c \in CCE, NEW m, cmdNet' = cmdNet \cup {m},
         AtFsm(c), ~AtFsm(c)',
         \A d \in CCE : d # c => cceState'[d] = cceState[d],
         mshr[c].lce \in LCE,
         m.type \in Sources \ {"uc_data"}, Target(m) = mshr[c].lce, m.addr = mshr[c].addr,
         UNCHANGED <<mshr, memResp, specBits, reqNet, lceCmd, lceState, miss>>
  PROVE  TokInv'
<1> DEFINE k == mshr[c].lce  b0 == mshr[c].addr
<1>0. MemQuiet /\ LceQuiet /\ ReqQuiet /\ TokInv /\ 0 \in Nat
  BY MemPlace, LcePlace, ReqPlace DEF SerialInv
<1>1. Tok("fsm", c, 0, k, b0, "cached")
  BY DEF Tok, FsmTok
<1>2. \A x \in CCE, l \in LCE : \A b, u : FsmTok(x, l, b, u)' => FsmTok(x, l, b, u) /\ x # c
  BY DEF FsmTok, AtFsm
<1>3. \A l \in LCE : \A b, u : Carries(m, l, b, u) => l = k /\ b = b0 /\ u = "cached"
  BY DEF Carries, Kind
<1>4. Moves("none", None, k, "fsm", c, 0, b0, "cached", "cmd", m, 0)
  <2> SUFFICES ASSUME NEW l \in LCE, NEW i \in Nat, NEW a, NEW x, NEW b, NEW u,
                      Tok(a, x, i, l, b, u)'
               PROVE  \/ /\ Tok(a, x, Before("none", None, k, l, a, x, i), l, b, u)
                         /\ ~(l = k /\ a = "fsm" /\ x = c
                                /\ Before("none", None, k, l, a, x, i) = 0)
                      \/ /\ l = k /\ a = "cmd" /\ x = m /\ i = 0 /\ b = b0 /\ u = "cached"
    BY DEF Moves
  <2>1. a \in {"req", "fsm", "mem", "cmd", "lce"}
    BY DEF Tok
  <2>2. Before("none", None, k, l, a, x, i) = i
    BY <2>1 DEF Before
  <2>3. CASE a = "cmd"
    <3>1. i = 0 /\ CmdTok(x, l, b, u)'
      BY <2>3 DEF Tok
    <3>2. CmdTok(x, l, b, u) \/ (x = m /\ l = k /\ b = b0 /\ u = "cached")
      BY <1>3, <3>1, CmdAddTok
    <3>3. QED
      BY <2>2, <2>3, <3>1, <3>2 DEF Tok
  <2>4. CASE a = "fsm"
    BY <1>2, <2>2, <2>4 DEF Tok
  <2>5. QED
    BY <1>0, <2>1, <2>2, <2>3, <2>4 DEF Tok, ReqQuiet, LceQuiet, MemQuiet
<1> HIDE DEF k, b0
<1>5. k \in LCE
  BY DEF k
<1>6. QED
  BY <1>0, <1>1, <1>4, <1>5, TokMove

(* The right to send the block passes into the wake-up command.            *)
LEMMA TokUpgrade ==
  ASSUME IInv, SerialInv, NEW c \in CCE, CceUpgrade(c) PROVE TokInv'
<1>1. PICK m : /\ cmdNet' = cmdNet \cup {m} /\ m.type \in Sources \ {"uc_data"}
               /\ Target(m) = mshr[c].lce /\ m.addr = mshr[c].addr
  <2> DEFINE m == [type |-> "st_wakeup", src |-> c, dst |-> mshr[c].lce,
              addr |-> mshr[c].addr, way |-> mshr[c].way, st |-> mshr[c].next]
  <2>1. cmdNet' = cmdNet \cup {m}
    BY DEF CceUpgrade, SendCmd
  <2>2. m.type = "st_wakeup" /\ m.dst = mshr[c].lce /\ m.addr = mshr[c].addr
    OBVIOUS
  <2> HIDE DEF m
  <2>3. m.type \in Sources \ {"uc_data"} /\ Target(m) = mshr[c].lce
    BY <2>2 DEF Sources, Target
  <2>4. QED
    BY <2>1, <2>2, <2>3
<1>2. /\ cceState[c] = "upgrade_stw_cmd" /\ cceState'[c] = "resolve_speculation"
      /\ \A d \in CCE : d # c => cceState'[d] = cceState[d]
      /\ UNCHANGED <<mshr, memResp, specBits, reqNet, lceCmd, lceState, miss>>
      /\ mshr[c].uf /\ mshr[c].lce \in LCE
  BY DEF CceUpgrade, Goto, IInv, CceOK, CceTypeOK, MshrWF, Cached, memVars, dirVars,
    lceVars, coreVars
<1>3. AtFsm(c) /\ ~AtFsm(c)'
  BY <1>2 DEF AtFsm, Unsourced, Working, Cached
<1>4. QED
  BY <1>1, <1>2, <1>3, TokCmdSent

(* It passes into the transfer command.                                    *)
LEMMA TokTransfer ==
  ASSUME IInv, SerialInv, NEW c \in CCE, CceTransfer(c) PROVE TokInv'
<1>1. PICK m : /\ cmdNet' = cmdNet \cup {m} /\ m.type \in Sources \ {"uc_data"}
               /\ Target(m) = mshr[c].lce /\ m.addr = mshr[c].addr
  <2>1. PICK m : /\ cmdNet' = cmdNet \cup {m} /\ m.type \in {"st_tr", "st_tr_wb"}
                 /\ m.target = mshr[c].lce /\ m.addr = mshr[c].addr
    BY DEF CceTransfer, SendCmd
  <2>2. m.type \in Sources \ {"uc_data"} /\ Target(m) = mshr[c].lce
    BY <2>1 DEF Sources, Target
  <2>3. QED
    BY <2>1, <2>2
<1>2. /\ cceState[c] = "transfer"
      /\ cceState'[c] \in {"resolve_speculation", "transfer_wb_resp"}
      /\ \A d \in CCE : d # c => cceState'[d] = cceState[d]
      /\ UNCHANGED <<mshr, memResp, specBits, reqNet, lceCmd, lceState, miss>>
      /\ mshr[c].xf /\ mshr[c].lce \in LCE
  BY DEF CceTransfer, Goto, IInv, CceOK, CceTypeOK, MshrWF, Cached, memVars, dirVars,
    lceVars, coreVars
<1>3. AtFsm(c) /\ ~AtFsm(c)'
  BY <1>2 DEF AtFsm, Unsourced, Working, Cached
<1>4. QED
  BY <1>1, <1>2, <1>3, TokCmdSent

(* What the engine makes of the speculation bits.                          *)
LEMMA ResolvedBits ==
  ASSUME NEW m \in Mshr, NEW bits \in SpecBits
  PROVE  /\ Resolved(m, bits).spec = FALSE
         /\ m.xf \/ m.uf => Resolved(m, bits).squash = TRUE
         /\ ~(m.xf \/ m.uf) => Resolved(m, bits).squash = bits.squash
<1>0. /\ m.xf \in BOOLEAN /\ m.uf \in BOOLEAN /\ m.write \in BOOLEAN
      /\ m.csf \in BOOLEAN /\ m.nonExcl \in BOOLEAN
  BY DEF Mshr
<1>1. CASE m.xf \/ m.uf
  <2>1. Resolved(m, bits) = [bits EXCEPT !.spec = FALSE, !.squash = TRUE]
    BY <1>0, <1>1 DEF Resolved
  <2>2. QED
    BY <1>1, <2>1 DEF SpecBits
<1>2. CASE ~(m.xf \/ m.uf) /\ m.write
  <2>1. Resolved(m, bits) = [bits EXCEPT !.spec = FALSE, !.fwdMod = TRUE, !.st = "M"]
    BY <1>0, <1>2 DEF Resolved
  <2>2. QED
    BY <1>2, <2>1 DEF SpecBits
<1>3. CASE ~(m.xf \/ m.uf) /\ ~m.write /\ (m.csf \/ m.nonExcl)
  <2>1. Resolved(m, bits) = [bits EXCEPT !.spec = FALSE, !.fwdMod = TRUE, !.st = "S"]
    BY <1>0, <1>3 DEF Resolved
  <2>2. QED
    BY <1>3, <2>1 DEF SpecBits
<1>4. CASE ~(m.xf \/ m.uf) /\ ~m.write /\ ~(m.csf \/ m.nonExcl)
  <2>1. Resolved(m, bits) = [bits EXCEPT !.spec = FALSE]
    BY <1>0, <1>4 DEF Resolved
  <2>2. QED
    BY <1>4, <2>1 DEF SpecBits
<1>5. QED
  BY <1>1, <1>2, <1>3, <1>4

(* The engine releases the speculative read: it was for the request it     *)
(* worked for, or is squashed.                                             *)
LEMMA TokResolve ==
  ASSUME IInv, SerialInv, NEW c \in CCE, CceResolve(c) PROVE TokInv'
<1> DEFINE m == mshr[c]
<1>0. PICK s \in Set : s = ReqSet(c)
  BY ConstantsAssumption DEF CceResolve, ReqSet, IInv, CceOK, MshrWF, Cached
<1>1. /\ cceState[c] = "resolve_speculation" /\ cceState'[c] = "ready"
      /\ \A d \in CCE : d # c => cceState'[d] = cceState[d] /\ mshr'[d] = mshr[d]
      /\ UNCHANGED <<memResp, reqNet, cmdNet, lceCmd, lceState, miss>>
      /\ m.lce \in LCE /\ m.addr \in Block /\ s \in Set /\ m \in Mshr
      /\ specBits' = [specBits EXCEPT ![s] = Resolved(m, specBits[s])]
      /\ HomeOf[s] = c
  BY <1>0, ConstantsAssumption
  DEF CceResolve, Goto, IInv, CceOK, CceTypeOK, MshrWF, Cached, memVars, dirVars,
    lceVars, coreVars, netVars, ReqSet, SerialInv, MshrInv, MshrHome, Home
<1>2. /\ specBits'[s] = Resolved(m, specBits[s])
      /\ \A z \in Set : z # s => specBits'[z] = specBits[z]
      /\ specBits[s] \in SpecBits
  BY <1>1 DEF IInv, DirTypeOK
<1>3. Serving(s)
  BY <1>0, <1>1 DEF Serving, Working, Cached
<1>4. specBits[s].spec = TRUE
  BY <1>1, <1>3 DEF SerialInv, SpecInv, ReadHeld
<1>5. m.xf \/ m.uf => specBits'[s].squash
  BY <1>1, <1>2, ResolvedBits
<1>6. ReqQuiet /\ CmdQuiet /\ LceQuiet /\ TokInv /\ 0 \in Nat
  BY <1>1, ReqPlace, CmdPlace, LcePlace DEF SerialInv
<1>7. ~AtFsm(c)'
  BY <1>1 DEF AtFsm, Unsourced, Working, Cached
<1>8. \A x \in CCE, l \in LCE : \A b, u : FsmTok(x, l, b, u)' => FsmTok(x, l, b, u) /\ x # c
  BY <1>1, <1>7 DEF FsmTok, AtFsm
<1>9. \A x \in CCE, i \in Nat, l \in LCE : \A b, u : MemTok(x, i, l, b, u)' =>
        \/ MemTok(x, i, l, b, u)
        \/ /\ x = c /\ ReadOf(s, i) /\ l = m.lce /\ b = m.addr /\ u = "cached"
           /\ ~m.xf /\ ~m.uf
  <2> SUFFICES ASSUME NEW x \in CCE, NEW i \in Nat, NEW l \in LCE, NEW b, NEW u,
                      MemTok(x, i, l, b, u)', ~MemTok(x, i, l, b, u)
               PROVE  /\ x = c /\ ReadOf(s, i) /\ l = m.lce /\ b = m.addr /\ u = "cached"
                      /\ ~m.xf /\ ~m.uf
    OBVIOUS
  <2>0. PICK r, z : r = memResp[x][i] /\ z = SetOf[memResp[x][i].addr]
    OBVIOUS
  <2>1. /\ i \in DOMAIN memResp[x] /\ r.type = "rd" /\ r \in MemResponse
        /\ specBits'[z] # specBits[z] /\ l = r.lce /\ b = r.addr /\ u = "cached"
        /\ Released(z)'
    BY <1>1, <2>0 DEF MemTok, Released, IInv, MemTypeOK, Kind
  <2>2. r.addr \in Block /\ z \in Set
    BY <2>0, <2>1, MemResponseFields, ConstantsAssumption
  <2>3. z = s
    BY <1>2, <2>1, <2>2
  <2>4. x = HomeOf[z]
    BY <2>0, <2>1 DEF SerialInv, HomeInv, Home
  <2>5. x = c /\ ReadOf(s, i)
    BY <1>1, <2>0, <2>1, <2>3, <2>4 DEF ReadOf
  <2>6. memResp[HomeOf[s]][i].addr = mshr[HomeOf[s]].addr
        /\ memResp[HomeOf[s]][i].lce = mshr[HomeOf[s]].lce
    <3>1. ReadFor
      BY DEF SerialInv, SpecInv
    <3>2. QED
      BY <1>3, <2>5, <3>1 DEF ReadFor
  <2>7. ~m.xf /\ ~m.uf
    <3>1. Released(s)'
      BY <2>1, <2>3 DEF Released
    <3>2. QED
      BY <1>5, <3>1 DEF Released
  <2>8. QED
    BY <1>1, <2>0, <2>1, <2>5, <2>6, <2>7
<1>10. CASE \E i \in Nat : ReadOf(s, i) /\ ~m.xf /\ ~m.uf
  <2>1. PICK n \in Nat : ReadOf(s, n)
    BY <1>10
  <2>2. \A i \in Nat : ReadOf(s, i) => i = n
    BY <1>1, <2>1 DEF SerialInv, SpecInv, ReadOne
  <2>3. AtFsm(c)
    BY <1>1, <1>10 DEF AtFsm
  <2>4. Tok("fsm", c, 0, m.lce, m.addr, "cached")
    BY <2>3 DEF Tok, FsmTok
  <2>5. Moves("none", None, m.lce, "fsm", c, 0, m.addr, "cached", "mem", c, n)
    <3> SUFFICES ASSUME NEW l \in LCE, NEW i \in Nat, NEW a, NEW x, NEW b, NEW u,
                        Tok(a, x, i, l, b, u)'
                 PROVE  \/ /\ Tok(a, x, Before("none", None, m.lce, l, a, x, i), l, b, u)
                           /\ ~(l = m.lce /\ a = "fsm" /\ x = c
                                  /\ Before("none", None, m.lce, l, a, x, i) = 0)
                        \/ /\ l = m.lce /\ a = "mem" /\ x = c /\ i = n
                           /\ b = m.addr /\ u = "cached"
      BY DEF Moves
    <3>1. a \in {"req", "fsm", "mem", "cmd", "lce"}
      BY DEF Tok
    <3>2. Before("none", None, m.lce, l, a, x, i) = i
      BY <3>1 DEF Before
    <3>3. CASE a = "mem"
      <4>1. x \in CCE /\ MemTok(x, i, l, b, u)'
        BY <3>3 DEF Tok
      <4>2. \/ MemTok(x, i, l, b, u)
            \/ x = c /\ i = n /\ l = m.lce /\ b = m.addr /\ u = "cached"
        BY <1>9, <2>2, <4>1
      <4>3. QED
        BY <3>2, <3>3, <4>1, <4>2 DEF Tok
    <3>4. CASE a = "fsm"
      <4>1. x \in CCE /\ i = 0 /\ FsmTok(x, l, b, u)'
        BY <3>4 DEF Tok
      <4>2. FsmTok(x, l, b, u) /\ x # c
        BY <1>8, <4>1
      <4>3. QED
        BY <3>2, <3>4, <4>1, <4>2 DEF Tok
    <3>5. QED
      BY <1>6, <3>1, <3>2, <3>3, <3>4 DEF Tok, ReqQuiet, LceQuiet, CmdQuiet
  <2> HIDE DEF m
  <2>6. m.lce \in LCE
    BY <1>1
  <2>7. QED
    BY <1>1, <1>6, <2>4, <2>5, <2>6, TokMove
<1>11. CASE ~(\E i \in Nat : ReadOf(s, i) /\ ~m.xf /\ ~m.uf)
  <2>1. MemQuiet
    BY <1>9, <1>11 DEF MemQuiet
  <2>2. FsmQuiet
    BY <1>8 DEF FsmQuiet
  <2>3. QED
    BY <1>1, <1>6, <2>1, <2>2, TokQuiet
<1>12. QED
  BY <1>10, <1>11

----------------------------------------------------------------------------
(* Places: the steps of the engines.                                       *)

(* A cache that does not wait may do as it likes.                          *)
LEMMA TokIdle ==
  ASSUME TokInv, ReqQuiet, FsmQuiet, MemQuiet, CmdQuiet, LceQuiet, NEW k \in LCE,
         miss[k].phase # "sent", \A l \in LCE : l # k => miss'[l] = miss[l]
  PROVE  TokInv'
<1>1. \A l \in LCE, i \in Nat : \A a, x, b, u : Tok(a, x, i, l, b, u)' => Tok(a, x, i, l, b, u)
  <2> SUFFICES ASSUME NEW l \in LCE, NEW i \in Nat, NEW a, NEW x, NEW b, NEW u,
                      Tok(a, x, i, l, b, u)'
               PROVE  Tok(a, x, i, l, b, u)
    OBVIOUS
  <2>1. QED
    BY DEF Tok, ReqQuiet, FsmQuiet, MemQuiet, CmdQuiet, LceQuiet
<1>2. TokWaits'
  <2> SUFFICES ASSUME NEW l \in LCE, NEW i \in Nat, NEW a, NEW x, NEW b, NEW u,
                      Tok(a, x, i, l, b, u)'
               PROVE  Waits(l, b, u)'
    BY DEF TokWaits
  <2>1. Waits(l, b, u)
    BY <1>1 DEF TokInv, TokWaits
  <2>2. QED
    BY <2>1 DEF Waits
<1>3. TokOne'
  BY <1>1 DEF TokInv, TokOne
<1>4. QED
  BY <1>2, <1>3 DEF TokInv

(* A miss ends at its cache: it was nowhere else.                          *)
LEMMA TokEnd ==
  ASSUME TokInv, ReqQuiet, FsmQuiet, MemQuiet, CmdQuiet, LceQuiet, NEW k \in LCE,
         lceCmd[k] # None, lceState[k] \notin Passed,
         lceCmd[k].type \in {"data", "st_wakeup", "uc_data"}, lceCmd[k].dst = k,
         lceCmd'[k] = None, \A l \in LCE : l # k => miss'[l] = miss[l]
  PROVE  TokInv' /\ ~Unsent(k)
         /\ Waits(k, lceCmd[k].addr, Kind(lceCmd[k].type = "uc_data"))
<1> DEFINE b0 == lceCmd[k].addr  u0 == Kind(lceCmd[k].type = "uc_data")
<1>1. \A l \in LCE, i \in Nat : \A a, x, b, u : Tok(a, x, i, l, b, u)' => Tok(a, x, i, l, b, u)
  <2> SUFFICES ASSUME NEW l \in LCE, NEW i \in Nat, NEW a, NEW x, NEW b, NEW u,
                      Tok(a, x, i, l, b, u)'
               PROVE  Tok(a, x, i, l, b, u)
    OBVIOUS
  <2>1. QED
    BY DEF Tok, ReqQuiet, FsmQuiet, MemQuiet, CmdQuiet, LceQuiet
<1>2. Tok("lce", k, 0, k, b0, u0)
  BY DEF Tok, LceTok, Carries, Sources, Target
<1>3. \A b, u : ~Tok("lce", k, 0, k, b, u)'
  BY DEF Tok, LceTok
<1> HIDE DEF b0, u0
<1>4. \A i \in Nat : \A a, x, b, u : Tok(a, x, i, k, b, u) => a = "lce" /\ x = k /\ i = 0
  BY <1>2 DEF TokInv, TokOne
<1>5. \A i \in Nat : \A a, x, b, u : ~Tok(a, x, i, k, b, u)'
  BY <1>1, <1>3, <1>4
<1>6. TokWaits'
  <2> SUFFICES ASSUME NEW l \in LCE, NEW i \in Nat, NEW a, NEW x, NEW b, NEW u,
                      Tok(a, x, i, l, b, u)'
               PROVE  Waits(l, b, u)'
    BY DEF TokWaits
  <2>1. Waits(l, b, u) /\ l # k
    BY <1>1, <1>5 DEF TokInv, TokWaits
  <2>2. QED
    BY <2>1 DEF Waits
<1>7. TokOne'
  BY <1>1 DEF TokInv, TokOne
<1>8. ~Unsent(k)
  <2> SUFFICES ASSUME NEW c \in CCE, NEW i \in Nat, Blocking(k, c, i) PROVE FALSE
    BY DEF Unsent
  <2>1. Tok("req", c, i, k, reqNet[<<k, c>>][i].addr,
            Kind(reqNet[<<k, c>>][i].op = "uc_rd"))
    BY DEF Tok, ReqTok
  <2>2. QED
    BY <1>4, <2>1
<1>9. Waits(k, b0, u0)
  BY <1>2 DEF TokInv, TokWaits
<1>10. QED
  BY <1>6, <1>7, <1>8, <1>9 DEF TokInv, b0, u0

(* A miss begins in a channel.                                             *)
LEMMA TokSendReq ==
  ASSUME IInv, SerialInv, NEW l \in LCE, LceSendReq(l)
  PROVE  TokInv'
<1>1. PICK c \in CCE, r \in Request :
              /\ Sent(l, c, r) /\ r.op # "uc_wr" /\ c = Home(r.addr)
              /\ r.addr = miss[l].addr
  BY ReqMiss DEF SerialInv
<1>2. ReqInv' /\ ~Unsent(l)
  BY ReqMiss DEF SerialInv
<1>3. /\ UNCHANGED <<cceState, mshr, memResp, specBits, cmdNet, lceCmd, lceState>>
      /\ miss[l].phase = "send"
      /\ \A k \in LCE : k # l => miss'[k] = miss[k]
  BY DEF LceSendReq, cceVars, memVars, dirVars, lceVars, IInv, CoreOK, CoreTypeOK
<1>4. FsmQuiet /\ MemQuiet /\ CmdQuiet /\ LceQuiet /\ TokInv
  BY <1>3, FsmPlace, MemPlace, CmdPlace, LcePlace DEF SerialInv
<1>5. PICK n \in Nat :
           /\ \A k \in LCE, d \in CCE, i \in Nat : Blocking(k, d, i)' =>
                \/ /\ Blocking(k, d, i)
                   /\ reqNet'[<<k, d>>][i] = reqNet[<<k, d>>][i]
                \/ k = l /\ d = c /\ i = n /\ r.op # "uc_wr"
           /\ \A k \in LCE, d \in CCE, i \in Nat :
                Blocking(k, d, i) => Blocking(k, d, i)'
           /\ reqNet'[<<l, c>>][n] = r /\ n \in DOMAIN reqNet'[<<l, c>>]
           /\ \A k \in LCE, d \in CCE : \A i \in DOMAIN reqNet'[<<k, d>>] :
                \/ /\ i \in DOMAIN reqNet[<<k, d>>]
                   /\ reqNet'[<<k, d>>][i] = reqNet[<<k, d>>][i]
                \/ k = l /\ d = c /\ i = n
  BY <1>1, SentBlocking
<1>6. \A i \in Nat : \A a, x, b, u : ~Tok(a, x, i, l, b, u)
  <2> SUFFICES ASSUME NEW i \in Nat, NEW a, NEW x, NEW b, NEW u, Tok(a, x, i, l, b, u)
               PROVE  FALSE
    OBVIOUS
  <2>1. Waits(l, b, u)
    BY <1>4 DEF TokInv, TokWaits
  <2>2. QED
    BY <1>3, <2>1 DEF Waits
<1>7. \A k \in LCE, i \in Nat : \A a, x, b, u : Tok(a, x, i, k, b, u)' =>
        \/ k # l /\ Tok(a, x, i, k, b, u)
        \/ k = l /\ a = "req" /\ x = c /\ i = n
  <2> SUFFICES ASSUME NEW k \in LCE, NEW i \in Nat, NEW a, NEW x, NEW b, NEW u,
                      Tok(a, x, i, k, b, u)'
               PROVE  \/ k # l /\ Tok(a, x, i, k, b, u)
                      \/ k = l /\ a = "req" /\ x = c /\ i = n
    OBVIOUS
  <2>1. CASE a = "req"
    <3>1. x \in CCE /\ ReqTok(x, i, k, b, u)'
      BY <2>1 DEF Tok
    <3>2. CASE Blocking(k, x, i) /\ reqNet'[<<k, x>>][i] = reqNet[<<k, x>>][i]
      <4>1. Tok(a, x, i, k, b, u)
        BY <2>1, <3>1, <3>2 DEF Tok, ReqTok
      <4>2. QED
        BY <1>6, <4>1
    <3>3. QED
      BY <1>5, <2>1, <3>1, <3>2 DEF ReqTok
  <2>2. CASE a # "req"
    <3>1. Tok(a, x, i, k, b, u)
      BY <1>4, <2>2 DEF Tok, FsmQuiet, MemQuiet, CmdQuiet, LceQuiet
    <3>2. QED
      BY <1>6, <3>1
  <2>3. QED
    BY <2>1, <2>2
<1>8. TokOne'
  BY <1>7, <1>4 DEF TokInv, TokOne
<1>9. TokWaits'
  <2> SUFFICES ASSUME NEW k \in LCE, NEW i \in Nat, NEW a, NEW x, NEW b, NEW u,
                      Tok(a, x, i, k, b, u)'
               PROVE  Waits(k, b, u)'
    BY DEF TokWaits
  <2>1. CASE k # l
    <3>1. Waits(k, b, u)
      BY <1>7, <1>4, <2>1 DEF TokInv, TokWaits
    <3>2. QED
      BY <1>3, <2>1, <3>1 DEF Waits
  <2>2. CASE k = l
    <3>1. a = "req" /\ x = c /\ i = n
      BY <1>7, <2>2
    <3>2. ReqTok(c, n, l, b, u)'
      BY <2>2, <3>1 DEF Tok
    <3>3. Asks(l, reqNet[<<l, c>>][n])'
      BY <1>2, <3>2 DEF ReqInv, ReqAsks, ReqTok
    <3>4. QED
      BY <2>2, <3>2, <3>3 DEF ReqTok, Asks, Waits, Kind
  <2>3. QED
    BY <2>1, <2>2
<1>10. QED
  BY <1>8, <1>9 DEF TokInv

----------------------------------------------------------------------------
(* Places: the steps of the caches.                                        *)

(* A command reaches its cache.                                            *)
LEMMA TokHead ==
  ASSUME IInv, SerialInv, NEW l \in LCE, LceHead(l)
  PROVE  TokInv'
<1>1. PICK m \in cmdNet : /\ m.dst = l /\ m \in Command
                          /\ lceCmd' = [lceCmd EXCEPT ![l] = m] /\ cmdNet' = cmdNet \ {m}
  BY DEF LceHead, IInv, NetTypeOK
<1>2. /\ lceState[l] = "ready" /\ lceCmd[l] = None
      /\ lceCmd'[l] = m /\ \A k \in LCE : k # l => lceCmd'[k] = lceCmd[k]
      /\ UNCHANGED <<reqNet, cceState, mshr, memResp, specBits, lceState, miss>>
  BY <1>1 DEF LceHead, IInv, LceOK, LceTypeOK, cceVars, memVars, dirVars, coreVars
<1>3. ReqQuiet /\ FsmQuiet /\ MemQuiet /\ TokInv /\ 0 \in Nat
  BY <1>2, ReqPlace, FsmPlace, MemPlace DEF SerialInv
<1>4. CmdQuiet
  BY <1>1, CmdPlace
<1>5. CASE m.type \notin Sources
  <2>1. \A k \in LCE : \A b, u : ~LceTok(l, k, b, u)'
    BY <1>2, <1>5 DEF LceTok, Carries
  <2>2. LceQuiet
    BY <1>2, <2>1 DEF LceQuiet, LceTok, Carries, Target
  <2>3. QED
    BY <1>2, <1>3, <1>4, <2>2, TokQuiet
<1>6. CASE m.type \in Sources
  <2>0. PICK k, b0, u0 : k \in LCE /\ k = Target(m) /\ b0 = m.addr /\ u0 = Kind(m.type = "uc_data")
    BY <1>1, CommandFields DEF Target
  <2>1. Carries(m, k, b0, u0)
    BY <1>6, <2>0 DEF Carries
  <2>2. Tok("cmd", m, 0, k, b0, u0)
    BY <1>1, <2>1 DEF Tok, CmdTok
  <2>3. \A x : \A j \in LCE : \A b, u : CmdTok(x, j, b, u)' => CmdTok(x, j, b, u) /\ x # m
    BY <1>1 DEF CmdTok, Carries, Target
  <2>4. \A x, j \in LCE : \A b, u : LceTok(x, j, b, u)' =>
          \/ LceTok(x, j, b, u)
          \/ x = l /\ j = k /\ b = b0 /\ u = u0
    <3> SUFFICES ASSUME NEW x \in LCE, NEW j \in LCE, NEW b, NEW u, LceTok(x, j, b, u)'
                 PROVE  \/ LceTok(x, j, b, u)
                        \/ x = l /\ j = k /\ b = b0 /\ u = u0
      OBVIOUS
    <3>1. CASE x = l
      BY <1>2, <2>0, <3>1 DEF LceTok, Carries, Target
    <3>2. CASE x # l
      BY <1>2, <3>2 DEF LceTok, Carries, Target
    <3>3. QED
      BY <3>1, <3>2
  <2>5. Moves("none", None, k, "cmd", m, 0, b0, u0, "lce", l, 0)
    <3> SUFFICES ASSUME NEW j \in LCE, NEW i \in Nat, NEW a, NEW x, NEW b, NEW u,
                        Tok(a, x, i, j, b, u)'
                 PROVE  \/ /\ Tok(a, x, Before("none", None, k, j, a, x, i), j, b, u)
                           /\ ~(j = k /\ a = "cmd" /\ x = m
                                  /\ Before("none", None, k, j, a, x, i) = 0)
                        \/ j = k /\ a = "lce" /\ x = l /\ i = 0 /\ b = b0 /\ u = u0
      BY DEF Moves
    <3>1. a \in {"req", "fsm", "mem", "cmd", "lce"}
      BY DEF Tok
    <3>2. Before("none", None, k, j, a, x, i) = i
      BY <3>1 DEF Before
    <3>3. CASE a = "cmd"
      <4>1. i = 0 /\ CmdTok(x, j, b, u)'
        BY <3>3 DEF Tok
      <4>2. CmdTok(x, j, b, u) /\ x # m
        BY <2>3, <4>1
      <4>3. QED
        BY <3>2, <3>3, <4>1, <4>2 DEF Tok
    <3>4. CASE a = "lce"
      <4>1. i = 0 /\ x \in LCE /\ LceTok(x, j, b, u)'
        BY <3>4 DEF Tok
      <4>2. LceTok(x, j, b, u) \/ (x = l /\ j = k /\ b = b0 /\ u = u0)
        BY <2>4, <4>1
      <4>3. QED
        BY <3>2, <3>4, <4>1, <4>2 DEF Tok
    <3>5. QED
      BY <1>3, <3>1, <3>2, <3>3, <3>4 DEF Tok, ReqQuiet, MemQuiet, FsmQuiet
  <2>6. QED
    BY <2>0, <1>2, <1>3, <2>2, <2>5, TokMove
<1>7. QED
  BY <1>5, <1>6

(* The owner sends the block.                                              *)
LEMMA TokTr ==
  ASSUME IInv, SerialInv, NEW l \in LCE, LceTr(l)
  PROVE  TokInv'
<1>1. PICK k, b0 : k \in LCE /\ k = lceCmd[l].target /\ b0 = lceCmd[l].addr
  <2>1. Holds(l, {"st_tr", "st_tr_wb"}) /\ lceCmd[l] \in Command
    BY DEF LceTr, IInv, LceOK, LceTypeOK, CmdWF, Holds
  <2>2. QED
    BY <2>1, CommandFields DEF Holds
<1>2. PICK m : /\ cmdNet' = cmdNet \cup {m} /\ m.type = "data" /\ m.dst = k /\ m.addr = b0
  BY <1>1 DEF LceTr
<1>3. /\ lceState[l] = "tr" /\ lceCmd[l] # None /\ lceCmd[l].type \in {"st_tr", "st_tr_wb"}
      /\ \A j \in LCE : j # l => lceCmd'[j] = lceCmd[j] /\ lceState'[j] = lceState[j]
      /\ lceCmd'[l] = None \/ lceState'[l] = "wb_stat_rd"
      /\ UNCHANGED <<reqNet, cceState, mshr, memResp, specBits, miss>>
  BY DEF LceTr, LceGoto, Dequeue, IInv, LceOK, LceTypeOK, CmdWF, Holds, cceVars, memVars,
    dirVars, coreVars
<1>4. ReqQuiet /\ FsmQuiet /\ MemQuiet /\ TokInv /\ 0 \in Nat
  BY <1>3, ReqPlace, FsmPlace, MemPlace DEF SerialInv
<1>5. Tok("lce", l, 0, k, b0, "cached")
  BY <1>1, <1>3 DEF Tok, LceTok, Carries, Sources, Target, Passed, Kind
<1>6. \A x, j \in LCE : \A b, u : LceTok(x, j, b, u)' => LceTok(x, j, b, u) /\ x # l
  <2> SUFFICES ASSUME NEW x \in LCE, NEW j \in LCE, NEW b, NEW u, LceTok(x, j, b, u)'
               PROVE  LceTok(x, j, b, u) /\ x # l
    OBVIOUS
  <2>1. x # l
    BY <1>3 DEF LceTok, Passed
  <2>2. QED
    BY <1>3, <2>1 DEF LceTok, Carries, Target
<1>7. \A j \in LCE : \A b, u : Carries(m, j, b, u) => j = k /\ b = b0 /\ u = "cached"
  BY <1>2 DEF Carries, Target, Kind
<1>8. Moves("none", None, k, "lce", l, 0, b0, "cached", "cmd", m, 0)
  <2> SUFFICES ASSUME NEW j \in LCE, NEW i \in Nat, NEW a, NEW x, NEW b, NEW u,
                      Tok(a, x, i, j, b, u)'
               PROVE  \/ /\ Tok(a, x, Before("none", None, k, j, a, x, i), j, b, u)
                         /\ ~(j = k /\ a = "lce" /\ x = l
                                /\ Before("none", None, k, j, a, x, i) = 0)
                      \/ j = k /\ a = "cmd" /\ x = m /\ i = 0 /\ b = b0 /\ u = "cached"
    BY DEF Moves
  <2>1. a \in {"req", "fsm", "mem", "cmd", "lce"}
    BY DEF Tok
  <2>2. Before("none", None, k, j, a, x, i) = i
    BY <2>1 DEF Before
  <2>3. CASE a = "cmd"
    <3>1. i = 0 /\ CmdTok(x, j, b, u)'
      BY <2>3 DEF Tok
    <3>2. CmdTok(x, j, b, u) \/ (x = m /\ j = k /\ b = b0 /\ u = "cached")
      <4>1. cmdNet' = cmdNet \cup {m}
        BY <1>2
      <4>2. \A xx : \A ll \in LCE : \A bb, uu : CmdTok(xx, ll, bb, uu)' =>
              CmdTok(xx, ll, bb, uu) \/ (xx = m /\ Carries(m, ll, bb, uu))
        BY <4>1, CmdAddTok
      <4>3. QED
        BY <1>7, <3>1, <4>2
    <3>3. QED
      BY <2>2, <2>3, <3>1, <3>2 DEF Tok
  <2>4. CASE a = "lce"
    <3>1. i = 0 /\ x \in LCE /\ LceTok(x, j, b, u)'
      BY <2>4 DEF Tok
    <3>2. LceTok(x, j, b, u) /\ x # l
      BY <1>6, <3>1
    <3>3. QED
      BY <2>2, <2>4, <3>1, <3>2 DEF Tok
  <2>5. QED
    BY <1>4, <2>1, <2>2, <2>3, <2>4 DEF Tok, ReqQuiet, MemQuiet, FsmQuiet
<1>9. QED
  BY <1>1, <1>3, <1>4, <1>5, <1>8, TokMove

(* The steps of a cache that pass nothing on.                              *)
LEMMA TokLceQuiet ==
  ASSUME IInv, SerialInv, NEW l \in LCE,
         \/ LceReset(l) \/ LceClear(l) \/ LceSync(l) \/ LceInv(l) \/ LceData(l)
         \/ LceStWakeup(l) \/ LceStWb(l) \/ LceStTr(l) \/ LceUcStDone(l)
         \/ LceWbStatRd(l) \/ LceWb(l) \/ LceWbDirtyRd(l) \/ LceWbDirtySend(l)
  PROVE  TokInv'
<1>1. UNCHANGED <<reqNet, cceState, mshr, memResp, specBits, cmdNet, miss>>
  BY DEF LceReset, LceClear, LceSync, LceInv, LceData, LceStWakeup, LceStWb, LceStTr,
    LceUcStDone, LceWbStatRd, LceWb, LceWbDirtyRd, LceWbDirtySend, cceVars, memVars, dirVars,
    coreVars, netVars
<1>2. ReqQuiet /\ FsmQuiet /\ MemQuiet /\ CmdQuiet /\ TokInv
  BY <1>1, ReqPlace, FsmPlace, MemPlace, CmdPlace DEF SerialInv
<1>3. LceQuiet
  <2>0. lceCmd \in [LCE -> Command \cup {None}] /\ lceState \in [LCE -> LceCmdStates]
    BY DEF IInv, LceOK, LceTypeOK
  <2>1. CASE \/ LceSync(l) \/ LceInv(l) \/ LceUcStDone(l) \/ LceWbDirtySend(l)
    <3>1. /\ \A k \in LCE : k # l => lceCmd'[k] = lceCmd[k] /\ lceState'[k] = lceState[k]
          /\ lceCmd'[l] = None
      BY <2>0, <2>1 DEF LceSync, LceInv, LceUcStDone, LceWbDirtySend, Dequeue, LceGoto
    <3>2. QED
      BY <3>1, LceStay
  <2>2. CASE \/ LceReset(l) \/ LceClear(l) \/ LceData(l) \/ LceStWakeup(l) \/ LceStTr(l)
    <3>1. /\ \A k \in LCE : k # l => lceCmd'[k] = lceCmd[k] /\ lceState'[k] = lceState[k]
          /\ lceCmd'[l] = lceCmd[l] /\ lceState[l] \in {"reset", "clear", "ready"}
      BY <2>0, <2>2 DEF LceReset, LceClear, LceData, LceStWakeup, LceStTr, Executes, LceGoto
    <3>2. QED
      BY <3>1, LceStay DEF Passed
  <2>3. CASE \/ LceStWb(l) \/ LceWbStatRd(l) \/ LceWbDirtyRd(l)
    <3>1. /\ \A k \in LCE : k # l => lceCmd'[k] = lceCmd[k] /\ lceState'[k] = lceState[k]
          /\ lceCmd'[l] = lceCmd[l] /\ lceState'[l] \in Passed
      BY <2>0, <2>3 DEF LceStWb, LceWbStatRd, LceWbDirtyRd, LceGoto, Passed
    <3>2. QED
      BY <3>1, LceStay
  <2>4. CASE LceWb(l)
    <3>1. /\ \A k \in LCE : k # l => lceCmd'[k] = lceCmd[k] /\ lceState'[k] = lceState[k]
          /\ lceCmd'[l] = None \/ (lceCmd'[l] = lceCmd[l] /\ lceState'[l] \in Passed)
      BY <2>0, <2>4 DEF LceWb, LceGoto, Dequeue, Passed
    <3>2. QED
      BY <3>1, LceStay
  <2>5. QED
    BY <2>1, <2>2, <2>3, <2>4
<1>4. QED
  BY <1>1, <1>2, <1>3, TokQuiet

(* The last step of a miss.                                                *)
LEMMA MissEnds ==
  ASSUME IInv, SerialInv, NEW l \in LCE, LceCohAck(l) \/ LceUcData(l)
  PROVE  /\ TokInv' /\ ReqInv' /\ ~Unsent(l)
         /\ Waits(l, lceCmd[l].addr, Kind(lceCmd[l].type = "uc_data"))
<1>1. /\ lceCmd[l] # None /\ lceState[l] \notin Passed /\ lceCmd[l].dst = l
      /\ lceCmd[l].type \in {"data", "st_wakeup", "uc_data"}
  BY DEF LceCohAck, LceUcData, Executes, Holds, IInv, LceOK, CmdWF, Passed, SerialInv, HeldDst
<1>2. /\ \A k \in LCE : k # l => lceCmd'[k] = lceCmd[k] /\ lceState'[k] = lceState[k]
      /\ lceCmd'[l] = None
      /\ \A k \in LCE : k # l => miss'[k] = miss[k]
      /\ UNCHANGED <<reqNet, cceState, mshr, memResp, specBits, cmdNet>>
  BY DEF LceCohAck, LceUcData, Complete, Dequeue, LceGoto, IInv, LceOK, LceTypeOK, CoreOK,
    CoreTypeOK, cceVars, memVars, dirVars, netVars
<1>3. ReqQuiet /\ FsmQuiet /\ MemQuiet /\ CmdQuiet /\ LceQuiet /\ TokInv
  BY <1>2, ReqPlace, FsmPlace, MemPlace, CmdPlace, LceStay DEF SerialInv
<1>4. /\ TokInv' /\ ~Unsent(l)
      /\ Waits(l, lceCmd[l].addr, Kind(lceCmd[l].type = "uc_data"))
  BY <1>1, <1>2, <1>3, TokEnd
<1>5. ReqInv'
  BY <1>2, <1>4, ReqFree DEF SerialInv
<1>6. QED
  BY <1>4, <1>5

(* A core that is not waiting for its cache.                               *)
LEMMA CoreTok ==
  ASSUME IInv, SerialInv, NEW l \in LCE,
         \/ CoreReplay(l) \/ LockExpire(l)
         \/ \E b \in Block, op \in CoreOps, w \in Way : CoreMiss(l, b, op, w)
         \/ \E a \in IoBlock : CoreUcLoad(l, a)
  PROVE  TokInv' /\ ReqInv'
<1>1. /\ miss[l].phase # "sent"
      /\ \A k \in LCE : k # l => miss'[k] = miss[k]
      /\ UNCHANGED <<reqNet, cceState, mshr, memResp, specBits, cmdNet, lceCmd, lceState>>
  BY DEF CoreReplay, LockExpire, CoreMiss, CoreUcLoad, CacheReady, IInv, CoreOK, CoreTypeOK,
    cceVars, memVars, dirVars, netVars, lceVars
<1>2. ReqQuiet /\ FsmQuiet /\ MemQuiet /\ CmdQuiet /\ LceQuiet /\ TokInv /\ ReqInv
  BY <1>1, ReqPlace, FsmPlace, MemPlace, CmdPlace, LcePlace DEF SerialInv
<1>3. TokInv'
  BY <1>1, <1>2, TokIdle
<1>4. ReqInv'
  BY <1>1, <1>2, NotSent, ReqFree
<1>5. QED
  BY <1>3, <1>4

(* An uncached store is not a miss: it adds no place.                      *)
LEMMA UcStoreTok ==
  ASSUME IInv, SerialInv, NEW l \in LCE, NEW a \in IoBlock, NEW d \in Data, CoreUcStore(l, a, d)
  PROVE  TokInv' /\ ReqInv'
<1>1. PICK r \in Request, c \in CCE : /\ Sent(l, c, r) /\ r.op = "uc_wr" /\ c = Home(r.addr)
  <2> DEFINE r == [op |-> "uc_wr", src |-> l, addr |-> a, data |-> d]
  <2>1. r \in Request /\ r.op = "uc_wr" /\ r.addr = a
    BY DEF Request, UcOp
  <2>2. Home(a) \in CCE
    BY ConstantsAssumption DEF Home
  <2>3. Sent(l, Home(a), r)
    BY DEF CoreUcStore, SendReq, Sent
  <2> HIDE DEF r
  <2>4. QED
    BY <2>1, <2>2, <2>3
<1>2. UNCHANGED <<cceState, mshr, memResp, specBits, cmdNet, lceCmd, lceState, miss>>
  BY DEF CoreUcStore, cceVars, memVars, dirVars, lceVars
<1>3. ReqInv'
  BY <1>1, <1>2, ReqStore DEF SerialInv
<1>4. PICK n \in Nat :
           /\ \A k \in LCE, e \in CCE, i \in Nat : Blocking(k, e, i)' =>
                \/ /\ Blocking(k, e, i)
                   /\ reqNet'[<<k, e>>][i] = reqNet[<<k, e>>][i]
                \/ k = l /\ e = c /\ i = n /\ r.op # "uc_wr"
           /\ \A k \in LCE, e \in CCE, i \in Nat :
                Blocking(k, e, i) => Blocking(k, e, i)'
           /\ reqNet'[<<l, c>>][n] = r /\ n \in DOMAIN reqNet'[<<l, c>>]
           /\ \A k \in LCE, e \in CCE : \A i \in DOMAIN reqNet'[<<k, e>>] :
                \/ /\ i \in DOMAIN reqNet[<<k, e>>]
                   /\ reqNet'[<<k, e>>][i] = reqNet[<<k, e>>][i]
                \/ k = l /\ e = c /\ i = n
  BY <1>1, SentBlocking
<1>5. ReqQuiet
  BY <1>1, <1>4 DEF ReqQuiet, ReqTok
<1>6. FsmQuiet /\ MemQuiet /\ CmdQuiet /\ LceQuiet /\ TokInv
  BY <1>2, FsmPlace, MemPlace, CmdPlace, LcePlace DEF SerialInv
<1>7. QED
  BY <1>2, <1>3, <1>5, <1>6, TokQuiet

(* An engine takes an uncached request, or a cached one.                   *)
LEMMA UcTaken ==
  ASSUME IInv, SerialInv, NEW c \in CCE,
         CceUcReq(c) \/ \E l \in LCE : CceUncachedOnly(c, l)
  PROVE  TokInv' /\ ReqInv'
<1>1. PICK k, r : /\ k \in LCE /\ Taken(k, c) /\ r = Head(reqNet[<<k, c>>]) /\ r.op \in UcOp
                          /\ UncachedAccess(c, r)
  <2>1. CASE CceUcReq(c)
    <3>1. /\ mshr[c].lce \in LCE /\ reqNet[<<mshr[c].lce, c>>] # <<>>
          /\ Head(reqNet[<<mshr[c].lce, c>>]).op \in UcOp
      BY <2>1 DEF CceUcReq, IInv, ReqWF, Taking
    <3>2. Taken(mshr[c].lce, c) /\ UncachedAccess(c, Head(reqNet[<<mshr[c].lce, c>>]))
      BY <2>1, <3>1 DEF CceUcReq, DequeueReq, MshrReq, Taken
    <3>3. QED
      BY <3>1, <3>2
  <2>2. CASE \E l \in LCE : CceUncachedOnly(c, l)
    BY <2>2 DEF CceUncachedOnly, Taken
  <2>3. QED
    BY <2>1, <2>2
<1>2. UNCHANGED <<specBits, cmdNet, lceCmd, lceState, miss>>
  BY DEF CceUcReq, CceUncachedOnly, dirVars, lceVars, coreVars
<1>3. FsmQuiet
  <2>1. CASE CceUcReq(c)
    <3>1. /\ \A d \in CCE : d # c => cceState'[d] = cceState[d] /\ mshr'[d] = mshr[d]
          /\ cceState'[c] = "ready"
      BY <2>1 DEF CceUcReq, Goto, IInv, CceOK, CceTypeOK
    <3>2. ~AtFsm(c)'
      BY <3>1 DEF AtFsm, Unsourced, Working, Cached
    <3>3. QED
      BY <3>1, <3>2, FsmStay
  <2>2. CASE \E l \in LCE : CceUncachedOnly(c, l)
    BY <2>2, FsmPlace DEF CceUncachedOnly, cceVars
  <2>3. QED
    BY <2>1, <2>2
<1>4. r.src = k
  BY <1>1, ReqHeadSrc DEF Taken, IInv
<1>5. TokInv'
  BY <1>1, <1>2, <1>3, <1>4, TokUncached
<1>6. ReqInv'
  BY <1>1, <1>2, ReqTaken DEF SerialInv
<1>7. QED
  BY <1>5, <1>6

(* The request an engine dequeues leaves ReqInv as it was.                 *)
LEMMA DeqTaken ==
  ASSUME IInv, SerialInv, NEW c \in CCE, CceDeqReq(c)
  PROVE  ReqInv'
<1>1. PICK k \in LCE : Taken(k, c) /\ UNCHANGED miss
  BY DEF CceDeqReq, DequeueReq, Taken, IInv, ReqWF, Taking, coreVars
<1>2. QED
  BY <1>1, ReqTaken DEF SerialInv

----------------------------------------------------------------------------
(* Places and channels are kept.                                           *)

(* Memory responses, forwarded or dropped.                                 *)
LEMMA MemTokStep ==
  ASSUME IInv, SerialInv, NEW c \in CCE, MemRespStep(c)
  PROVE  TokInv'
<1>0. PICK r : r = memResp[c][1]
  OBVIOUS
<1>1. memResp[c] # <<>> /\ MemTaken(c)
  BY DEF MemRespStep, MemRespSquash, MemRespFill, MemRespWriteback, MemRespUncached,
    MemDequeue, MemTaken
<1>2. RespHead(c) = r /\ r \in MemResponse /\ 1 \in DOMAIN memResp[c]
  BY <1>0, <1>1, MemTakenFacts, RespHeadOK DEF IInv
<1>3. UNCHANGED <<cceState, mshr, specBits, reqNet, lceCmd, lceState, miss>>
  BY DEF MemRespStep, MemRespSquash, MemRespFill, MemRespWriteback, MemRespUncached,
    cceVars, dirVars, lceVars, coreVars, netVars
<1>4. CASE MemRespSquash(c) \/ MemRespWriteback(c)
  <2>1. cmdNet' = cmdNet
    BY <1>4 DEF MemRespSquash, MemRespWriteback, netVars
  <2>2. QED
    BY <1>1, <1>3, <2>1, CmdPlace, TokMemTaken
<1>5. CASE MemRespFill(c)
  <2>1. PICK m : /\ cmdNet' = cmdNet \cup {m} /\ m.type = "data" /\ m.dst = r.lce
                 /\ m.addr = r.addr
    <3>1. PICK st : SendCmd(FillCmd(c, r, st))
      BY <1>2, <1>5 DEF MemRespFill
    <3>2. QED
      BY <3>1 DEF SendCmd, FillCmd
  <2>2. r.type = "rd" /\ Released(SetOf[r.addr]) /\ r.lce \in LCE
    BY <1>2, <1>5, MemResponseFields DEF MemRespFill, IsSpeculative, Released
  <2>3. MemTok(c, 1, r.lce, r.addr, "cached")
    BY <1>0, <1>2, <2>2 DEF MemTok, Kind
  <2>4. \A l \in LCE : \A b, u : Carries(m, l, b, u) => l = r.lce /\ b = r.addr /\ u = "cached"
    BY <2>1 DEF Carries, Target, Kind
  <2>5. PICK k, b0 : k \in LCE /\ k = r.lce /\ b0 = r.addr
    BY <2>2
  <2>6. QED
    BY <1>1, <1>3, <2>1, <2>3, <2>4, <2>5, TokMemSent
<1>6. CASE MemRespUncached(c) /\ r.type = "uc_rd"
  <2>1. PICK m : /\ cmdNet' = cmdNet \cup {m} /\ m.type = "uc_data" /\ m.dst = r.lce
                 /\ m.addr = r.addr
    BY <1>2, <1>6 DEF MemRespUncached, SendCmd
  <2>2. r.lce \in LCE
    BY <1>2, <1>6, MemResponseFields
  <2>3. MemTok(c, 1, r.lce, r.addr, "uncached")
    BY <1>0, <1>2, <1>6, <2>2 DEF MemTok, Kind
  <2>4. \A l \in LCE : \A b, u : Carries(m, l, b, u) => l = r.lce /\ b = r.addr /\ u = "uncached"
    BY <2>1 DEF Carries, Target, Kind
  <2>5. QED
    BY <1>1, <1>3, <2>1, <2>2, <2>3, <2>4, TokMemSent
<1>7. CASE MemRespUncached(c) /\ r.type # "uc_rd"
  <2>1. \A m \in cmdNet' : m \in cmdNet \/ m.type \notin Sources
    BY <1>2, <1>7 DEF MemRespUncached, SendCmd, Sources
  <2>2. QED
    BY <1>1, <1>3, <2>1, CmdPlace, TokMemTaken
<1>8. QED
  BY <1>4, <1>5, <1>6, <1>7 DEF MemRespStep

(* Nothing moves in these.                                                 *)
LEMMA TokFrame ==
  ASSUME SerialInv,
         UNCHANGED <<reqNet, cceState, mshr, memResp, specBits, cmdNet, lceCmd, lceState, miss>>
  PROVE  TokInv'
BY ReqPlace, FsmPlace, MemPlace, CmdPlace, LcePlace, TokQuiet DEF SerialInv

(* Every step of an engine keeps the misses apart.                         *)
LEMMA TokCce ==
  ASSUME IInv, SerialInv, NEW c \in CCE, CceStep(c)
  PROVE  TokInv'
<1>1. CASE CohAck(c) \/ ConfigNormal(c)
  BY <1>1, TokFrame DEF CohAck, ConfigNormal, cceVars, dirVars, memVars, lceVars, coreVars, netVars
<1>2. CASE MemRespStep(c)
  BY <1>2, MemTokStep
<1>3. CASE CceUcReq(c) \/ \E l \in LCE : CceUncachedOnly(c, l)
  BY <1>3, UcTaken
<1>4. CASE CceDeqReq(c) \/ CceUpgrade(c) \/ CceTransfer(c) \/ CceResolve(c)
  BY <1>4, TokDeqReq, TokUpgrade, TokTransfer, TokResolve
<1>5. CASE \/ CceReset(c) \/ CceClearDir(c) \/ CceLeaveUncached(c) \/ CceSyncAck(c)
           \/ CceReadPending(c) \/ CceReadMemSpec(c) \/ CceReadDir(c)
           \/ CceWriteNextState(c) \/ CceReplacement(c) \/ CceReplacementWbResp(c)
           \/ CceInvCmd(c) \/ CceInvAck(c) \/ CceTransferWbResp(c)
           \/ \E l \in LCE : CceReady(c, l) \/ CceSendSync(c, l)
  BY <1>5, TokFsmQuiet
<1>6. QED
  BY <1>1, <1>2, <1>3, <1>4, <1>5 DEF CceStep, CceFsmStep

(* Every step of a cache and its core keeps the misses apart.              *)
LEMMA TokLce ==
  ASSUME IInv, SerialInv, NEW l \in LCE, LceStep(l)
  PROVE  TokInv'
<1>1. CASE LcePartialStep(l) \/ \E b \in Block, w \in Way, d \in Data : CoreStore(l, b, w, d)
  BY <1>1, TokFrame DEF LcePartialStep, LceTagOnly, LceDataOnly, LceStatOnly, CoreStore,
    cceVars, dirVars, memVars, lceVars, coreVars, netVars
<1>2. CASE \/ CoreReplay(l) \/ LockExpire(l)
           \/ \E b \in Block, op \in CoreOps, w \in Way : CoreMiss(l, b, op, w)
           \/ \E a \in IoBlock : CoreUcLoad(l, a)
  BY <1>2, CoreTok
<1>3. CASE \E a \in IoBlock, d \in Data : CoreUcStore(l, a, d)
  BY <1>3, UcStoreTok
<1>4. CASE LceSendReq(l)
  BY <1>4, TokSendReq
<1>5. CASE LceHead(l) \/ LceTr(l)
  BY <1>5, TokHead, TokTr
<1>6. CASE LceCohAck(l) \/ LceUcData(l)
  BY <1>6, MissEnds
<1>7. CASE \/ LceReset(l) \/ LceClear(l) \/ LceSync(l) \/ LceInv(l) \/ LceData(l)
           \/ LceStWakeup(l) \/ LceStWb(l) \/ LceStTr(l) \/ LceUcStDone(l)
           \/ LceWbStatRd(l) \/ LceWb(l) \/ LceWbDirtyRd(l) \/ LceWbDirtySend(l)
  BY <1>7, TokLceQuiet
<1>8. QED
  BY <1>1, <1>2, <1>3, <1>4, <1>5, <1>6, <1>7 DEF LceStep, LceCmdStep, CoreStep

(* Every step of an engine keeps the requests in their channels.           *)
LEMMA ReqCce ==
  ASSUME IInv, SerialInv, NEW c \in CCE, CceStep(c)
  PROVE  ReqInv'
<1>1. CASE CceUcReq(c) \/ \E l \in LCE : CceUncachedOnly(c, l)
  BY <1>1, UcTaken
<1>2. CASE CceDeqReq(c)
  BY <1>2, DeqTaken
<1>3. CASE \/ CceReset(c) \/ CceClearDir(c) \/ CceLeaveUncached(c) \/ CceSyncAck(c)
           \/ CceReadPending(c) \/ CceReadMemSpec(c) \/ CceReadDir(c)
           \/ CceWriteNextState(c) \/ CceReplacement(c) \/ CceReplacementWbResp(c)
  BY <1>3, ReqFrame DEF SerialInv, CceReset, CceClearDir, CceLeaveUncached, CceSyncAck,
    CceReadPending, CceReadMemSpec, CceReadDir, CceWriteNextState, CceReplacement,
    CceReplacementWbResp, coreVars, netVars
<1>4. CASE \/ CceInvCmd(c) \/ CceInvAck(c) \/ CceUpgrade(c) \/ CceTransfer(c)
           \/ CceTransferWbResp(c) \/ CceResolve(c) \/ CohAck(c) \/ ConfigNormal(c)
           \/ \E l \in LCE : CceReady(c, l) \/ CceSendSync(c, l)
  BY <1>4, ReqFrame DEF SerialInv, CceInvCmd, CceInvAck, CceUpgrade, CceTransfer,
    CceTransferWbResp, CceResolve, CohAck, ConfigNormal, CceReady, CceSendSync,
    coreVars, netVars
<1>5. CASE MemRespStep(c)
  BY <1>5, ReqFrame DEF SerialInv, MemRespStep, MemRespSquash, MemRespFill, MemRespWriteback,
    MemRespUncached, coreVars, netVars
<1>6. QED
  BY <1>1, <1>2, <1>3, <1>4, <1>5 DEF CceStep, CceFsmStep

(* Every step of a cache and its core keeps the requests in their channels.*)
LEMMA ReqLce ==
  ASSUME IInv, SerialInv, NEW l \in LCE, LceStep(l)
  PROVE  ReqInv'
<1>1. CASE \/ CoreReplay(l) \/ LockExpire(l)
           \/ \E b \in Block, op \in CoreOps, w \in Way : CoreMiss(l, b, op, w)
           \/ \E a \in IoBlock : CoreUcLoad(l, a)
  BY <1>1, CoreTok
<1>2. CASE \E a \in IoBlock, d \in Data : CoreUcStore(l, a, d)
  BY <1>2, UcStoreTok
<1>3. CASE LceSendReq(l)
  BY <1>3, ReqMiss DEF SerialInv
<1>4. CASE LceCohAck(l) \/ LceUcData(l)
  BY <1>4, MissEnds
<1>5. CASE \/ LcePartialStep(l) \/ \E b \in Block, w \in Way, d \in Data : CoreStore(l, b, w, d)
           \/ LceHead(l) \/ LceTr(l) \/ LceReset(l) \/ LceClear(l) \/ LceSync(l) \/ LceInv(l)
           \/ LceData(l) \/ LceStWakeup(l)
  BY <1>5, ReqFrame DEF SerialInv, LcePartialStep, LceTagOnly, LceDataOnly, LceStatOnly, CoreStore,
    LceHead, LceTr, LceReset, LceClear, LceSync, LceInv, LceData, LceStWakeup, coreVars, netVars
<1>6. CASE \/ LceStWb(l) \/ LceStTr(l) \/ LceUcStDone(l)
           \/ LceWbStatRd(l) \/ LceWb(l) \/ LceWbDirtyRd(l) \/ LceWbDirtySend(l)
  BY <1>6, ReqFrame DEF SerialInv, LceStWb, LceStTr, LceUcStDone, LceWbStatRd, LceWb, LceWbDirtyRd,
    LceWbDirtySend, coreVars, netVars
<1>7. QED
  BY <1>1, <1>2, <1>3, <1>4, <1>5, <1>6 DEF LceStep, LceCmdStep, CoreStep

----------------------------------------------------------------------------
(* What writes what: the engines.                                          *)

(* The steps that touch the memory responses.                            *)
LEMMA MemRespBy ==
  ASSUME NEW c \in CCE, CceStep(c)
  PROVE  \/ memResp' = memResp
         \/ CceUcReq(c) \/ CceReadMemSpec(c) \/ CceReplacementWbResp(c)
         \/ CceTransferWbResp(c) \/ MemRespSquash(c) \/ MemRespFill(c)
         \/ MemRespWriteback(c) \/ MemRespUncached(c)
         \/ \E l \in LCE : CceUncachedOnly(c, l)
<1>1. CASE \/ CceReset(c) \/ CceClearDir(c) \/ CceLeaveUncached(c) \/ CceSyncAck(c)
            \/ CceReadPending(c) \/ CceDeqReq(c) \/ CceReadDir(c)
  BY <1>1 DEF CceReset, CceClearDir, CceLeaveUncached, CceSyncAck, CceReadPending,
    CceDeqReq, CceReadDir, memVars
<1>2. CASE \/ CceWriteNextState(c) \/ CceReplacement(c) \/ CceInvCmd(c)
            \/ CceInvAck(c) \/ CceUpgrade(c) \/ CceTransfer(c) \/ CceResolve(c)
  BY <1>2 DEF CceWriteNextState, CceReplacement, CceInvCmd, CceInvAck, CceUpgrade,
    CceTransfer, CceResolve, memVars
<1>3. CASE \/ CohAck(c) \/ ConfigNormal(c)
            \/ \E l \in LCE : CceReady(c, l) \/ CceSendSync(c, l)
  BY <1>3 DEF CohAck, ConfigNormal, CceReady, CceSendSync, memVars
<1>4. QED
  BY <1>1, <1>2, <1>3 DEF CceStep, CceFsmStep, MemRespStep

(* The steps that touch the speculation bits.                            *)
LEMMA SpecBy ==
  ASSUME NEW c \in CCE, CceStep(c)
  PROVE  \/ specBits' = specBits
         \/ CceReadMemSpec(c) \/ CceResolve(c)
<1>1. CASE \/ CceReset(c) \/ CceClearDir(c) \/ CceLeaveUncached(c) \/ CceSyncAck(c)
            \/ CceUcReq(c) \/ CceReadPending(c) \/ CceDeqReq(c)
  BY <1>1 DEF CceReset, CceClearDir, CceLeaveUncached, CceSyncAck, CceUcReq,
    CceReadPending, CceDeqReq, dirVars
<1>2. CASE \/ CceReadDir(c) \/ CceWriteNextState(c) \/ CceReplacement(c)
            \/ CceReplacementWbResp(c) \/ CceInvCmd(c) \/ CceInvAck(c)
            \/ CceUpgrade(c)
  BY <1>2 DEF CceReadDir, CceWriteNextState, CceReplacement, CceReplacementWbResp,
    CceInvCmd, CceInvAck, CceUpgrade, dirVars
<1>3. CASE \/ CceTransfer(c) \/ CceTransferWbResp(c) \/ MemRespSquash(c)
            \/ MemRespFill(c) \/ MemRespWriteback(c) \/ MemRespUncached(c)
            \/ CohAck(c)
  BY <1>3 DEF CceTransfer, CceTransferWbResp, MemRespSquash, MemRespFill,
    MemRespWriteback, MemRespUncached, CohAck, dirVars
<1>4. CASE \/ ConfigNormal(c)
            \/ \E l \in LCE : CceReady(c, l) \/ CceUncachedOnly(c, l) \/ CceSendSync(c, l)
  BY <1>4 DEF ConfigNormal, CceReady, CceUncachedOnly, CceSendSync, dirVars
<1>5. QED
  BY <1>1, <1>2, <1>3, <1>4 DEF CceStep, CceFsmStep, MemRespStep

(* The steps that touch the pending bits.                                *)
LEMMA PendingBy ==
  ASSUME NEW c \in CCE, CceStep(c)
  PROVE  \/ pending' = pending
         \/ CceDeqReq(c) \/ CceReadMemSpec(c) \/ CceReplacementWbResp(c)
         \/ CceTransferWbResp(c) \/ MemRespSquash(c) \/ MemRespFill(c)
         \/ MemRespWriteback(c) \/ CohAck(c)
<1>1. CASE \/ CceReset(c) \/ CceClearDir(c) \/ CceLeaveUncached(c) \/ CceSyncAck(c)
            \/ CceUcReq(c) \/ CceReadPending(c) \/ CceReadDir(c)
  BY <1>1 DEF CceReset, CceClearDir, CceLeaveUncached, CceSyncAck, CceUcReq,
    CceReadPending, CceReadDir, dirVars
<1>2. CASE \/ CceWriteNextState(c) \/ CceReplacement(c) \/ CceInvCmd(c)
            \/ CceInvAck(c) \/ CceUpgrade(c) \/ CceTransfer(c) \/ CceResolve(c)
  BY <1>2 DEF CceWriteNextState, CceReplacement, CceInvCmd, CceInvAck, CceUpgrade,
    CceTransfer, CceResolve, dirVars
<1>3. CASE \/ MemRespUncached(c) \/ ConfigNormal(c)
            \/ \E l \in LCE : CceReady(c, l) \/ CceUncachedOnly(c, l) \/ CceSendSync(c, l)
  BY <1>3 DEF MemRespUncached, ConfigNormal, CceReady, CceUncachedOnly, CceSendSync,
    dirVars
<1>4. QED
  BY <1>1, <1>2, <1>3 DEF CceStep, CceFsmStep, MemRespStep

(* The steps that touch the directory.                                   *)
LEMMA DirBy ==
  ASSUME NEW c \in CCE, CceStep(c)
  PROVE  \/ dir' = dir
         \/ CceClearDir(c) \/ CceWriteNextState(c) \/ CceInvCmd(c) \/ CceTransfer(c)
<1>1. CASE \/ CceReset(c) \/ CceLeaveUncached(c) \/ CceSyncAck(c) \/ CceUcReq(c)
            \/ CceReadPending(c) \/ CceDeqReq(c) \/ CceReadMemSpec(c)
  BY <1>1 DEF CceReset, CceLeaveUncached, CceSyncAck, CceUcReq, CceReadPending,
    CceDeqReq, CceReadMemSpec, dirVars
<1>2. CASE \/ CceReadDir(c) \/ CceReplacement(c) \/ CceReplacementWbResp(c)
            \/ CceInvAck(c) \/ CceUpgrade(c) \/ CceTransferWbResp(c) \/ CceResolve(c)
  BY <1>2 DEF CceReadDir, CceReplacement, CceReplacementWbResp, CceInvAck,
    CceUpgrade, CceTransferWbResp, CceResolve, dirVars
<1>3. CASE \/ MemRespSquash(c) \/ MemRespFill(c) \/ MemRespWriteback(c)
            \/ MemRespUncached(c) \/ CohAck(c) \/ ConfigNormal(c)
            \/ \E l \in LCE : CceReady(c, l)
  BY <1>3 DEF MemRespSquash, MemRespFill, MemRespWriteback, MemRespUncached, CohAck,
    ConfigNormal, CceReady, dirVars
<1>4. CASE \/ \E l \in LCE : CceUncachedOnly(c, l) \/ CceSendSync(c, l)
  BY <1>4 DEF CceUncachedOnly, CceSendSync, dirVars
<1>5. QED
  BY <1>1, <1>2, <1>3, <1>4 DEF CceStep, CceFsmStep, MemRespStep

(* The steps that touch the request channels.                            *)
LEMMA ReqBy ==
  ASSUME NEW c \in CCE, CceStep(c)
  PROVE  \/ reqNet' = reqNet
         \/ CceUcReq(c) \/ CceDeqReq(c) \/ \E l \in LCE : CceUncachedOnly(c, l)
<1>1. CASE \/ CceReset(c) \/ CceClearDir(c) \/ CceLeaveUncached(c) \/ CceSyncAck(c)
            \/ CceReadPending(c) \/ CceReadMemSpec(c) \/ CceReadDir(c)
  BY <1>1 DEF CceReset, CceClearDir, CceLeaveUncached, CceSyncAck, CceReadPending,
    CceReadMemSpec, CceReadDir, netVars
<1>2. CASE \/ CceWriteNextState(c) \/ CceReplacement(c) \/ CceReplacementWbResp(c)
            \/ CceInvCmd(c) \/ CceInvAck(c) \/ CceUpgrade(c) \/ CceTransfer(c)
  BY <1>2 DEF CceWriteNextState, CceReplacement, CceReplacementWbResp, CceInvCmd,
    CceInvAck, CceUpgrade, CceTransfer, netVars
<1>3. CASE \/ CceTransferWbResp(c) \/ CceResolve(c) \/ MemRespSquash(c)
            \/ MemRespFill(c) \/ MemRespWriteback(c) \/ MemRespUncached(c)
            \/ CohAck(c)
  BY <1>3 DEF CceTransferWbResp, CceResolve, MemRespSquash, MemRespFill,
    MemRespWriteback, MemRespUncached, CohAck, netVars
<1>4. CASE \/ ConfigNormal(c) \/ \E l \in LCE : CceReady(c, l) \/ CceSendSync(c, l)
  BY <1>4 DEF ConfigNormal, CceReady, CceSendSync, netVars
<1>5. QED
  BY <1>1, <1>2, <1>3, <1>4 DEF CceStep, CceFsmStep, MemRespStep

(* The steps that send commands.                                         *)
LEMMA CmdBy ==
  ASSUME NEW c \in CCE, CceStep(c)
  PROVE  \/ cmdNet' = cmdNet
         \/ CceReplacement(c) \/ CceInvCmd(c) \/ CceUpgrade(c) \/ CceTransfer(c)
         \/ MemRespFill(c) \/ MemRespUncached(c) \/ \E l \in LCE : CceSendSync(c, l)
<1>1. CASE \/ CceReset(c) \/ CceClearDir(c) \/ CceLeaveUncached(c) \/ CceSyncAck(c)
            \/ CceUcReq(c) \/ CceReadPending(c) \/ CceDeqReq(c)
  BY <1>1 DEF CceReset, CceClearDir, CceLeaveUncached, CceSyncAck, CceUcReq,
    CceReadPending, CceDeqReq, netVars
<1>2. CASE \/ CceReadMemSpec(c) \/ CceReadDir(c) \/ CceWriteNextState(c)
            \/ CceReplacementWbResp(c) \/ CceInvAck(c) \/ CceTransferWbResp(c)
            \/ CceResolve(c)
  BY <1>2 DEF CceReadMemSpec, CceReadDir, CceWriteNextState, CceReplacementWbResp,
    CceInvAck, CceTransferWbResp, CceResolve, netVars
<1>3. CASE \/ MemRespSquash(c) \/ MemRespWriteback(c) \/ CohAck(c) \/ ConfigNormal(c)
            \/ \E l \in LCE : CceReady(c, l) \/ CceUncachedOnly(c, l)
  BY <1>3 DEF MemRespSquash, MemRespWriteback, CohAck, ConfigNormal, CceReady,
    CceUncachedOnly, netVars
<1>4. QED
  BY <1>1, <1>2, <1>3 DEF CceStep, CceFsmStep, MemRespStep

(* The steps that take responses.                                        *)
LEMMA RespBy ==
  ASSUME NEW c \in CCE, CceStep(c)
  PROVE  \/ respNet' = respNet
         \/ CceSyncAck(c) \/ CceReplacementWbResp(c) \/ CceInvAck(c)
         \/ CceTransferWbResp(c) \/ CohAck(c)
<1>1. CASE \/ CceReset(c) \/ CceClearDir(c) \/ CceLeaveUncached(c) \/ CceUcReq(c)
            \/ CceReadPending(c) \/ CceDeqReq(c) \/ CceReadMemSpec(c)
  BY <1>1 DEF CceReset, CceClearDir, CceLeaveUncached, CceUcReq, CceReadPending,
    CceDeqReq, CceReadMemSpec, netVars
<1>2. CASE \/ CceReadDir(c) \/ CceWriteNextState(c) \/ CceReplacement(c)
            \/ CceInvCmd(c) \/ CceUpgrade(c) \/ CceTransfer(c) \/ CceResolve(c)
  BY <1>2 DEF CceReadDir, CceWriteNextState, CceReplacement, CceInvCmd, CceUpgrade,
    CceTransfer, CceResolve, netVars
<1>3. CASE \/ MemRespSquash(c) \/ MemRespFill(c) \/ MemRespWriteback(c)
            \/ MemRespUncached(c) \/ ConfigNormal(c)
            \/ \E l \in LCE : CceReady(c, l) \/ CceUncachedOnly(c, l)
  BY <1>3 DEF MemRespSquash, MemRespFill, MemRespWriteback, MemRespUncached,
    ConfigNormal, CceReady, CceUncachedOnly, netVars
<1>4. CASE \/ \E l \in LCE : CceSendSync(c, l)
  BY <1>4 DEF CceSendSync
<1>5. QED
  BY <1>1, <1>2, <1>3, <1>4 DEF CceStep, CceFsmStep, MemRespStep

(* The steps that move the state machine.                                *)
LEMMA FsmBy ==
  ASSUME NEW c \in CCE, CceStep(c)
  PROVE  \/ UNCHANGED <<cceState, mshr>>
         \/ CceReset(c) \/ CceClearDir(c) \/ CceLeaveUncached(c) \/ CceSyncAck(c)
         \/ CceUcReq(c) \/ CceReadPending(c) \/ CceDeqReq(c) \/ CceReadMemSpec(c)
         \/ CceReadDir(c) \/ CceWriteNextState(c) \/ CceReplacement(c)
         \/ CceReplacementWbResp(c) \/ CceInvCmd(c) \/ CceInvAck(c) \/ CceUpgrade(c)
         \/ CceTransfer(c) \/ CceTransferWbResp(c) \/ CceResolve(c)
         \/ \E l \in LCE : CceReady(c, l) \/ CceSendSync(c, l)
<1>1. CASE \/ MemRespSquash(c) \/ MemRespFill(c) \/ MemRespWriteback(c)
            \/ MemRespUncached(c) \/ CohAck(c) \/ ConfigNormal(c)
            \/ \E l \in LCE : CceUncachedOnly(c, l)
  BY <1>1 DEF MemRespSquash, MemRespFill, MemRespWriteback, MemRespUncached, CohAck,
    ConfigNormal, CceUncachedOnly, cceVars
<1>2. QED
  BY <1>1 DEF CceStep, CceFsmStep, MemRespStep

(* The steps that touch the acknowledgement counter.                     *)
LEMMA CntBy ==
  ASSUME NEW c \in CCE, CceStep(c)
  PROVE  \/ UNCHANGED <<cnt, toInv, sharers>>
         \/ CceReadDir(c) \/ CceWriteNextState(c) \/ CceReplacementWbResp(c)
         \/ CceInvCmd(c) \/ CceInvAck(c) \/ CceResolve(c)
         \/ \E l \in LCE : CceReady(c, l)
<1>1. CASE \/ CceReset(c) \/ CceClearDir(c) \/ CceLeaveUncached(c) \/ CceSyncAck(c)
            \/ CceUcReq(c) \/ CceReadPending(c) \/ CceDeqReq(c)
  BY <1>1 DEF CceReset, CceClearDir, CceLeaveUncached, CceSyncAck, CceUcReq,
    CceReadPending, CceDeqReq
<1>2. CASE \/ CceReadMemSpec(c) \/ CceReplacement(c) \/ CceUpgrade(c)
            \/ CceTransfer(c) \/ CceTransferWbResp(c) \/ MemRespSquash(c)
            \/ MemRespFill(c)
  BY <1>2 DEF CceReadMemSpec, CceReplacement, CceUpgrade, CceTransfer,
    CceTransferWbResp, MemRespSquash, MemRespFill, cceVars
<1>3. CASE \/ MemRespWriteback(c) \/ MemRespUncached(c) \/ CohAck(c)
            \/ ConfigNormal(c)
            \/ \E l \in LCE : CceUncachedOnly(c, l) \/ CceSendSync(c, l)
  BY <1>3 DEF MemRespWriteback, MemRespUncached, CohAck, ConfigNormal,
    CceUncachedOnly, CceSendSync, cceVars
<1>4. QED
  BY <1>1, <1>2, <1>3 DEF CceStep, CceFsmStep, MemRespStep

(* An engine touches nothing of the caches.                                *)
LEMMA CceLeaves ==
  ASSUME NEW c \in CCE, CceStep(c)
  PROVE  UNCHANGED <<tag, line, dirty, lceState, lceCmd, dataBuf, miss, credit, latest>>
<1>1. CASE \/ CceReset(c) \/ CceClearDir(c) \/ CceLeaveUncached(c) \/ CceSyncAck(c)
           \/ CceUcReq(c) \/ CceReadPending(c) \/ CceDeqReq(c)
  BY <1>1 DEF CceReset, CceClearDir, CceLeaveUncached, CceSyncAck, CceUcReq,
    CceReadPending, CceDeqReq, cacheVars, lceVars, coreVars
<1>2. CASE \/ CceReadMemSpec(c) \/ CceReadDir(c) \/ CceWriteNextState(c)
           \/ CceReplacement(c) \/ CceReplacementWbResp(c) \/ CceInvCmd(c) \/ CceInvAck(c)
  BY <1>2 DEF CceReadMemSpec, CceReadDir, CceWriteNextState, CceReplacement,
    CceReplacementWbResp, CceInvCmd, CceInvAck, cacheVars, lceVars, coreVars
<1>3. CASE \/ CceUpgrade(c) \/ CceTransfer(c) \/ CceTransferWbResp(c) \/ CceResolve(c)
           \/ MemRespSquash(c) \/ MemRespFill(c) \/ MemRespWriteback(c)
  BY <1>3 DEF CceUpgrade, CceTransfer, CceTransferWbResp, CceResolve, MemRespSquash,
    MemRespFill, MemRespWriteback, cacheVars, lceVars, coreVars
<1>4. CASE \/ MemRespUncached(c) \/ CohAck(c) \/ ConfigNormal(c)
           \/ \E l \in LCE : CceReady(c, l) \/ CceUncachedOnly(c, l) \/ CceSendSync(c, l)
  BY <1>4 DEF MemRespUncached, CohAck, ConfigNormal, CceReady, CceUncachedOnly,
    CceSendSync, cacheVars, lceVars, coreVars
<1>5. QED
  BY <1>1, <1>2, <1>3, <1>4 DEF CceStep, CceFsmStep, MemRespStep

(* A cache touches nothing of the engines and the memory.                  *)
LEMMA LceLeaves ==
  ASSUME NEW l \in LCE, LceStep(l)
  PROVE  UNCHANGED <<cceState, cceNormal, mshr, sharers, toInv, cnt, synced, dir, pending,
                     specBits, memCredit, memResp, mem>>
<1>1. CASE \/ LceReset(l) \/ LceClear(l) \/ LceHead(l) \/ LceSync(l) \/ LceInv(l)
           \/ LceData(l) \/ LceStWakeup(l)
  BY <1>1 DEF LceReset, LceClear, LceHead, LceSync, LceInv, LceData, LceStWakeup,
    cceVars, dirVars, memVars
<1>2. CASE \/ LceStWb(l) \/ LceStTr(l) \/ LceUcStDone(l) \/ LceUcData(l) \/ LceCohAck(l)
           \/ LceTr(l) \/ LceWbStatRd(l)
  BY <1>2 DEF LceStWb, LceStTr, LceUcStDone, LceUcData, LceCohAck, LceTr, LceWbStatRd,
    cceVars, dirVars, memVars
<1>3. CASE \/ LceWb(l) \/ LceWbDirtyRd(l) \/ LceWbDirtySend(l) \/ LcePartialStep(l)
           \/ LceSendReq(l)
  BY <1>3 DEF LceWb, LceWbDirtyRd, LceWbDirtySend, LcePartialStep, LceTagOnly,
    LceDataOnly, LceStatOnly, LceSendReq, cceVars, dirVars, memVars
<1>4. CASE CoreStep(l) \/ CoreReplay(l) \/ LockExpire(l)
  BY <1>4 DEF CoreStep, CoreStore, CoreMiss, CoreUcLoad, CoreUcStore, CoreReplay,
    LockExpire, cceVars, dirVars, memVars
<1>5. QED
  BY <1>1, <1>2, <1>3, <1>4 DEF LceStep, LceCmdStep

(* An engine touches nothing of the other engines.                         *)
LEMMA CceOthers ==
  ASSUME IInv, NEW c \in CCE, CceStep(c), NEW d \in CCE, d # c
  PROVE  /\ cceState'[d] = cceState[d] /\ mshr'[d] = mshr[d] /\ cnt'[d] = cnt[d]
         /\ toInv'[d] = toInv[d] /\ sharers'[d] = sharers[d] /\ memResp'[d] = memResp[d]
<1> USE DEF IInv, CceOK, CceTypeOK, MemTypeOK, Goto, cceVars, memVars
<1>1. CASE \/ CceReset(c) \/ CceClearDir(c) \/ CceLeaveUncached(c) \/ CceSyncAck(c)
           \/ CceUcReq(c)
  BY <1>1 DEF CceReset, CceClearDir, CceLeaveUncached, CceSyncAck, CceUcReq,
    UncachedAccess, MemCommand
<1>2. CASE \/ CceReadPending(c) \/ CceDeqReq(c) \/ CceReadMemSpec(c) \/ CceReadDir(c)
  BY <1>2 DEF CceReadPending, CceDeqReq, CceReadMemSpec, CceReadDir, MemCommand
<1>3. CASE \/ CceWriteNextState(c) \/ CceReplacement(c) \/ CceReplacementWbResp(c)
  <2>1. CASE CceWriteNextState(c) \/ CceReplacement(c)
    BY <2>1 DEF CceWriteNextState, CceReplacement, StartInvOrFill
  <2>2. CASE CceReplacementWbResp(c)
    BY <2>2 DEF CceReplacementWbResp, StartInvOrFill, WritebackResp, MemCommand
  <2>3. QED
    BY <1>3, <2>1, <2>2
<1>4. CASE CceInvCmd(c) \/ CceInvAck(c) \/ CceUpgrade(c) \/ CceTransfer(c)
  BY <1>4 DEF CceInvCmd, CceInvAck, CceUpgrade, CceTransfer
<1>5. CASE CceTransferWbResp(c) \/ CceResolve(c) \/ MemRespStep(c)
  BY <1>5 DEF CceTransferWbResp, CceResolve, MemRespStep, MemRespSquash,
    MemRespFill, MemRespWriteback, MemRespUncached, WritebackResp, MemCommand, MemDequeue
<1>6. CASE \/ CohAck(c) \/ ConfigNormal(c)
           \/ \E l \in LCE : CceReady(c, l) \/ CceUncachedOnly(c, l) \/ CceSendSync(c, l)
  BY <1>6 DEF CohAck, ConfigNormal, CceReady, CceUncachedOnly, CceSendSync,
    UncachedAccess, MemCommand
<1>7. QED
  BY <1>1, <1>2, <1>3, <1>4, <1>5, <1>6 DEF CceStep, CceFsmStep

----------------------------------------------------------------------------
(* What writes what: the caches.                                           *)

(* The steps that touch the command a cache holds.                       *)
LEMMA LceCmdBy ==
  ASSUME NEW l \in LCE, LceStep(l)
  PROVE  \/ lceCmd' = lceCmd
         \/ LceHead(l) \/ LceSync(l) \/ LceInv(l) \/ LceUcStDone(l) \/ LceUcData(l)
         \/ LceCohAck(l) \/ LceTr(l) \/ LceWb(l) \/ LceWbDirtySend(l)
<1>1. CASE \/ LceReset(l) \/ LceClear(l) \/ LceData(l) \/ LceStWakeup(l)
            \/ LceStWb(l) \/ LceStTr(l) \/ LceWbStatRd(l)
  BY <1>1 DEF LceReset, LceClear, LceData, LceStWakeup, LceStWb, LceStTr, LceWbStatRd
<1>2. CASE \/ LceWbDirtyRd(l) \/ LceTagOnly(l) \/ LceDataOnly(l) \/ LceStatOnly(l)
            \/ LceSendReq(l)
            \/ (\E b \in Block, w \in Way, d \in Data : CoreStore(l, b, w, d))
            \/ (\E b \in Block, op \in CoreOps, w \in Way : CoreMiss(l, b, op, w))
  BY <1>2 DEF LceWbDirtyRd, LceTagOnly, LceDataOnly, LceStatOnly, LceSendReq,
    CoreStore, CoreMiss, lceVars
<1>3. CASE \/ CoreReplay(l) \/ LockExpire(l) \/ (\E a \in IoBlock : CoreUcLoad(l, a))
            \/ (\E a \in IoBlock, d \in Data : CoreUcStore(l, a, d))
  BY <1>3 DEF CoreUcLoad, CoreUcStore, CoreReplay, LockExpire, lceVars
<1>4. QED
  BY <1>1, <1>2, <1>3 DEF LceStep, LceCmdStep, LcePartialStep, CoreStep

(* The steps that move the state machine of a cache.                     *)
LEMMA LceStateBy ==
  ASSUME NEW l \in LCE, LceStep(l)
  PROVE  \/ lceState' = lceState
         \/ LceReset(l) \/ LceClear(l) \/ LceData(l) \/ LceStWakeup(l) \/ LceStWb(l)
         \/ LceStTr(l) \/ LceCohAck(l) \/ LceTr(l) \/ LceWbStatRd(l) \/ LceWb(l)
         \/ LceWbDirtyRd(l) \/ LceWbDirtySend(l)
<1>1. CASE \/ LceHead(l) \/ LceSync(l) \/ LceInv(l) \/ LceUcStDone(l) \/ LceUcData(l)
            \/ LceTagOnly(l) \/ LceDataOnly(l)
  BY <1>1 DEF LceHead, LceSync, LceInv, LceUcStDone, LceUcData, LceTagOnly,
    LceDataOnly, lceVars
<1>2. CASE \/ LceStatOnly(l) \/ LceSendReq(l) \/ CoreReplay(l)
            \/ (\E b \in Block, w \in Way, d \in Data : CoreStore(l, b, w, d))
            \/ (\E b \in Block, op \in CoreOps, w \in Way : CoreMiss(l, b, op, w))
            \/ (\E a \in IoBlock : CoreUcLoad(l, a))
            \/ (\E a \in IoBlock, d \in Data : CoreUcStore(l, a, d))
  BY <1>2 DEF LceStatOnly, LceSendReq, CoreStore, CoreMiss, CoreUcLoad, CoreUcStore,
    CoreReplay, lceVars
<1>3. CASE \/ LockExpire(l)
  BY <1>3 DEF LockExpire, lceVars
<1>4. QED
  BY <1>1, <1>2, <1>3 DEF LceStep, LceCmdStep, LcePartialStep, CoreStep

(* The steps that send responses.                                        *)
LEMMA LceRespBy ==
  ASSUME NEW l \in LCE, LceStep(l)
  PROVE  \/ respNet' = respNet
         \/ LceSync(l) \/ LceInv(l) \/ LceCohAck(l) \/ LceWb(l) \/ LceWbDirtySend(l)
<1>1. CASE \/ LceReset(l) \/ LceClear(l) \/ LceHead(l) \/ LceData(l)
            \/ LceStWakeup(l) \/ LceStWb(l) \/ LceStTr(l)
  BY <1>1 DEF LceReset, LceClear, LceHead, LceData, LceStWakeup, LceStWb, LceStTr,
    netVars
<1>2. CASE \/ LceUcStDone(l) \/ LceUcData(l) \/ LceTr(l) \/ LceWbStatRd(l)
            \/ LceWbDirtyRd(l) \/ LceTagOnly(l) \/ LceDataOnly(l)
  BY <1>2 DEF LceUcStDone, LceUcData, LceTr, LceWbStatRd, LceWbDirtyRd, LceTagOnly,
    LceDataOnly, netVars
<1>3. CASE \/ LceStatOnly(l) \/ LceSendReq(l) \/ CoreReplay(l)
            \/ (\E b \in Block, w \in Way, d \in Data : CoreStore(l, b, w, d))
            \/ (\E b \in Block, op \in CoreOps, w \in Way : CoreMiss(l, b, op, w))
            \/ (\E a \in IoBlock : CoreUcLoad(l, a))
            \/ (\E a \in IoBlock, d \in Data : CoreUcStore(l, a, d))
  BY <1>3 DEF LceStatOnly, LceSendReq, CoreStore, CoreMiss, CoreUcLoad, CoreUcStore,
    CoreReplay, netVars
<1>4. CASE \/ LockExpire(l)
  BY <1>4 DEF LockExpire, netVars
<1>5. QED
  BY <1>1, <1>2, <1>3, <1>4 DEF LceStep, LceCmdStep, LcePartialStep, CoreStep

(* The steps that touch the commands in flight.                          *)
LEMMA LceNetBy ==
  ASSUME NEW l \in LCE, LceStep(l)
  PROVE  \/ cmdNet' = cmdNet
         \/ LceHead(l) \/ LceTr(l)
<1>1. CASE \/ LceReset(l) \/ LceClear(l) \/ LceSync(l) \/ LceInv(l) \/ LceData(l)
            \/ LceStWakeup(l) \/ LceStWb(l)
  BY <1>1 DEF LceReset, LceClear, LceSync, LceInv, LceData, LceStWakeup, LceStWb,
    netVars
<1>2. CASE \/ LceStTr(l) \/ LceUcStDone(l) \/ LceUcData(l) \/ LceCohAck(l)
            \/ LceWbStatRd(l) \/ LceWb(l) \/ LceWbDirtyRd(l)
  BY <1>2 DEF LceStTr, LceUcStDone, LceUcData, LceCohAck, LceWbStatRd, LceWb,
    LceWbDirtyRd, netVars
<1>3. CASE \/ LceWbDirtySend(l) \/ LceTagOnly(l) \/ LceDataOnly(l) \/ LceStatOnly(l)
            \/ LceSendReq(l)
            \/ (\E b \in Block, w \in Way, d \in Data : CoreStore(l, b, w, d))
            \/ (\E b \in Block, op \in CoreOps, w \in Way : CoreMiss(l, b, op, w))
  BY <1>3 DEF LceWbDirtySend, LceTagOnly, LceDataOnly, LceStatOnly, LceSendReq,
    CoreStore, CoreMiss, netVars
<1>4. CASE \/ CoreReplay(l) \/ LockExpire(l) \/ (\E a \in IoBlock : CoreUcLoad(l, a))
            \/ (\E a \in IoBlock, d \in Data : CoreUcStore(l, a, d))
  BY <1>4 DEF CoreUcLoad, CoreUcStore, CoreReplay, LockExpire, netVars
<1>5. QED
  BY <1>1, <1>2, <1>3, <1>4 DEF LceStep, LceCmdStep, LcePartialStep, CoreStep

(* The steps that send requests.                                         *)
LEMMA LceReqBy ==
  ASSUME NEW l \in LCE, LceStep(l)
  PROVE  \/ reqNet' = reqNet
         \/ LceSendReq(l) \/ (\E a \in IoBlock, d \in Data : CoreUcStore(l, a, d))
<1>1. CASE \/ LceReset(l) \/ LceClear(l) \/ LceHead(l) \/ LceSync(l) \/ LceInv(l)
            \/ LceData(l) \/ LceStWakeup(l)
  BY <1>1 DEF LceReset, LceClear, LceHead, LceSync, LceInv, LceData, LceStWakeup,
    netVars
<1>2. CASE \/ LceStWb(l) \/ LceStTr(l) \/ LceUcStDone(l) \/ LceUcData(l)
            \/ LceCohAck(l) \/ LceTr(l) \/ LceWbStatRd(l)
  BY <1>2 DEF LceStWb, LceStTr, LceUcStDone, LceUcData, LceCohAck, LceTr,
    LceWbStatRd, netVars
<1>3. CASE \/ LceWb(l) \/ LceWbDirtyRd(l) \/ LceWbDirtySend(l) \/ LceTagOnly(l)
            \/ LceDataOnly(l) \/ LceStatOnly(l)
            \/ (\E b \in Block, w \in Way, d \in Data : CoreStore(l, b, w, d))
  BY <1>3 DEF LceWb, LceWbDirtyRd, LceWbDirtySend, LceTagOnly, LceDataOnly,
    LceStatOnly, CoreStore, netVars
<1>4. CASE \/ CoreReplay(l) \/ LockExpire(l)
            \/ (\E b \in Block, op \in CoreOps, w \in Way : CoreMiss(l, b, op, w))
            \/ (\E a \in IoBlock : CoreUcLoad(l, a))
  BY <1>4 DEF CoreMiss, CoreUcLoad, CoreReplay, LockExpire, netVars
<1>5. QED
  BY <1>1, <1>2, <1>3, <1>4 DEF LceStep, LceCmdStep, LcePartialStep, CoreStep

(* The steps that touch the misses.                                      *)
LEMMA MissBy ==
  ASSUME NEW l \in LCE, LceStep(l)
  PROVE  \/ miss' = miss
         \/ LceUcData(l) \/ LceCohAck(l) \/ LceSendReq(l) \/ CoreReplay(l)
         \/ LockExpire(l)
         \/ (\E b \in Block, op \in CoreOps, w \in Way : CoreMiss(l, b, op, w))
         \/ (\E a \in IoBlock : CoreUcLoad(l, a))
<1>1. CASE \/ LceReset(l) \/ LceClear(l) \/ LceHead(l) \/ LceSync(l) \/ LceInv(l)
            \/ LceData(l) \/ LceStWakeup(l)
  BY <1>1 DEF LceReset, LceClear, LceHead, LceSync, LceInv, LceData, LceStWakeup,
    coreVars
<1>2. CASE \/ LceStWb(l) \/ LceStTr(l) \/ LceUcStDone(l) \/ LceTr(l)
            \/ LceWbStatRd(l) \/ LceWb(l) \/ LceWbDirtyRd(l)
  BY <1>2 DEF LceStWb, LceStTr, LceUcStDone, LceTr, LceWbStatRd, LceWb, LceWbDirtyRd,
    coreVars
<1>3. CASE \/ LceWbDirtySend(l) \/ LceTagOnly(l) \/ LceDataOnly(l) \/ LceStatOnly(l)
            \/ (\E b \in Block, w \in Way, d \in Data : CoreStore(l, b, w, d))
            \/ (\E a \in IoBlock, d \in Data : CoreUcStore(l, a, d))
  BY <1>3 DEF LceWbDirtySend, LceTagOnly, LceDataOnly, LceStatOnly, CoreStore,
    CoreUcStore, coreVars
<1>4. QED
  BY <1>1, <1>2, <1>3 DEF LceStep, LceCmdStep, LcePartialStep, CoreStep

(* The steps that touch the tags.                                        *)
LEMMA TagBy ==
  ASSUME NEW l \in LCE, LceStep(l)
  PROVE  \/ tag' = tag
         \/ LceClear(l) \/ LceInv(l) \/ LceData(l) \/ LceStWakeup(l) \/ LceStWb(l)
         \/ LceStTr(l) \/ LceTagOnly(l)
<1>1. CASE \/ LceReset(l) \/ LceHead(l) \/ LceSync(l) \/ LceUcStDone(l)
            \/ LceUcData(l) \/ LceCohAck(l) \/ LceTr(l)
  BY <1>1 DEF LceReset, LceHead, LceSync, LceUcStDone, LceUcData, LceCohAck, LceTr,
    cacheVars
<1>2. CASE \/ LceWbStatRd(l) \/ LceWb(l) \/ LceWbDirtyRd(l) \/ LceWbDirtySend(l)
            \/ LceDataOnly(l) \/ LceStatOnly(l) \/ LceSendReq(l)
  BY <1>2 DEF LceWbStatRd, LceWb, LceWbDirtyRd, LceWbDirtySend, LceDataOnly,
    LceStatOnly, LceSendReq, cacheVars
<1>3. CASE \/ CoreReplay(l) \/ LockExpire(l)
            \/ (\E b \in Block, w \in Way, d \in Data : CoreStore(l, b, w, d))
            \/ (\E b \in Block, op \in CoreOps, w \in Way : CoreMiss(l, b, op, w))
            \/ (\E a \in IoBlock : CoreUcLoad(l, a))
            \/ (\E a \in IoBlock, d \in Data : CoreUcStore(l, a, d))
  BY <1>3 DEF CoreStore, CoreMiss, CoreUcLoad, CoreUcStore, CoreReplay, LockExpire,
    cacheVars
<1>4. QED
  BY <1>1, <1>2, <1>3 DEF LceStep, LceCmdStep, LcePartialStep, CoreStep

(* The steps that touch the data.                                        *)
LEMMA LineBy ==
  ASSUME NEW l \in LCE, LceStep(l)
  PROVE  \/ line' = line
         \/ LceData(l) \/ LceDataOnly(l) \/ CoreReplay(l)
         \/ (\E b \in Block, w \in Way, d \in Data : CoreStore(l, b, w, d))
<1>1. CASE \/ LceReset(l) \/ LceClear(l) \/ LceHead(l) \/ LceSync(l) \/ LceInv(l)
            \/ LceStWakeup(l) \/ LceStWb(l)
  BY <1>1 DEF LceReset, LceClear, LceHead, LceSync, LceInv, LceStWakeup, LceStWb,
    cacheVars
<1>2. CASE \/ LceStTr(l) \/ LceUcStDone(l) \/ LceUcData(l) \/ LceCohAck(l)
            \/ LceTr(l) \/ LceWbStatRd(l) \/ LceWb(l)
  BY <1>2 DEF LceStTr, LceUcStDone, LceUcData, LceCohAck, LceTr, LceWbStatRd, LceWb,
    cacheVars
<1>3. CASE \/ LceWbDirtyRd(l) \/ LceWbDirtySend(l) \/ LceTagOnly(l) \/ LceStatOnly(l)
            \/ LceSendReq(l)
            \/ (\E b \in Block, op \in CoreOps, w \in Way : CoreMiss(l, b, op, w))
            \/ (\E a \in IoBlock : CoreUcLoad(l, a))
  BY <1>3 DEF LceWbDirtyRd, LceWbDirtySend, LceTagOnly, LceStatOnly, LceSendReq,
    CoreMiss, CoreUcLoad, cacheVars
<1>4. CASE \/ LockExpire(l) \/ (\E a \in IoBlock, d \in Data : CoreUcStore(l, a, d))
  BY <1>4 DEF CoreUcStore, LockExpire, cacheVars
<1>5. QED
  BY <1>1, <1>2, <1>3, <1>4 DEF LceStep, LceCmdStep, LcePartialStep, CoreStep

(* The steps that touch the dirty bits.                                  *)
LEMMA DirtyBy ==
  ASSUME NEW l \in LCE, LceStep(l)
  PROVE  \/ dirty' = dirty
         \/ LceClear(l) \/ LceStTr(l) \/ LceWbDirtyRd(l) \/ LceStatOnly(l)
         \/ CoreReplay(l)
         \/ (\E b \in Block, w \in Way, d \in Data : CoreStore(l, b, w, d))
<1>1. CASE \/ LceReset(l) \/ LceHead(l) \/ LceSync(l) \/ LceInv(l) \/ LceData(l)
            \/ LceStWakeup(l) \/ LceStWb(l)
  BY <1>1 DEF LceReset, LceHead, LceSync, LceInv, LceData, LceStWakeup, LceStWb,
    cacheVars
<1>2. CASE \/ LceUcStDone(l) \/ LceUcData(l) \/ LceCohAck(l) \/ LceTr(l)
            \/ LceWbStatRd(l) \/ LceWb(l) \/ LceWbDirtySend(l)
  BY <1>2 DEF LceUcStDone, LceUcData, LceCohAck, LceTr, LceWbStatRd, LceWb,
    LceWbDirtySend, cacheVars
<1>3. CASE \/ LceTagOnly(l) \/ LceDataOnly(l) \/ LceSendReq(l) \/ LockExpire(l)
            \/ (\E b \in Block, op \in CoreOps, w \in Way : CoreMiss(l, b, op, w))
            \/ (\E a \in IoBlock : CoreUcLoad(l, a))
            \/ (\E a \in IoBlock, d \in Data : CoreUcStore(l, a, d))
  BY <1>3 DEF LceTagOnly, LceDataOnly, LceSendReq, CoreMiss, CoreUcLoad, CoreUcStore,
    LockExpire, cacheVars
<1>4. QED
  BY <1>1, <1>2, <1>3 DEF LceStep, LceCmdStep, LcePartialStep, CoreStep

----------------------------------------------------------------------------
(* The engine and its request.                                             *)

(* A cache takes its own commands from the network.                        *)
LEMMA HeldLce ==
  ASSUME IInv, SerialInv, NEW l \in LCE, LceStep(l)
  PROVE  HeldDst'
<1>1. CASE LceHead(l)
  BY <1>1 DEF LceHead, SerialInv, HeldDst, IInv, LceOK, LceTypeOK
<1>2. CASE ~LceHead(l)
  <2>1. \A k \in LCE : lceCmd'[k] = lceCmd[k] \/ lceCmd'[k] = None
    BY <1>2, LceCmdBy DEF LceSync, LceInv, LceUcStDone, LceUcData, LceCohAck, LceTr,
      LceWb, LceWbDirtySend, Dequeue, IInv, LceOK, LceTypeOK
  <2>2. QED
    BY <2>1 DEF SerialInv, HeldDst
<1>3. QED
  BY <1>1, <1>2

(* What an engine works for stays as it was taken.                         *)
SameRequest(c) ==
  /\ mshr'[c].lce = mshr[c].lce /\ mshr'[c].addr = mshr[c].addr
  /\ mshr'[c].lru = mshr[c].lru /\ mshr'[c].write = mshr[c].write
  /\ mshr'[c].nonExcl = mshr[c].nonExcl

(* An engine keeps its request but when it accepts or finishes one.        *)
LEMMA FsmStays ==
  ASSUME IInv, NEW c \in CCE, CceStep(c)
  PROVE  \/ SameRequest(c)
         \/ (\E l \in LCE : CceReady(c, l)) \/ CceUcReq(c) \/ CceResolve(c)
<1>1. CASE CceReadDir(c)
  BY <1>1, ReadDirMshr DEF SameRequest
<1>2. CASE CceReplacementWbResp(c)
  BY <1>2 DEF CceReplacementWbResp, SameRequest, IInv, CceOK, CceTypeOK, Mshr
<1>3. CASE ~CceReadDir(c) /\ ~CceReplacementWbResp(c)
  <2>1. CASE mshr' = mshr
    BY <2>1 DEF SameRequest
  <2>2. CASE mshr' # mshr
    <3>1. CASE \/ CceReset(c) \/ CceClearDir(c) \/ CceLeaveUncached(c) \/ CceSyncAck(c)
               \/ CceReadPending(c) \/ CceDeqReq(c) \/ CceReadMemSpec(c) \/ CceWriteNextState(c)
      BY <2>2, <3>1 DEF CceReset, CceClearDir, CceLeaveUncached, CceSyncAck, CceReadPending,
        CceDeqReq, CceReadMemSpec, CceWriteNextState
    <3>2. CASE \/ CceReplacement(c) \/ CceInvCmd(c) \/ CceInvAck(c) \/ CceUpgrade(c) \/ CceTransfer(c)
               \/ CceTransferWbResp(c) \/ \E l \in LCE : CceSendSync(c, l)
      BY <2>2, <3>2 DEF CceReplacement, CceInvCmd, CceInvAck, CceUpgrade, CceTransfer,
        CceTransferWbResp, CceSendSync
    <3>3. QED
      BY <1>3, <2>2, <3>1, <3>2, FsmBy
  <2>3. QED
    BY <2>1, <2>2
<1>4. QED
  BY <1>1, <1>2, <1>3

(* Where the state machine goes with a cached request.                     *)
Moves1 == {<<"read_pending", "deq_lce_req">>, <<"deq_lce_req", "read_mem_spec">>,
           <<"read_mem_spec", "read_dir">>, <<"read_dir", "write_next_state">>,
           <<"replacement", "replacement_wb_resp">>, <<"inv_cmd", "inv_cmd">>,
           <<"inv_cmd", "inv_ack">>, <<"inv_ack", "inv_ack">>,
           <<"upgrade_stw_cmd", "resolve_speculation">>,
           <<"transfer", "resolve_speculation">>, <<"transfer", "transfer_wb_resp">>,
           <<"transfer_wb_resp", "resolve_speculation">>}
After == {"inv_cmd", "upgrade_stw_cmd", "transfer", "resolve_speculation"}
StateMove(s, t) ==
  \/ t = s
  \/ <<s, t>> \in Moves1
  \/ s = "write_next_state" /\ t \in After \cup {"replacement"}
  \/ s = "replacement_wb_resp" /\ t \in After
  \/ s = "inv_ack" /\ t \in After \ {"inv_cmd"}
  \/ s = "ready" /\ t \in {"read_pending", "uc_req"}
  \/ s \in {"uc_req", "resolve_speculation"} /\ t = "ready"
  \/ s \notin Cached \cup {"ready", "uc_req"} /\ t \notin Cached \cup {"uc_req"}

(* Every step of an engine is an edge of StateMove.                        *)
LEMMA StateMoves ==
  ASSUME IInv, SerialInv, NEW c \in CCE, CceStep(c)
  PROVE  StateMove(cceState[c], cceState'[c])
<1> USE DEF StateMove, Goto, IInv, CceOK, CceTypeOK
<1>1. CASE cceState' = cceState
  BY <1>1
<1>2. CASE \/ CceReset(c) \/ CceClearDir(c) \/ CceLeaveUncached(c) \/ CceSyncAck(c)
           \/ CceUcReq(c) \/ \E l \in LCE : CceReady(c, l) \/ CceSendSync(c, l)
  BY <1>2 DEF CceReset, CceClearDir, CceLeaveUncached, CceSyncAck, CceUcReq, CceReady,
    CceSendSync, Cached
<1>3. CASE \/ CceReadPending(c) \/ CceDeqReq(c) \/ CceReadMemSpec(c) \/ CceReadDir(c)
           \/ CceReplacement(c) \/ CceInvCmd(c)
  BY <1>3 DEF CceReadPending, CceDeqReq, CceReadMemSpec, CceReadDir, CceReplacement,
    CceInvCmd, Moves1
<1>4. CASE CceWriteNextState(c)
  BY <1>4 DEF CceWriteNextState, StartInvOrFill, FillStep, After
<1>5. CASE CceReplacementWbResp(c)
  BY <1>5 DEF CceReplacementWbResp, StartInvOrFill, FillStep, After
<1>6. CASE CceInvAck(c)
  BY <1>6 DEF CceInvAck, AfterInvAck, FillStep, After, Moves1, SerialInv, MshrInv, MshrFlagsOK
<1>7. CASE \/ CceUpgrade(c) \/ CceTransfer(c) \/ CceTransferWbResp(c) \/ CceResolve(c)
  BY <1>7 DEF CceUpgrade, CceTransfer, CceTransferWbResp, CceResolve, Moves1
<1>8. QED
  BY <1>1, <1>2, <1>3, <1>4, <1>5, <1>6, <1>7, FsmBy

(* An engine serves the blocks of its own sets only.                       *)
LEMMA HomeKept ==
  ASSUME IInv, SerialInv, NEW c \in CCE, CceStep(c)
  PROVE  MshrHome'
<1>1. CASE \E l \in LCE : CceReady(c, l)
  <2>1. PICK l \in LCE : CceReady(c, l)
    BY <1>1
  <2>2. PICK r : r = Head(reqNet[<<l, c>>])
    OBVIOUS
  <2>3. reqNet[<<l, c>>] # <<>> /\ reqNet[<<l, c>>] \in Seq(Request) /\ r \in Request
    BY <2>1, <2>2, ReqHead, Channel DEF CceReady, IInv
  <2>4. 1 \in DOMAIN reqNet[<<l, c>>] /\ r = reqNet[<<l, c>>][1]
    BY <2>2, <2>3
  <2>5. Home(r.addr) = c
    BY <2>4 DEF SerialInv, ReqInv, ReqHome
  <2>6. MshrOf(r).addr = r.addr
    BY <2>3, RequestFields DEF MshrOf, NoMshr
  <2>7. mshr'[c].addr = r.addr
    BY <2>1, <2>2, <2>6 DEF CceReady, IInv, CceOK, CceTypeOK
  <2>8. QED
    BY <2>5, <2>7, CceOthers DEF MshrHome, SerialInv, MshrInv, Home
<1>2. CASE CceUcReq(c) \/ CceResolve(c)
  <2>1. cceState'[c] = "ready"
    BY <1>2 DEF CceUcReq, CceResolve, Goto, IInv, CceOK, CceTypeOK
  <2>2. QED
    BY <2>1, CceOthers DEF MshrHome, SerialInv, MshrInv, Home, Cached
<1>3. CASE SameRequest(c) /\ ~\E l \in LCE : CceReady(c, l)
  <2>1. cceState'[c] \in Cached => cceState[c] \in Cached
    <3>1. cceState[c] = "ready" => cceState'[c] \notin Cached
      BY <1>3, FsmBy DEF CceReset, CceClearDir, CceLeaveUncached, CceSyncAck, CceUcReq,
       CceReadPending, CceDeqReq, CceReadMemSpec, CceReadDir, CceWriteNextState, CceReplacement,
       CceReplacementWbResp, CceInvCmd, CceInvAck, CceUpgrade, CceTransfer, CceTransferWbResp,
       CceResolve, CceSendSync, Cached
    <3>2. QED
      BY <3>1, StateMoves, SMTT(40) DEF StateMove, Moves1, After, Cached
  <2>2. QED
    BY <1>3, <2>1, CceOthers DEF MshrHome, SerialInv, MshrInv, Home, SameRequest
<1>4. QED
  BY <1>1, <1>2, <1>3, FsmStays

(* The head of a channel stays when a request joins its end.               *)
LEMMA SentHead ==
  ASSUME IInv, NEW l \in LCE, NEW c \in CCE, NEW r \in Request, Sent(l, c, r),
         NEW k \in LCE, NEW d \in CCE, reqNet[<<k, d>>] # <<>>
  PROVE  Head(reqNet'[<<k, d>>]) = Head(reqNet[<<k, d>>])
<1>1. PICK q : q = reqNet[<<k, d>>]
  OBVIOUS
<1>2. q \in Seq(Request) /\ q # <<>>
  BY <1>1, Channel
<1>3. Head(Append(q, r)) = Head(q)
  BY <1>2
<1>4. reqNet'[<<k, d>>] = q \/ reqNet'[<<k, d>>] = Append(q, r)
  BY <1>1 DEF Sent, IInv, NetTypeOK
<1>5. QED
  BY <1>1, <1>3, <1>4

(* A cache sends at most one request in a step.                            *)
LEMMA LceSends ==
  ASSUME IInv, SerialInv, NEW l \in LCE, LceStep(l)
  PROVE  \/ reqNet' = reqNet
         \/ \E c \in CCE, r \in Request : Sent(l, c, r)
<1>1. CASE LceSendReq(l)
  BY <1>1, ReqMiss DEF SerialInv
<1>2. CASE \E a \in IoBlock, d \in Data : CoreUcStore(l, a, d)
  <2>1. PICK a \in IoBlock, d \in Data : CoreUcStore(l, a, d)
    BY <1>2
  <2>2. PICK r : r = [op |-> "uc_wr", src |-> l, addr |-> a, data |-> d]
    OBVIOUS
  <2>3. r \in Request
    BY <2>2 DEF Request, UcOp
  <2>4. Home(r.addr) \in CCE
    BY <2>2, ConstantsAssumption DEF Home
  <2>5. Sent(l, Home(r.addr), r)
    BY <2>1, <2>2 DEF CoreUcStore, SendReq, Sent
  <2>6. QED
    BY <2>3, <2>4, <2>5
<1>3. QED
  BY <1>1, <1>2, LceReqBy

(* What a cache does leaves the head of its channel alone.                 *)
LEMMA TakingLce ==
  ASSUME IInv, SerialInv, NEW l \in LCE, LceStep(l)
  PROVE  MshrTaking'
<1> SUFFICES ASSUME NEW c \in CCE, cceState'[c] \in {"read_pending", "deq_lce_req"}
             PROVE  Loaded(c, Head(reqNet[<<mshr[c].lce, c>>]))'
  BY DEF MshrTaking
<1>1. UNCHANGED <<cceState, mshr>>
  BY LceLeaves
<1>2. PICK k : k = mshr[c].lce
  OBVIOUS
<1>3. k \in LCE /\ reqNet[<<k, c>>] # <<>>
  BY <1>1, <1>2 DEF IInv, ReqWF, Taking
<1>4. Head(reqNet'[<<k, c>>]) = Head(reqNet[<<k, c>>])
  BY <1>3, LceSends, SentHead
<1>5. Loaded(c, Head(reqNet[<<k, c>>]))
  BY <1>1, <1>2 DEF SerialInv, MshrInv, MshrTaking
<1>6. PICK r : r = Head(reqNet[<<k, c>>])
  OBVIOUS
<1>7. r = Head(reqNet'[<<mshr'[c].lce, c>>]) /\ Loaded(c, r)
  BY <1>1, <1>2, <1>4, <1>5, <1>6
<1>8. QED
  BY <1>1, <1>7 DEF Loaded

(* An engine takes requests from its own channels only.                    *)
LEMMA CceTakes ==
  ASSUME IInv, NEW c \in CCE, CceStep(c), NEW k \in LCE, NEW d \in CCE, d # c
  PROVE  reqNet'[<<k, d>>] = reqNet[<<k, d>>]
<1>1. CASE CceUcReq(c) \/ CceDeqReq(c)
  <2>1. mshr[c].lce \in LCE
    BY <1>1 DEF CceUcReq, CceDeqReq, IInv, ReqWF, Taking
  <2>2. QED
    BY <1>1, <2>1 DEF CceUcReq, CceDeqReq, DequeueReq, IInv, NetTypeOK
<1>2. CASE \E l \in LCE : CceUncachedOnly(c, l)
  BY <1>2 DEF CceUncachedOnly, IInv, NetTypeOK
<1>3. QED
  BY <1>1, <1>2, ReqBy

(* While a request is being taken its head stays what the MSHR holds.      *)
LEMMA TakingCce ==
  ASSUME IInv, SerialInv, NEW c \in CCE, CceStep(c)
  PROVE  MshrTaking'
<1> SUFFICES ASSUME NEW d \in CCE, cceState'[d] \in {"read_pending", "deq_lce_req"}
             PROVE  Loaded(d, Head(reqNet[<<mshr[d].lce, d>>]))'
  BY DEF MshrTaking
<1>1. CASE d # c
  <2>1. cceState'[d] = cceState[d] /\ mshr'[d] = mshr[d]
    BY <1>1, CceOthers
  <2>2. PICK k, r : k = mshr[d].lce /\ r = Head(reqNet[<<k, d>>])
    OBVIOUS
  <2>3. k \in LCE /\ Loaded(d, r)
    BY <2>1, <2>2 DEF IInv, ReqWF, Taking, SerialInv, MshrInv, MshrTaking
  <2>4. r = Head(reqNet'[<<mshr'[d].lce, d>>])
    BY <1>1, <2>1, <2>2, <2>3, CceTakes
  <2>5. QED
    BY <2>1, <2>3, <2>4 DEF Loaded
<1>2. CASE d = c /\ \E l \in LCE : CceReady(c, l)
  <2>1. PICK l \in LCE : CceReady(c, l)
    BY <1>2
  <2>2. PICK r : r = Head(reqNet[<<l, c>>])
    OBVIOUS
  <2>3. r \in Request /\ r.src = l /\ reqNet' = reqNet
    BY <2>1, <2>2, ReqHead, ReqHeadSrc DEF CceReady, IInv, netVars
  <2>4. r.op \in CacheOp
    BY <1>2, <2>1, <2>2 DEF CceReady, Goto, IInv, CceOK, CceTypeOK
  <2>5. PICK m : m = MshrOf(r)
    OBVIOUS
  <2>6. /\ m.lce = l /\ m.addr = r.addr /\ m.lru = r.lru
        /\ m.write = (r.op = "wr") /\ m.nonExcl = r.nonExcl
    BY <2>3, <2>4, <2>5, RequestFields DEF MshrOf, NoMshr
  <2>7. mshr'[c] = m
    BY <2>1, <2>2, <2>5 DEF CceReady, IInv, CceOK, CceTypeOK
  <2>8. r = Head(reqNet'[<<mshr'[c].lce, c>>])
    BY <2>2, <2>3, <2>6, <2>7
  <2>9. QED
    BY <1>2, <2>4, <2>6, <2>7, <2>8 DEF Loaded
<1>3. CASE d = c /\ ~\E l \in LCE : CceReady(c, l)
  <2>1. /\ cceState[c] \in {"read_pending", "deq_lce_req"} /\ reqNet' = reqNet
        /\ SameRequest(c)
    <3>1. CASE cceState' = cceState /\ mshr' = mshr
      <4>1. reqNet' = reqNet
        BY <1>3, <3>1, ReqBy DEF CceUcReq, CceDeqReq, CceUncachedOnly, Goto, IInv, CceOK, CceTypeOK
      <4>2. QED
        BY <1>3, <3>1, <4>1 DEF SameRequest
    <3>2. CASE CceReadPending(c)
      BY <1>3, <3>2 DEF CceReadPending, netVars, SameRequest
    <3>3. CASE \/ CceReset(c) \/ CceClearDir(c) \/ CceLeaveUncached(c) \/ CceSyncAck(c)
               \/ CceUcReq(c) \/ CceDeqReq(c) \/ CceReadMemSpec(c)
               \/ CceReadDir(c) \/ CceReplacement(c)
      BY <1>3, <3>3 DEF CceReset, CceClearDir, CceLeaveUncached, CceSyncAck, CceUcReq, CceDeqReq,
        CceReadMemSpec, CceReadDir, CceReplacement, Goto, IInv, CceOK, CceTypeOK
    <3>4. CASE \/ CceUpgrade(c) \/ CceTransfer(c)
               \/ CceTransferWbResp(c) \/ CceResolve(c) \/ CceInvCmd(c) \/ \E l \in LCE : CceSendSync(c, l)
      BY <1>3, <3>4 DEF CceUpgrade, CceTransfer, CceTransferWbResp, CceResolve, CceInvCmd, CceSendSync,
       Goto, IInv, CceOK, CceTypeOK
    <3>5. CASE CceWriteNextState(c) \/ CceReplacementWbResp(c) \/ CceInvAck(c)
      BY <1>3, <3>5, StateMoves DEF CceWriteNextState, CceReplacementWbResp, CceInvAck, StateMove, Moves1, After, Cached
    <3>6. QED
      BY <1>3, <3>1, <3>2, <3>3, <3>4, <3>5, FsmBy
  <2>2. PICK k, r : k = mshr[c].lce /\ r = Head(reqNet[<<k, c>>])
    OBVIOUS
  <2>3. Loaded(c, r)
    BY <2>1, <2>2 DEF SerialInv, MshrInv, MshrTaking
  <2>4. r = Head(reqNet'[<<mshr'[c].lce, c>>])
    BY <2>1, <2>2 DEF SameRequest
  <2>5. QED
    BY <1>3, <2>1, <2>3, <2>4 DEF Loaded, SameRequest
<1>4. QED
  BY <1>1, <1>2, <1>3

(* The flags an engine leaves e_write_next_state with fit its later        *)
(* states.                                                                 *)
LEMMA FlagsKept ==
  ASSUME IInv, SerialInv, NEW c \in CCE, CceStep(c)
  PROVE  MshrFlagsOK'
<1> USE DEF Goto
<1>1. \A d \in CCE : d # c => cceState'[d] = cceState[d] /\ mshr'[d] = mshr[d]
  BY CceOthers
<1>2. SUFFICES
        /\ cceState'[c] \in {"inv_cmd", "inv_ack", "upgrade_stw_cmd", "transfer",
                         "transfer_wb_resp", "resolve_speculation"} => ~mshr'[c].rf
        /\ cceState'[c] \in {"replacement", "replacement_wb_resp"} => mshr'[c].rf
        /\ cceState'[c] = "transfer_wb_resp" => mshr'[c].xf
  BY <1>1 DEF MshrFlagsOK, SerialInv, MshrInv
<1>3. CASE cceState' = cceState /\ mshr' = mshr
  BY <1>3 DEF MshrFlagsOK, SerialInv, MshrInv
<1>4. CASE CceWriteNextState(c)
  BY <1>4 DEF CceWriteNextState, StartInvOrFill, FillStep, IInv, CceOK, CceTypeOK
<1>5. CASE CceReplacementWbResp(c)
  <2>1. ~mshr'[c].rf
    BY <1>5 DEF CceReplacementWbResp, IInv, CceOK, CceTypeOK, Mshr
  <2>2. cceState'[c] \in After
    BY <1>5 DEF CceReplacementWbResp, StartInvOrFill, FillStep, After, IInv, CceOK, CceTypeOK
  <2>3. QED
    BY <2>1, <2>2 DEF After
<1>6. CASE CceInvAck(c)
  BY <1>6 DEF CceInvAck, AfterInvAck, FillStep, MshrFlagsOK, SerialInv, MshrInv, IInv, CceOK, CceTypeOK
<1>7. CASE CceTransfer(c)
  BY <1>7 DEF CceTransfer, MshrFlagsOK, SerialInv, MshrInv, IInv, CceOK, CceTypeOK, MshrWF
<1>8. CASE CceUpgrade(c) \/ CceTransferWbResp(c) \/ CceInvCmd(c) \/ CceReplacement(c)
  BY <1>8 DEF CceUpgrade, CceTransferWbResp, CceInvCmd, CceReplacement,
    MshrFlagsOK, SerialInv, MshrInv, IInv, CceOK, CceTypeOK
<1>9. CASE \/ CceReset(c) \/ CceClearDir(c) \/ CceLeaveUncached(c) \/ CceSyncAck(c)
           \/ CceUcReq(c) \/ CceReadPending(c) \/ CceDeqReq(c) \/ CceReadMemSpec(c)
           \/ CceReadDir(c) \/ CceResolve(c) \/ \E l \in LCE : CceReady(c, l) \/ CceSendSync(c, l)
  <2>1. CASE \/ CceReset(c) \/ CceClearDir(c) \/ CceLeaveUncached(c) \/ CceSyncAck(c)
             \/ CceUcReq(c) \/ CceReadPending(c) \/ CceDeqReq(c)
    BY <2>1 DEF CceReset, CceClearDir, CceLeaveUncached, CceSyncAck, CceUcReq, CceReadPending,
      CceDeqReq, IInv, CceOK, CceTypeOK
  <2>2. CASE \/ CceReadMemSpec(c) \/ CceReadDir(c) \/ CceResolve(c)
             \/ \E l \in LCE : CceReady(c, l) \/ CceSendSync(c, l)
    BY <2>2 DEF CceReadMemSpec, CceReadDir, CceResolve, CceReady, CceSendSync, IInv, CceOK, CceTypeOK
  <2>3. QED
    BY <1>9, <2>1, <2>2
<1>10. QED
  BY <1>3, <1>4, <1>5, <1>6, <1>7, <1>8, <1>9, FsmBy

(* The registers of the engines.                                           *)
LEMMA MshrCce ==
  ASSUME IInv, SerialInv, NEW c \in CCE, CceStep(c)
  PROVE  MshrInv'
BY HomeKept, TakingCce, FlagsKept DEF MshrInv

(* MshrInv is about the engines: a step of a cache keeps it.               *)
LEMMA MshrLce ==
  ASSUME IInv, SerialInv, NEW l \in LCE, LceStep(l)
  PROVE  MshrInv'
BY TakingLce, LceLeaves DEF MshrInv, MshrHome, MshrFlagsOK, SerialInv

----------------------------------------------------------------------------
(* Memory responses.                                                       *)

(* A write-back an engine gets is the one it waits for.                    *)
LEMMA WbMine ==
  ASSUME IInv, SerialInv, NEW c \in CCE, NEW m \in respNet, WbResp(c, m)
  PROVE  /\ cceState[c] \in {"replacement_wb_resp", "transfer_wb_resp"}
         /\ m.addr = WbAddr(c)
         /\ SetOf[m.addr] = ReqSet(c) /\ ReqSet(c) \in Set
         /\ HomeOf[ReqSet(c)] = c /\ m.addr \in Block
<1>1. cceState[c] \in {"replacement_wb_resp", "transfer_wb_resp"}
  <2>1. WbTok(c, "resp", m)
    BY DEF WbTok
  <2>2. QED
    BY <2>1 DEF SerialInv, WbInv, WbWaits
<1>2. m.addr = WbAddr(c)
  BY DEF SerialInv, WbInv, WbAsked
<1>3. ReqSet(c) \in Set /\ HomeOf[ReqSet(c)] = c
  BY <1>1, ReqSetIn DEF SerialInv, MshrInv, MshrHome, Cached, Home, IInv, CceOK, MshrWF, ReqSet
<1>4. SetOf[m.addr] = ReqSet(c)
  <2>1. cceState[c] = "replacement_wb_resp" => mshr[c].rf
    BY DEF SerialInv, MshrInv, MshrFlagsOK
  <2>2. QED
    BY <1>1, <1>2, <2>1 DEF SerialInv, DirSetInv, VictimSet, Decided, WbAddr, ReqSet
<1>5. m.addr \in Block
  BY ResponseFields DEF WbResp, IInv, NetTypeOK
<1>6. QED
  BY <1>1, <1>2, <1>3, <1>4, <1>5

(* What an engine appends to its memory responses.                         *)
ReadNew(c, r) ==
  /\ cceState[c] = "read_mem_spec" /\ CceReadMemSpec(c) /\ r.type = "rd"
  /\ r.addr = mshr[c].addr /\ r.lce = mshr[c].lce /\ r.way = mshr[c].lru
  /\ SetOf[r.addr] = ReqSet(c) /\ r.data = mem[r.addr]
WriteNew(c, r) ==
  /\ cceState[c] \in {"replacement_wb_resp", "transfer_wb_resp"} /\ r.type = "wr"
  /\ cceState'[c] \in After
  /\ SetOf[r.addr] = ReqSet(c)
  /\ \E m \in respNet : WbResp(c, m) /\ m.type = "wb" /\ r.addr = m.addr

(* What a step of an engine does to its memory responses and pending bits. *)
LEMMA MemMoves ==
  ASSUME IInv, SerialInv, NEW c \in CCE, CceStep(c)
  PROVE  \/ /\ memResp' = memResp
            /\ pending' = pending \/ CceDeqReq(c) \/ CohAck(c)
         \/ MemTaken(c) /\ MemRespStep(c)
         \/ \E r : /\ MemAdded(c, r)
                   /\ \/ r.type \in UcOp /\ (CceUcReq(c) \/ \E l \in LCE : CceUncachedOnly(c, l))
                      \/ ReadNew(c, r)
                      \/ WriteNew(c, r) /\ PendingInc(ReqSet(c))
<1>1. CASE MemRespStep(c)
  BY <1>1 DEF MemRespStep, MemRespSquash, MemRespFill, MemRespWriteback, MemRespUncached,
    MemDequeue, MemTaken
<1>2. CASE CceUcReq(c) \/ \E l \in LCE : CceUncachedOnly(c, l)
  <2>1. PICK r : UncachedAccess(c, r)
    BY <1>2 DEF CceUcReq, CceUncachedOnly
  <2>2. PICK n : MemCommand(c, n) /\ n.type \in UcOp
    BY <2>1 DEF UncachedAccess, UcOp
  <2>3. MemAdded(c, n)
    BY <2>2 DEF MemCommand, MemAdded
  <2>4. QED
    BY <1>2, <2>2, <2>3
<1>3. CASE CceReadMemSpec(c)
  <2>1. PICK r : /\ MemAdded(c, r) /\ r.type = "rd" /\ SetOf[r.addr] = ReqSet(c)
                /\ r.addr = mshr[c].addr /\ r.lce = mshr[c].lce
                /\ r.way = mshr[c].lru /\ r.data = mem[r.addr]
    BY <1>3, ReadAdded
  <2>2. cceState[c] = "read_mem_spec"
    BY <1>3 DEF CceReadMemSpec
  <2>3. QED
    BY <1>3, <2>1, <2>2 DEF ReadNew
<1>4. CASE CceReplacementWbResp(c) \/ CceTransferWbResp(c)
  <2>1. PICK m \in respNet : WritebackResp(c, m)
    BY <1>4 DEF CceReplacementWbResp, CceTransferWbResp
  <2>2. cceState[c] \in {"replacement_wb_resp", "transfer_wb_resp"} /\ cceState'[c] \in After
    BY <1>4 DEF CceReplacementWbResp, CceTransferWbResp, StartInvOrFill, FillStep, After,
      Goto, IInv, CceOK, CceTypeOK
  <2>3. CASE m.type = "null_wb"
    BY <2>1, <2>3 DEF WritebackResp, memVars
  <2>4. CASE m.type = "wb"
    <3>1. WbResp(c, m)
      BY <2>1, <2>4 DEF WbResp, WritebackResp
    <3>2. PICK r : r.type = "wr" /\ r.addr = m.addr /\ MemCommand(c, r)
      BY <2>1, <2>4 DEF WritebackResp
    <3>3. MemAdded(c, r)
      BY <3>2 DEF MemCommand, MemAdded
    <3>4. PendingInc(ReqSet(c))
      BY <2>1, <2>4, <3>1, WbMine DEF WritebackResp
    <3>5. WriteNew(c, r)
      BY <2>2, <2>4, <3>1, <3>2, WbMine DEF WriteNew
    <3>6. QED
      BY <3>3, <3>4, <3>5
  <2>5. QED
    BY <2>1, <2>3, <2>4 DEF WritebackResp
<1>5. QED
  BY <1>1, <1>2, <1>3, <1>4, MemRespBy, PendingBy DEF MemRespStep

(* Memory responses are of blocks of their own engine.                     *)
LEMMA HomeCce ==
  ASSUME IInv, SerialInv, NEW c \in CCE, CceStep(c)
  PROVE  HomeInv'
<1>0. HomeInv
  BY DEF SerialInv
<1>1. CASE memResp' = memResp
  BY <1>0, <1>1 DEF HomeInv
<1>2. CASE MemTaken(c)
  BY <1>0, <1>2, MemTakenFacts DEF HomeInv
<1>3. ASSUME NEW r, MemAdded(c, r), r.type \in {"rd", "wr"} => Home(r.addr) = c
      PROVE  HomeInv'
  BY <1>0, <1>3, MemAddedFacts DEF HomeInv
<1>4. ASSUME NEW r, ReadNew(c, r) \/ WriteNew(c, r)
      PROVE  Home(r.addr) = c
  <2>1. cceState[c] \in Cached /\ SetOf[r.addr] = ReqSet(c)
    BY <1>4 DEF ReadNew, WriteNew, Cached
  <2>2. QED
    BY <2>1 DEF Home, ReqSet, SerialInv, MshrInv, MshrHome
<1>5. QED
  BY <1>1, <1>2, <1>3, <1>4, MemMoves DEF UcOp

(* A step of a cache leaves them alone.                                    *)
LEMMA HomeLce ==
  ASSUME SerialInv, NEW l \in LCE, LceStep(l)
  PROVE  HomeInv'
BY LceLeaves DEF SerialInv, HomeInv

(* The operations of a way group, as its engine takes and adds them.       *)
OpOf(s) == {r \in MemResponse : r.type \in {"rd", "wr"} /\ SetOf[r.addr] = s}

(* The memory operations of a set are entries of one finite queue.         *)
LEMMA OpsAre ==
  ASSUME IInv, NEW s \in Set
  PROVE  /\ MemOpsFor(s) = Entries(memResp[HomeOf[s]], OpOf(s))
         /\ HomeOf[s] \in CCE /\ memResp[HomeOf[s]] \in Seq(MemResponse)
         /\ IsFiniteSet(MemOpsFor(s)) /\ Cardinality(MemOpsFor(s)) \in Nat
<1>1. HomeOf[s] \in CCE
  BY ConstantsAssumption
<1>2. memResp[HomeOf[s]] \in Seq(MemResponse)
  BY <1>1 DEF IInv, MemTypeOK
<1>3. MemOpsFor(s) = Entries(memResp[HomeOf[s]], OpOf(s))
  <2>1. \A i \in DOMAIN memResp[HomeOf[s]] : memResp[HomeOf[s]][i] \in MemResponse
    BY <1>2
  <2>2. QED
    BY <2>1 DEF MemOpsFor, OpOf, Entries
<1>4. IsFiniteSet(DOMAIN memResp[HomeOf[s]])
  <2>1. DOMAIN memResp[HomeOf[s]] = 1 .. Len(memResp[HomeOf[s]]) /\ Len(memResp[HomeOf[s]]) \in Nat
    BY <1>2
  <2>2. QED
    BY <2>1, FS_Interval
<1>5. IsFiniteSet(MemOpsFor(s))
  <2>1. MemOpsFor(s) \subseteq DOMAIN memResp[HomeOf[s]]
    BY <1>3 DEF Entries
  <2>2. QED
    BY <1>4, <2>1, FS_Subset
<1>6. QED
  BY <1>1, <1>2, <1>3, <1>5, FS_CardinalityType

----------------------------------------------------------------------------
(* The open requests of a set.                                             *)

(* What the pending bits of a way group count.                             *)
LEMMA Counts ==
  ASSUME IInv, SerialInv, NEW s \in Set
  PROVE  /\ IsFiniteSet(Open(s)) /\ Cardinality(Open(s)) \in Nat
         /\ IsFiniteSet(AcksFor(s)) /\ Cardinality(AcksFor(s)) \in Nat
         /\ IsFiniteSet(MemOpsFor(s)) /\ Cardinality(MemOpsFor(s)) \in Nat
         /\ pending[s] = Cardinality(Open(s)) + Cardinality(AcksFor(s))
                           + Cardinality(MemOpsFor(s))
         /\ Cardinality(Open(s)) + Cardinality(AcksFor(s)) <= 1
         /\ Cardinality(MemOpsFor(s)) <= OpsBound(s) /\ OpsBound(s) <= 3
         /\ pending[s] \in 0 .. 4
<1>1. IsFiniteSet(Open(s)) /\ Cardinality(Open(s)) \in Nat
  <2>1. Open(s) \subseteq LCE
    BY DEF Open
  <2>2. QED
    BY <2>1, FiniteAssumption, FS_Subset, FS_CardinalityType
<1>2. IsFiniteSet(AcksFor(s)) /\ Cardinality(AcksFor(s)) \in Nat
  BY FS_CardinalityType DEF SerialInv, PendInv
<1>3. IsFiniteSet(MemOpsFor(s)) /\ Cardinality(MemOpsFor(s)) \in Nat
  BY OpsAre
<1>4. pending[s] = Cardinality(Open(s)) + Cardinality(AcksFor(s)) + Cardinality(MemOpsFor(s))
  BY DEF SerialInv, PendInv
<1>5. /\ Cardinality(Open(s)) + Cardinality(AcksFor(s)) <= 1
      /\ Cardinality(MemOpsFor(s)) <= OpsBound(s)
  BY DEF SerialInv, OneInv, OpsInv
<1>6. OpsBound(s) <= 3 /\ OpsBound(s) \in Nat
  BY DEF OpsBound
<1>7. pending[s] \in 0 .. 4
  <2>1. PICK o, a, m : /\ o = Cardinality(Open(s)) /\ a = Cardinality(AcksFor(s))
                       /\ m = Cardinality(MemOpsFor(s))
    OBVIOUS
  <2>2. o \in Nat /\ a \in Nat /\ m \in Nat /\ o + a <= 1 /\ m <= 3 /\ pending[s] = o + a + m
    BY <1>1, <1>2, <1>3, <1>4, <1>5, <1>6, <2>1
  <2>3. QED
    BY <2>2
<1>8. QED
  BY <1>1, <1>2, <1>3, <1>4, <1>5, <1>6, <1>7

(* Cache l waits for a block of set s; it has a cached request for c.      *)
WaitsIn(l, s) ==
  miss[l].phase = "sent" /\ miss[l].op # "uc_rd" /\ SetOf[miss[l].addr] = s
Pends(l, c) ==
  \E i \in DOMAIN reqNet[<<l, c>>] : reqNet[<<l, c>>][i].op \in CacheOp

(* The open requests of a set, by the two facts that make one.             *)
LEMMA OpenIs ==
  ASSUME NEW s
  PROVE  Open(s) = {l \in LCE : WaitsIn(l, s) /\ ~Pends(l, HomeOf[s])}
BY DEF Open, WaitsIn, Pends, Range

(* The same in the next state.                                             *)
LEMMA OpenNext ==
  ASSUME NEW s
  PROVE  Open(s)' = {l \in LCE : WaitsIn(l, s)' /\ ~Pends(l, HomeOf[s])'}
BY DEF Open, WaitsIn, Pends, Range

(* They depend on the misses and the channels only.                        *)
LEMMA OpenFrame ==
  ASSUME UNCHANGED <<miss, reqNet>>, NEW s
  PROVE  Open(s)' = Open(s)
BY DEF Open

(* Uncached requests come and go.                                          *)
LEMMA PendsTaken ==
  ASSUME IInv, NEW l \in LCE, NEW c \in CCE, Taken(l, c), NEW k \in LCE, NEW d \in CCE,
         <<k, d>> # <<l, c>> \/ Head(reqNet[<<l, c>>]).op \notin CacheOp
  PROVE  Pends(k, d)' <=> Pends(k, d)
<1>1. CASE <<k, d>> # <<l, c>>
  BY <1>1, TakenFacts DEF Pends
<1>2. CASE <<k, d>> = <<l, c>>
  <2>1. reqNet[<<l, c>>][1].op \notin CacheOp
    BY <1>2, TakenFacts
  <2>2. ASSUME Pends(k, d)' PROVE Pends(k, d)
    BY <1>2, <2>2, TakenFacts DEF Pends
  <2>3. ASSUME Pends(k, d) PROVE Pends(k, d)'
    <3>1. PICK i \in DOMAIN reqNet[<<l, c>>] : reqNet[<<l, c>>][i].op \in CacheOp
      BY <1>2, <2>3 DEF Pends
    <3>2. i # 1
      BY <2>1, <3>1
    <3>3. i - 1 \in DOMAIN reqNet'[<<l, c>>] /\ reqNet'[<<l, c>>][i - 1].op \in CacheOp
      BY <3>1, <3>2, TakenFacts
    <3>4. QED
      BY <1>2, <3>3 DEF Pends
  <2>4. QED
    BY <2>2, <2>3
<1>3. QED
  BY <1>1, <1>2

(* A request sent is pending in its channel, and changes no other.         *)
LEMMA PendsSent ==
  ASSUME IInv, NEW l \in LCE, NEW c \in CCE, NEW r \in Request, Sent(l, c, r),
         NEW k \in LCE, NEW d \in CCE
  PROVE  Pends(k, d)' <=> Pends(k, d) \/ (k = l /\ d = c /\ r.op \in CacheOp)
<1>1. CASE <<k, d>> # <<l, c>>
  <2>1. reqNet'[<<k, d>>] = reqNet[<<k, d>>]
    BY <1>1 DEF Sent, IInv, NetTypeOK
  <2>2. ~(k = l /\ d = c)
    BY <1>1
  <2>3. QED
    BY <2>1, <2>2 DEF Pends
<1>2. CASE <<k, d>> = <<l, c>>
  <2>1. PICK n \in Nat :
              /\ n \notin DOMAIN reqNet[<<l, c>>]
              /\ DOMAIN reqNet'[<<l, c>>] = DOMAIN reqNet[<<l, c>>] \cup {n}
              /\ reqNet'[<<l, c>>][n] = r
              /\ \A i \in DOMAIN reqNet[<<l, c>>] :
                   reqNet'[<<l, c>>][i] = reqNet[<<l, c>>][i]
    BY SentFacts
  <2>2. QED
    BY <1>2, <2>1 DEF Pends
<1>3. QED
  BY <1>1, <1>2

(* The engine takes the request of a cache that waits.                     *)
LEMMA OpenDeq ==
  ASSUME IInv, SerialInv, NEW c \in CCE, CceDeqReq(c)
  PROVE  \A s \in Set :
           \/ Open(s)' = Open(s) /\ s # ReqSet(c)
           \/ /\ s = ReqSet(c) /\ mshr[c].lce \notin Open(s)
              /\ Open(s)' = Open(s) \cup {mshr[c].lce}
<1>1. PICK k, r, p : k = mshr[c].lce /\ r = Head(reqNet[<<k, c>>]) /\ p = ReqSet(c)
  OBVIOUS
<1>2. k \in LCE /\ Taken(k, c) /\ miss' = miss
  BY <1>1 DEF CceDeqReq, DequeueReq, MshrReq, Taken, IInv, ReqWF, Taking, coreVars
<1>3. Loaded(c, r)
  BY <1>1 DEF SerialInv, MshrInv, MshrTaking, CceDeqReq
<1>4. r = reqNet[<<k, c>>][1] /\ 1 \in DOMAIN reqNet[<<k, c>>]
  BY <1>1, <1>2, TakenFacts
<1>5. Blocking(k, c, 1)
  BY <1>3, <1>4 DEF Blocking, Loaded, CacheOp
<1>6. Asks(k, r)
  BY <1>2, <1>4, <1>5, SMTT(40) DEF SerialInv, ReqInv, ReqAsks
<1>7. WaitsIn(k, p) /\ \A s \in Set : WaitsIn(k, s) => s = p
  BY <1>1, <1>3, <1>6 DEF Loaded, Asks, WaitsIn, ReqSet, CacheOp
<1>8. HomeOf[p] = c
  BY <1>1 DEF SerialInv, MshrInv, MshrHome, Cached, CceDeqReq, Home, ReqSet
<1>9. Pends(k, c)
  BY <1>3, <1>4 DEF Pends, Loaded
<1>10. ~Pends(k, c)'
  <2> SUFFICES ASSUME NEW i \in DOMAIN reqNet'[<<k, c>>], reqNet'[<<k, c>>][i].op \in CacheOp
               PROVE  FALSE
    BY DEF Pends
  <2>1. /\ i + 1 \in DOMAIN reqNet[<<k, c>>] /\ i \in Nat /\ i # 0
        /\ reqNet'[<<k, c>>][i] = reqNet[<<k, c>>][i + 1]
    BY <1>2, TakenFacts
  <2>2. Blocking(k, c, i + 1) /\ i + 1 \in Nat
    BY <2>1 DEF Blocking, CacheOp
  <2>3. i + 1 = 1
    BY <1>2, <1>5, <2>2 DEF SerialInv, ReqInv, ReqOne
  <2>4. QED
    BY <2>1, <2>3
<1>11. \A l \in LCE, d \in CCE : <<l, d>> # <<k, c>> => (Pends(l, d)' <=> Pends(l, d))
  BY <1>2, PendsTaken
<1>12. \A l \in LCE : \A s : WaitsIn(l, s)' <=> WaitsIn(l, s)
  BY <1>2 DEF WaitsIn
<1>13. \A s \in Set : HomeOf[s] \in CCE
  BY ConstantsAssumption
<1>14. ASSUME NEW s \in Set, s # p PROVE Open(s)' = Open(s)
  <2>1. \A l \in LCE : WaitsIn(l, s) => (Pends(l, HomeOf[s])' <=> Pends(l, HomeOf[s]))
    BY <1>7, <1>11, <1>13, <1>14
  <2>2. QED
    BY <1>12, <2>1, OpenIs, OpenNext
<1>15. k \notin Open(p) /\ Open(p)' = Open(p) \cup {k}
  <2>1. \A l \in LCE : l # k => (Pends(l, c)' <=> Pends(l, c))
    BY <1>11
  <2>2. Open(p) = {l \in LCE : WaitsIn(l, p) /\ ~Pends(l, c)}
    BY <1>8, OpenIs
  <2>3. Open(p)' = {l \in LCE : WaitsIn(l, p) /\ ~Pends(l, c)'}
    BY <1>8, <1>12, OpenNext
  <2>4. QED
    BY <1>2, <1>7, <1>9, <1>10, <2>1, <2>2, <2>3
<1>16. QED
  BY <1>1, <1>14, <1>15

(* An engine opens a request only by dequeuing it.                         *)
LEMMA OpenCce ==
  ASSUME IInv, SerialInv, NEW c \in CCE, CceStep(c), ~CceDeqReq(c), NEW s \in Set
  PROVE  Open(s)' = Open(s)
<1>1. miss' = miss
  BY CceLeaves
<1>2. CASE reqNet' = reqNet
  BY <1>1, <1>2, OpenFrame
<1>3. CASE CceUcReq(c) \/ \E l \in LCE : CceUncachedOnly(c, l)
  <2>1. PICK k \in LCE : Taken(k, c) /\ Head(reqNet[<<k, c>>]).op \in UcOp
    <3>1. CASE CceUcReq(c)
      BY <3>1 DEF CceUcReq, IInv, ReqWF, Taking, DequeueReq, Taken
    <3>2. CASE \E l \in LCE : CceUncachedOnly(c, l)
      BY <3>2 DEF CceUncachedOnly, Taken
    <3>3. QED
      BY <1>3, <3>1, <3>2
  <2>2. \A l \in LCE, d \in CCE : Pends(l, d)' <=> Pends(l, d)
    BY <2>1, PendsTaken DEF UcOp, CacheOp
  <2>3. \A l \in LCE : WaitsIn(l, s)' <=> WaitsIn(l, s)
    BY <1>1 DEF WaitsIn
  <2>4. HomeOf[s] \in CCE
    BY ConstantsAssumption
  <2>5. QED
    BY <2>2, <2>3, <2>4, OpenIs, OpenNext
<1>4. QED
  BY <1>2, <1>3, ReqBy

(* A cache that sends its miss is not yet open: the request is on the way. *)
LEMMA OpenSend ==
  ASSUME IInv, SerialInv, NEW l \in LCE, LceSendReq(l), NEW s \in Set
  PROVE  Open(s)' = Open(s)
<1>1. PICK r, b : /\ b = miss[l].addr /\ Sent(l, Home(b), r) /\ r.addr = b
                  /\ r.op \in CacheOp \cup {"uc_rd"}
                  /\ r.op = "uc_rd" <=> miss[l].op = "uc_rd"
  <2>1. CASE miss[l].op = "uc_rd"
    <3>1. PICK r : r = [op |-> miss[l].op, src |-> l, addr |-> miss[l].addr, data |-> InitData]
      OBVIOUS
    <3>2. r.addr = miss[l].addr /\ r.op = "uc_rd"
      BY <2>1, <3>1
    <3>3. Sent(l, Home(r.addr), r)
      BY <2>1, <3>1 DEF LceSendReq, SendReq, Sent
    <3>4. QED
      BY <2>1, <3>2, <3>3
  <2>2. CASE miss[l].op # "uc_rd"
    <3>1. PICK r : r = [op |-> IF miss[l].op = "rd" THEN "rd" ELSE "wr", src |-> l,
                        addr |-> miss[l].addr, lru |-> miss[l].lru,
                        nonExcl |-> miss[l].op = "rd" /\ l \in ReadOnlyLCE]
      OBVIOUS
    <3>2. r.addr = miss[l].addr /\ r.op \in CacheOp
      BY <2>2, <3>1 DEF CacheOp
    <3>3. SendReq(l, r)
      BY <2>2, <3>1 DEF LceSendReq
    <3>4. Sent(l, Home(r.addr), r)
      BY <3>3 DEF SendReq, Sent
    <3>5. QED
      BY <2>2, <3>2, <3>4 DEF CacheOp
  <2>3. QED
    BY <2>1, <2>2
<1>2. PICK d \in CCE : d = Home(b)
  <2>1. b \in Addr
    BY <1>1 DEF LceSendReq, IInv, CoreOK, MissWF, Addr
  <2>2. QED
    BY <2>1, ConstantsAssumption DEF Home, Addr
<1>3. /\ miss[l].phase # "sent" /\ miss'[l].phase = "sent" /\ miss'[l].op = miss[l].op
      /\ miss'[l].addr = miss[l].addr
      /\ \A k \in LCE : k # l => miss'[k] = miss[k]
  BY DEF LceSendReq, IInv, CoreOK, CoreTypeOK, Miss
<1>4. \A e \in CCE : \A i \in DOMAIN reqNet[<<l, e>>] : reqNet[<<l, e>>][i].op \notin CacheOp
  <2> SUFFICES ASSUME NEW e \in CCE, NEW i \in DOMAIN reqNet[<<l, e>>],
                      reqNet[<<l, e>>][i].op \in CacheOp
               PROVE  FALSE
    OBVIOUS
  <2>1. i \in Nat
    BY Channel
  <2>2. Blocking(l, e, i)
    BY DEF Blocking, CacheOp
  <2>3. QED
    BY <1>3, <2>1, <2>2, NotSent DEF Unsent, SerialInv
<1>5. PICK n \in Nat :
              /\ \A k \in LCE, e \in CCE : <<k, e>> # <<l, d>> => reqNet'[<<k, e>>] = reqNet[<<k, e>>]
              /\ DOMAIN reqNet'[<<l, d>>] = DOMAIN reqNet[<<l, d>>] \cup {n}
              /\ reqNet'[<<l, d>>][n] = r
              /\ \A i \in DOMAIN reqNet[<<l, d>>] :
                   reqNet'[<<l, d>>][i] = reqNet[<<l, d>>][i]
  <2>1. PICK q : q = reqNet[<<l, d>>]
    OBVIOUS
  <2>2. q \in Seq(Request)
    BY <2>1, Channel
  <2>3. reqNet'[<<l, d>>] = Append(q, r)
    BY <1>1, <1>2, <2>1 DEF Sent, IInv, NetTypeOK
  <2>4. \A k \in LCE, e \in CCE : <<k, e>> # <<l, d>> => reqNet'[<<k, e>>] = reqNet[<<k, e>>]
    BY <1>1, <1>2 DEF Sent, IInv, NetTypeOK
  <2>5. /\ Len(q) \in Nat /\ DOMAIN q = 1 .. Len(q)
        /\ DOMAIN Append(q, r) = 1 .. (Len(q) + 1)
        /\ \A i \in 1 .. Len(q) : Append(q, r)[i] = q[i]
        /\ Append(q, r)[Len(q) + 1] = r
    BY <2>2, AppendFacts
  <2>6. DOMAIN Append(q, r) = DOMAIN q \cup {Len(q) + 1}
    BY <2>5
  <2>7. QED
    BY <2>1, <2>3, <2>4, <2>5, <2>6
<1>6. \A k \in LCE, e \in CCE : k # l => (Pends(k, e)' <=> Pends(k, e))
  <2> SUFFICES ASSUME NEW k \in LCE, NEW e \in CCE, k # l PROVE Pends(k, e)' <=> Pends(k, e)
    OBVIOUS
  <2>1. reqNet'[<<k, e>>] = reqNet[<<k, e>>]
    BY <1>5
  <2>2. QED
    BY <2>1 DEF Pends
<1>7. \A k \in LCE : k # l => (WaitsIn(k, s)' <=> WaitsIn(k, s))
  BY <1>3 DEF WaitsIn
<1>8. l \notin Open(s)
  BY <1>3 DEF Open
<1>9. l \notin Open(s)'
  <2> SUFFICES ASSUME WaitsIn(l, s)', ~Pends(l, HomeOf[s])' PROVE FALSE
    BY OpenNext
  <2>1. miss[l].op # "uc_rd" /\ SetOf[b] = s
    BY <1>1, <1>3 DEF WaitsIn
  <2>2. d = HomeOf[s] /\ r.op \in CacheOp
    BY <1>1, <1>2, <2>1 DEF Home
  <2>3. Pends(l, d)'
    BY <1>5, <2>2 DEF Pends
  <2>4. QED
    BY <2>2, <2>3
<1>10. HomeOf[s] \in CCE
  BY ConstantsAssumption
<1>11. QED
  BY <1>6, <1>7, <1>8, <1>9, <1>10, OpenIs, OpenNext

(* A cache closes one only by acknowledging it.                            *)
LEMMA OpenLce ==
  ASSUME IInv, SerialInv, NEW l \in LCE, LceStep(l), ~LceCohAck(l), NEW s \in Set
  PROVE  Open(s)' = Open(s)
<1>1. HomeOf[s] \in CCE
  BY ConstantsAssumption
<1>2. CASE LceSendReq(l)
  BY <1>2, OpenSend
<1>3. CASE \E a \in IoBlock, d \in Data : CoreUcStore(l, a, d)
  <2>1. PICK a \in IoBlock, d \in Data : CoreUcStore(l, a, d)
    BY <1>3
  <2>2. PICK r : r = [op |-> "uc_wr", src |-> l, addr |-> a, data |-> d]
    OBVIOUS
  <2>3. r \in Request /\ r.op \notin CacheOp
    BY <2>2 DEF Request, UcOp, CacheOp
  <2>4. Home(r.addr) \in CCE
    BY <2>2, ConstantsAssumption DEF Home
  <2>5. Sent(l, Home(r.addr), r) /\ miss' = miss
    BY <2>1, <2>2 DEF CoreUcStore, SendReq, Sent
  <2>6. \A k \in LCE, e \in CCE : Pends(k, e)' <=> Pends(k, e)
    BY <2>3, <2>4, <2>5, PendsSent
  <2>7. \A k \in LCE : WaitsIn(k, s)' <=> WaitsIn(k, s)
    BY <2>5 DEF WaitsIn
  <2>8. QED
    BY <1>1, <2>6, <2>7, OpenIs, OpenNext
<1>4. CASE reqNet' = reqNet /\ miss' = miss
  BY <1>4, OpenFrame
<1>5. CASE LceUcData(l) \/ CoreReplay(l) \/ LockExpire(l)
           \/ (\E b \in Block, op \in CoreOps, w \in Way : CoreMiss(l, b, op, w))
           \/ (\E a \in IoBlock : CoreUcLoad(l, a))
  <2>1. /\ reqNet' = reqNet /\ \A k \in LCE : k # l => miss'[k] = miss[k]
    BY <1>5 DEF LceUcData, Complete, CoreReplay, LockExpire, CoreMiss, CoreUcLoad, IInv, CoreOK,
      CoreTypeOK, netVars
  <2>2. /\ miss[l].phase # "sent" \/ miss[l].op = "uc_rd"
        /\ LceUcData(l) => miss[l].op = "uc_rd"
    <3>1. CASE LceUcData(l)
      <4>1. Waits(l, lceCmd[l].addr, Kind(lceCmd[l].type = "uc_data"))
        BY <3>1, MissEnds
      <4>2. lceCmd[l].type = "uc_data"
        BY <3>1 DEF LceUcData, Executes, Holds
      <4>3. QED
        BY <4>1, <4>2 DEF Waits, Kind
    <3>2. CASE ~LceUcData(l)
      BY <1>5, <3>2 DEF CoreReplay, LockExpire, CoreMiss, CoreUcLoad, CacheReady
    <3>3. QED
      BY <3>1, <3>2
  <2>3. miss'[l].phase # "sent"
    <3>1. CASE LceUcData(l)
      BY <2>2, <3>1 DEF LceUcData, Complete, IInv, CoreOK, CoreTypeOK, NoMiss
    <3>2. CASE CoreReplay(l) \/ LockExpire(l)
      BY <3>2 DEF CoreReplay, LockExpire, IInv, CoreOK, CoreTypeOK, NoMiss
    <3>3. CASE \E b \in Block, op \in CoreOps, w \in Way : CoreMiss(l, b, op, w)
      <4>1. PICK b \in Block, op \in CoreOps, w \in Way : CoreMiss(l, b, op, w)
        BY <3>3
      <4>2. QED
        BY <4>1 DEF CoreMiss, IInv, CoreOK, CoreTypeOK
    <3>4. CASE \E a \in IoBlock : CoreUcLoad(l, a)
      <4>1. PICK a \in IoBlock : CoreUcLoad(l, a)
        BY <3>4
      <4>2. QED
        BY <4>1 DEF CoreUcLoad, NoMiss, IInv, CoreOK, CoreTypeOK
    <3>5. QED
      BY <1>5, <3>1, <3>2, <3>3, <3>4
  <2>4. \A k \in LCE : WaitsIn(k, s)' <=> WaitsIn(k, s)
    BY <2>1, <2>2, <2>3 DEF WaitsIn
  <2>5. \A k \in LCE, e \in CCE : Pends(k, e)' <=> Pends(k, e)
    BY <2>1 DEF Pends
  <2>6. QED
    BY <1>1, <2>4, <2>5, OpenIs, OpenNext
<1>6. QED
  BY <1>2, <1>3, <1>4, <1>5, MissBy, LceReqBy

(* The acknowledgement closes the transaction it is for.                   *)
LEMMA OpenAck ==
  ASSUME IInv, SerialInv, NEW l \in LCE, LceCohAck(l), NEW s \in Set
  PROVE  \/ /\ SetOf[lceCmd[l].addr] # s /\ Open(s)' = Open(s)
         \/ /\ SetOf[lceCmd[l].addr] = s
            /\ l \in Open(s) /\ Open(s)' = Open(s) \ {l}
<1>1. /\ Holds(l, {"data", "st_wakeup"}) /\ reqNet' = reqNet
      /\ \A k \in LCE : k # l => miss'[k] = miss[k]
  BY DEF LceCohAck, Complete, IInv, CoreOK, CoreTypeOK, LceOK, CmdWF
<1>2. /\ Waits(l, lceCmd[l].addr, "cached") /\ ~Unsent(l)
  BY <1>1, MissEnds DEF Holds, Kind
<1>3. miss[l].phase = "sent" /\ miss[l].op # "uc_rd" /\ miss[l].addr = lceCmd[l].addr
  BY <1>2 DEF Waits, Kind
<1>4. miss'[l].phase # "sent"
  BY <1>3 DEF LceCohAck, Complete, IInv, CoreOK, CoreTypeOK, Miss
<1>5. HomeOf[s] \in CCE
  BY ConstantsAssumption
<1>6. ~Pends(l, HomeOf[s])
  <2> SUFFICES ASSUME NEW i \in DOMAIN reqNet[<<l, HomeOf[s]>>],
                      reqNet[<<l, HomeOf[s]>>][i].op \in CacheOp
               PROVE  FALSE
    BY DEF Pends
  <2>1. i \in Nat
    BY <1>5, Channel
  <2>2. Blocking(l, HomeOf[s], i)
    BY DEF Blocking, CacheOp
  <2>3. QED
    BY <1>2, <1>5, <2>1, <2>2 DEF Unsent
<1>7. \A k \in LCE, e \in CCE : Pends(k, e)' <=> Pends(k, e)
  BY <1>1 DEF Pends
<1>8. \A k \in LCE : k # l => (WaitsIn(k, s)' <=> WaitsIn(k, s))
  BY <1>1 DEF WaitsIn
<1>9. ~WaitsIn(l, s)' /\ (WaitsIn(l, s) <=> SetOf[lceCmd[l].addr] = s)
  BY <1>3, <1>4 DEF WaitsIn
<1>10. QED
  BY <1>5, <1>6, <1>7, <1>8, <1>9, OpenIs, OpenNext

----------------------------------------------------------------------------
(* What the pending bits count.                                            *)

(* Acknowledgements are sent and taken by two steps only.                  *)
LEMMA AcksCce ==
  ASSUME IInv, SerialInv, NEW c \in CCE, CceStep(c), ~CohAck(c), NEW s
  PROVE  AcksFor(s)' = AcksFor(s)
<1>1. CASE respNet' = respNet
  BY <1>1 DEF AcksFor
<1>2. CASE CceSyncAck(c) \/ CceInvAck(c)
  BY <1>2 DEF CceSyncAck, CceInvAck, TakeResp, AcksFor
<1>3. CASE CceReplacementWbResp(c) \/ CceTransferWbResp(c)
  BY <1>3 DEF CceReplacementWbResp, CceTransferWbResp, WritebackResp, TakeResp, AcksFor
<1>4. QED
  BY <1>1, <1>2, <1>3, RespBy

(* No other step of a cache adds an acknowledgement.                       *)
LEMMA AcksLce ==
  ASSUME IInv, SerialInv, NEW l \in LCE, LceStep(l), ~LceCohAck(l), NEW s
  PROVE  AcksFor(s)' = AcksFor(s)
<1>1. CASE respNet' = respNet
  BY <1>1 DEF AcksFor
<1>2. CASE LceSync(l) \/ LceInv(l)
  BY <1>2 DEF LceSync, LceInv, Respond, CmdResp, AcksFor
<1>3. CASE LceWb(l) \/ LceWbDirtySend(l)
  BY <1>3 DEF LceWb, LceWbDirtySend, Respond, CmdResp, AcksFor
<1>4. QED
  BY <1>1, <1>2, <1>3, LceRespBy

(* The operations of a way group, one step later.                          *)
LEMMA OpsKept ==
  ASSUME NEW s, memResp'[HomeOf[s]] = memResp[HomeOf[s]]
  PROVE  MemOpsFor(s)' = MemOpsFor(s)
BY DEF MemOpsFor

(* The memory operations of a set in the next state.                       *)
LEMMA OpsNext ==
  ASSUME IInv, IInv', NEW s \in Set
  PROVE  MemOpsFor(s)' = Entries(memResp'[HomeOf[s]], OpOf(s))
<1>1. HomeOf[s] \in CCE
  BY ConstantsAssumption
<1>2. memResp'[HomeOf[s]] \in Seq(MemResponse)
  BY <1>1 DEF IInv, MemTypeOK
<1>3. \A i \in DOMAIN memResp'[HomeOf[s]] : memResp'[HomeOf[s]][i] \in MemResponse
  BY <1>2
<1>4. QED
  BY <1>3 DEF MemOpsFor, OpOf, Entries

(* Taking a response counts down those of its set.                         *)
LEMMA OpsTaken ==
  ASSUME IInv, IInv', NEW s \in Set, NEW c \in CCE, c = HomeOf[s], MemTaken(c)
  PROVE  /\ RespHead(c) \in OpOf(s) =>
              Cardinality(MemOpsFor(s)') = Cardinality(MemOpsFor(s)) - 1
         /\ RespHead(c) \notin OpOf(s) =>
              Cardinality(MemOpsFor(s)') = Cardinality(MemOpsFor(s))
<1>1. PICK q, P, T, R : /\ q = memResp[c] /\ P = MemOpsFor(s) /\ T = MemOpsFor(s)'
                        /\ R = OpOf(s)
  OBVIOUS
<1>2. q \in Seq(MemResponse) /\ q # <<>> /\ IsFiniteSet(P)
  BY <1>1, OpsAre DEF MemTaken
<1>3. P = Entries(q, R)
  BY <1>1, OpsAre
<1>4. T = Entries(Tail(q), R)
  <2>1. memResp'[c] = Tail(q)
    BY <1>1 DEF MemTaken, IInv, MemTypeOK
  <2>2. QED
    BY <1>1, <2>1, OpsNext
<1>5. /\ Head(q) \in R => Cardinality(T) = Cardinality(P) - 1
      /\ Head(q) \notin R => Cardinality(T) = Cardinality(P)
  BY <1>2, <1>3, <1>4, TailCount
<1>6. QED
  BY <1>1, <1>5 DEF RespHead

(* Adding one counts them up.                                              *)
LEMMA OpsAdded ==
  ASSUME IInv, IInv', NEW s \in Set, NEW c \in CCE, c = HomeOf[s], NEW r, MemAdded(c, r)
  PROVE  /\ r \in OpOf(s) =>
              Cardinality(MemOpsFor(s)') = Cardinality(MemOpsFor(s)) + 1
         /\ r \notin OpOf(s) =>
              Cardinality(MemOpsFor(s)') = Cardinality(MemOpsFor(s))
<1>1. PICK q, P, T : q = memResp[c] /\ P = MemOpsFor(s) /\ T = MemOpsFor(s)'
  OBVIOUS
<1>2. q \in Seq(MemResponse) /\ IsFiniteSet(P)
  BY <1>1, OpsAre
<1>3. P = Entries(q, OpOf(s))
  BY <1>1, OpsAre
<1>4. T = Entries(Append(q, r), OpOf(s))
  <2>1. memResp'[c] = Append(q, r)
    BY <1>1 DEF MemAdded, IInv, MemTypeOK
  <2>2. QED
    BY <1>1, <2>1, OpsNext
<1>5. /\ r \in OpOf(s) => Cardinality(T) = Cardinality(P) + 1
      /\ r \notin OpOf(s) => Cardinality(T) = Cardinality(P)
  BY <1>2, <1>3, <1>4, AppendCount
<1>6. QED
  BY <1>1, <1>5

(* What is appended is a response.                                         *)
LEMMA AddedIn ==
  ASSUME IInv, IInv', NEW c \in CCE, NEW r, MemAdded(c, r)
  PROVE  r \in MemResponse
<1>1. memResp'[c] \in Seq(MemResponse)
  BY DEF IInv, MemTypeOK
<1>2. PICK n \in Nat : n \in DOMAIN memResp'[c] /\ memResp'[c][n] = r
  BY MemAddedFacts
<1>3. QED
  BY <1>1, <1>2

(* The counters: nothing is lost when they move by one.                    *)
LEMMA Up ==
  ASSUME IInv, SerialInv, NEW s \in Set, PendingInc(s)
  PROVE  pending'[s] = pending[s] + 1 /\ \A t \in Set : t # s => pending'[t] = pending[t]
<1>1. pending[s] \in 0 .. 4
  BY Counts
<1>2. pending'[s] = (pending[s] + 1) % 8 /\ \A t \in Set : t # s => pending'[t] = pending[t]
  BY DEF PendingInc, IInv, DirTypeOK
<1>3. QED
  BY <1>1, <1>2

(* A decrement of a counter that is not zero does not wrap.                *)
LEMMA Down ==
  ASSUME IInv, SerialInv, NEW s \in Set, PendingDec(s), pending[s] # 0
  PROVE  pending'[s] = pending[s] - 1 /\ \A t \in Set : t # s => pending'[t] = pending[t]
<1>1. pending[s] \in 0 .. 4
  BY Counts
<1>2. pending'[s] = (pending[s] - 1) % 8 /\ \A t \in Set : t # s => pending'[t] = pending[t]
  BY DEF PendingDec, IInv, DirTypeOK
<1>3. QED
  BY <1>1, <1>2

(* A way group that counts nothing has nothing under way.                  *)
LEMMA Quiet ==
  ASSUME IInv, SerialInv, NEW s \in Set, pending[s] = 0
  PROVE  Open(s) = {} /\ AcksFor(s) = {} /\ MemOpsFor(s) = {}
<1>1. PICK o, a, m : /\ o = Cardinality(Open(s)) /\ a = Cardinality(AcksFor(s))
                     /\ m = Cardinality(MemOpsFor(s))
  OBVIOUS
<1>2. o \in Nat /\ a \in Nat /\ m \in Nat /\ 0 = o + a + m
  BY <1>1, Counts
<1>3. o = 0 /\ a = 0 /\ m = 0
  BY <1>2
<1>4. IsFiniteSet(Open(s)) /\ IsFiniteSet(AcksFor(s)) /\ IsFiniteSet(MemOpsFor(s))
  BY Counts
<1>5. QED
  BY <1>1, <1>3, <1>4, FS_EmptySet

(* How a step of an engine changes what a way group counts.                *)
SameAcks(s) == AcksFor(s)' = AcksFor(s)
SameOps(s) == Cardinality(MemOpsFor(s)') = Cardinality(MemOpsFor(s))
CountSame(s) ==
  pending'[s] = pending[s] /\ Open(s)' = Open(s) /\ SameAcks(s) /\ SameOps(s)
CountOpen(c, s) ==
  /\ CceDeqReq(c) /\ s = ReqSet(c) /\ pending'[s] = pending[s] + 1
  /\ mshr[c].lce \notin Open(s) /\ Open(s)' = Open(s) \cup {mshr[c].lce}
  /\ SameAcks(s) /\ SameOps(s)
CountAck(c, s) ==
  /\ CohAck(c) /\ pending'[s] = pending[s] - 1 /\ Open(s)' = Open(s)
  /\ \E m \in AcksFor(s) : AcksFor(s)' = AcksFor(s) \ {m}
  /\ SameOps(s)
CountDone(c, s) ==
  /\ MemRespStep(c) /\ pending'[s] = pending[s] - 1 /\ Open(s)' = Open(s) /\ SameAcks(s)
  /\ Cardinality(MemOpsFor(s)') = Cardinality(MemOpsFor(s)) - 1
CountAdd(c, s) ==
  /\ s = ReqSet(c) /\ HomeOf[s] = c
  /\ \E r : ReadNew(c, r) \/ WriteNew(c, r)
  /\ pending'[s] = pending[s] + 1 /\ Open(s)' = Open(s) /\ SameAcks(s)
  /\ Cardinality(MemOpsFor(s)') = Cardinality(MemOpsFor(s)) + 1

(* Dequeuing opens a request in one set.                                   *)
LEMMA CountDeq ==
  ASSUME IInv, SerialInv, NEW c \in CCE, CceStep(c), CceDeqReq(c), NEW s \in Set
  PROVE  CountSame(s) \/ CountOpen(c, s)
<1>1. ReqSet(c) \in Set
  BY ReqSetIn DEF CceDeqReq, IInv, CceOK, MshrWF, Cached
<1>2. PICK p : p = ReqSet(c)
  OBVIOUS
<1>3. pending'[p] = pending[p] + 1 /\ \A t \in Set : t # p => pending'[t] = pending[t]
  BY <1>1, <1>2, Up DEF CceDeqReq
<1>4. SameAcks(s) /\ SameOps(s)
  BY OpsKept DEF CceDeqReq, SameAcks, SameOps, AcksFor, memVars
<1>5. QED
  BY <1>2, <1>3, <1>4, OpenDeq DEF CountSame, CountOpen

(* Taking an acknowledgement closes one.                                   *)
LEMMA CountCoh ==
  ASSUME IInv, SerialInv, NEW c \in CCE, CceStep(c), CohAck(c), NEW s \in Set
  PROVE  CountSame(s) \/ CountAck(c, s)
<1>1. PICK m \in respNet : /\ m.type = "coh_ack" /\ respNet' = respNet \ {m}
                           /\ PendingDec(SetOf[m.addr])
  BY DEF CohAck, TakeResp
<1>2. m.addr \in Block /\ SetOf[m.addr] \in Set
  BY <1>1, ResponseFields, ConstantsAssumption DEF IInv, NetTypeOK
<1>3. PICK p \in Set : p = SetOf[m.addr]
  BY <1>2
<1>4. m \in AcksFor(p)
  BY <1>1, <1>3 DEF AcksFor
<1>5. pending'[p] = pending[p] - 1 /\ \A t \in Set : t # p => pending'[t] = pending[t]
  BY <1>1, <1>3, <1>4, Quiet, Down
<1>6. Open(s)' = Open(s)
  BY OpenFrame DEF CohAck, coreVars
<1>7. SameOps(s)
  BY OpsKept DEF CohAck, SameOps, memVars
<1>8. CASE s = p
  <2>1. AcksFor(s)' = AcksFor(s) \ {m}
    BY <1>1 DEF AcksFor
  <2>2. QED
    BY <1>4, <1>5, <1>6, <1>7, <1>8, <2>1 DEF CountAck
<1>9. CASE s # p
  <2>1. SameAcks(s)
    BY <1>1, <1>3, <1>9 DEF AcksFor, SameAcks
  <2>2. QED
    BY <1>5, <1>6, <1>7, <1>9, <2>1 DEF CountSame
<1>10. QED
  BY <1>8, <1>9

(* Taking a memory response ends one operation.                            *)
LEMMA CountMem ==
  ASSUME IInv, IInv', SerialInv, NEW c \in CCE, CceStep(c), MemRespStep(c), MemTaken(c),
         NEW s \in Set
  PROVE  CountSame(s) \/ CountDone(c, s)
<1>1. PICK h : h = RespHead(c)
  OBVIOUS
<1>2. h \in MemResponse /\ h = memResp[c][1] /\ 1 \in DOMAIN memResp[c]
  BY <1>1, RespHeadOK, MemTakenFacts DEF MemTaken, IInv
<1>3. Open(s)' = Open(s)
  BY OpenFrame DEF MemRespStep, MemRespSquash, MemRespFill, MemRespWriteback, MemRespUncached,
    coreVars, netVars
<1>4. SameAcks(s)
  BY DEF MemRespStep, MemRespSquash, MemRespFill, MemRespWriteback, MemRespUncached,
    netVars, SameAcks, AcksFor
<1>5. HomeOf[s] \in CCE /\ (HomeOf[s] # c => SameOps(s))
  BY ConstantsAssumption, CceOthers, OpsKept DEF SameOps
<1>6. CASE h.type \in UcOp
  <2>1. pending' = pending
    BY <1>1, <1>6 DEF MemRespStep, MemRespSquash, MemRespFill, MemRespWriteback, MemRespUncached,
      IsSpeculative, UcOp, dirVars
  <2>2. h \notin OpOf(s)
    BY <1>6 DEF OpOf, UcOp
  <2>3. SameOps(s)
    BY <1>1, <1>5, <2>2, OpsTaken DEF SameOps
  <2>4. QED
    BY <1>3, <1>4, <2>1, <2>3 DEF CountSame
<1>7. CASE h.type \notin UcOp
  <2>1. PICK p : p = SetOf[h.addr]
    OBVIOUS
  <2>2. p \in Set /\ HomeOf[p] = c
    BY <1>2, <1>7, <2>1, MemResponseFields, ConstantsAssumption
      DEF Addr, UcOp, SerialInv, HomeInv, Home
  <2>3. PendingDec(p)
    BY <1>1, <1>7, <2>1 DEF MemRespStep, MemRespSquash, MemRespFill, MemRespWriteback,
      MemRespUncached
  <2>4. h \in OpOf(p) /\ (s # p => h \notin OpOf(s))
    BY <1>2, <1>7, <2>1, MemResponseFields DEF OpOf, UcOp
  <2>5. MemOpsFor(p) # {}
    BY <1>2, <2>2, <2>4, OpsAre DEF Entries
  <2>6. pending'[p] = pending[p] - 1 /\ \A t \in Set : t # p => pending'[t] = pending[t]
    BY <2>2, <2>3, <2>5, Quiet, Down
  <2>7. CASE s = p
    <3>1. Cardinality(MemOpsFor(s)') = Cardinality(MemOpsFor(s)) - 1
      BY <1>1, <2>2, <2>4, <2>7, OpsTaken
    <3>2. QED
      BY <1>3, <1>4, <2>6, <2>7, <3>1 DEF CountDone
  <2>8. CASE s # p
    <3>1. SameOps(s)
      BY <1>1, <1>5, <2>4, <2>8, OpsTaken DEF SameOps
    <3>2. QED
      BY <1>3, <1>4, <2>6, <2>8, <3>1 DEF CountSame
  <2>9. QED
    BY <2>7, <2>8
<1>8. QED
  BY <1>6, <1>7

(* A speculative read or a write-back begins one.                          *)
LEMMA CountNew ==
  ASSUME IInv, IInv', SerialInv, NEW c \in CCE, CceStep(c), NEW r, MemAdded(c, r),
         ReadNew(c, r) \/ WriteNew(c, r), PendingInc(ReqSet(c)), NEW s \in Set
  PROVE  CountSame(s) \/ CountAdd(c, s)
<1>1. /\ cceState[c] \in Cached /\ cceState[c] # "deq_lce_req"
      /\ SetOf[r.addr] = ReqSet(c) /\ r.type \in {"rd", "wr"}
  BY DEF ReadNew, WriteNew, Cached
<1>2. PICK p : p = ReqSet(c)
  OBVIOUS
<1>3. p \in Set /\ HomeOf[p] = c
  BY <1>1, <1>2, ReqSetIn DEF SerialInv, MshrInv, MshrHome, Home, IInv, CceOK, MshrWF, ReqSet
<1>4. Open(s)' = Open(s)
  BY <1>1, OpenCce DEF CceDeqReq
<1>5. SameAcks(s)
  <2>1. ~CohAck(c)
    <3>1. PICK n : n \notin DOMAIN memResp[c] /\ DOMAIN memResp'[c] = DOMAIN memResp[c] \cup {n}
      BY MemAddedFacts
    <3>2. memResp' # memResp
      BY <3>1
    <3>3. QED
      BY <3>2 DEF CohAck, memVars
  <2>2. QED
    BY <2>1, AcksCce DEF SameAcks
<1>6. pending'[p] = pending[p] + 1 /\ \A t \in Set : t # p => pending'[t] = pending[t]
  BY <1>2, <1>3, Up
<1>7. HomeOf[s] \in CCE /\ (HomeOf[s] # c => SameOps(s))
  BY ConstantsAssumption, CceOthers, OpsKept DEF SameOps
<1>8. r \in OpOf(p) /\ (s # p => r \notin OpOf(s))
  BY <1>1, <1>2, AddedIn DEF OpOf
<1>9. CASE s = p
  <2>1. Cardinality(MemOpsFor(s)') = Cardinality(MemOpsFor(s)) + 1
    BY <1>3, <1>8, <1>9, OpsAdded
  <2>2. QED
    BY <1>2, <1>3, <1>4, <1>5, <1>6, <1>9, <2>1 DEF CountAdd
<1>10. CASE s # p
  <2>1. SameOps(s)
    BY <1>7, <1>8, <1>10, OpsAdded DEF SameOps
  <2>2. QED
    BY <1>4, <1>5, <1>6, <1>10, <2>1 DEF CountSame
<1>11. QED
  BY <1>9, <1>10

(* What a step of an engine does to the three counts of a set.             *)
LEMMA CountCce ==
  ASSUME IInv, IInv', SerialInv, NEW c \in CCE, CceStep(c), NEW s \in Set
  PROVE  CountSame(s) \/ CountOpen(c, s) \/ CountAck(c, s) \/ CountDone(c, s) \/ CountAdd(c, s)
<1>1. CASE CceDeqReq(c)
  BY <1>1, CountDeq
<1>2. CASE CohAck(c)
  BY <1>2, CountCoh
<1>3. CASE MemTaken(c) /\ MemRespStep(c)
  BY <1>3, CountMem
<1>4. CASE memResp' = memResp /\ pending' = pending /\ ~CceDeqReq(c) /\ ~CohAck(c)
  BY <1>4, OpenCce, AcksCce, OpsKept DEF CountSame, SameAcks, SameOps
<1>5. ASSUME NEW r, MemAdded(c, r), r.type \in UcOp,
             CceUcReq(c) \/ \E l \in LCE : CceUncachedOnly(c, l), ~CceDeqReq(c), ~CohAck(c)
      PROVE  CountSame(s)
  <2>1. pending' = pending
    BY <1>5 DEF CceUcReq, CceUncachedOnly, dirVars
  <2>2. r \notin OpOf(s)
    BY <1>5 DEF OpOf, UcOp
  <2>3. HomeOf[s] \in CCE /\ (HomeOf[s] # c => SameOps(s))
    BY ConstantsAssumption, CceOthers, OpsKept DEF SameOps
  <2>4. SameOps(s)
    BY <1>5, <2>2, <2>3, OpsAdded DEF SameOps
  <2>5. QED
    BY <1>5, <2>1, <2>4, OpenCce, AcksCce DEF CountSame, SameAcks
<1>6. ASSUME NEW r, MemAdded(c, r), ReadNew(c, r)
      PROVE  CountSame(s) \/ CountAdd(c, s)
  <2>1. PendingInc(ReqSet(c))
    BY <1>6 DEF ReadNew, CceReadMemSpec
  <2>2. QED
    BY <1>6, <2>1, CountNew
<1>7. ASSUME NEW r, MemAdded(c, r), WriteNew(c, r), PendingInc(ReqSet(c))
      PROVE  CountSame(s) \/ CountAdd(c, s)
  BY <1>7, CountNew
<1>8. QED
  BY <1>1, <1>2, <1>3, <1>4, <1>5, <1>6, <1>7, MemMoves

(* The bound on the operations by the state of the engine.                 *)
Bound(st) ==
  IF st = "read_mem_spec" THEN 0
  ELSE IF st \in {"read_dir", "write_next_state", "replacement", "replacement_wb_resp"} THEN 1
  ELSE IF st \in Working \ {"resolve_speculation"} THEN 2
  ELSE 3

(* OpsBound depends on the state of the engine only while it serves the    *)
(* set.                                                                    *)
LEMMA BoundIs ==
  ASSUME NEW s \in Set
  PROVE  OpsBound(s) = IF ReqSet(HomeOf[s]) = s THEN Bound(cceState[HomeOf[s]]) ELSE 3
BY DEF OpsBound, Bound, Serving, Working, Cached

(* The same in the next state.                                             *)
LEMMA BoundNext ==
  ASSUME NEW s \in Set
  PROVE  OpsBound(s)' = IF ReqSet(HomeOf[s])' = s THEN Bound(cceState'[HomeOf[s]]) ELSE 3
BY DEF OpsBound, Bound, Serving, Working, Cached

(* The bound never falls along the edges of the FSM but at the dequeue.    *)
LEMMA BoundGrows ==
  ASSUME NEW x, NEW y, StateMove(x, y), x # "deq_lce_req"
  PROVE  Bound(x) <= Bound(y)
BY DEF StateMove, Moves1, After, Bound, Working, Cached

(* The count of the next state is a natural number too.                    *)
LEMMA OpsNextIs ==
  ASSUME IInv, IInv', NEW s \in Set
  PROVE  IsFiniteSet(MemOpsFor(s)') /\ Cardinality(MemOpsFor(s)') \in Nat
<1>1. HomeOf[s] \in CCE
  BY ConstantsAssumption
<1>2. PICK q : q = memResp'[HomeOf[s]]
  OBVIOUS
<1>3. q \in Seq(MemResponse)
  BY <1>1, <1>2 DEF IInv, MemTypeOK
<1>4. IsFiniteSet(DOMAIN q)
  BY <1>3, FS_Interval
<1>5. MemOpsFor(s)' \subseteq DOMAIN q
  BY <1>2, OpsNext DEF Entries
<1>6. QED
  BY <1>4, <1>5, FS_Subset, FS_CardinalityType

(* OpsInv, step of an engine: each operation is begun where the bound      *)
(* rises.                                                                  *)
LEMMA OpsCce ==
  ASSUME IInv, IInv', SerialInv, NEW c \in CCE, CceStep(c)
  PROVE  OpsInv'
<1> SUFFICES ASSUME NEW s \in Set PROVE Cardinality(MemOpsFor(s)') <= OpsBound(s)'
  BY DEF OpsInv
<1>1. HomeOf[s] \in CCE
  BY ConstantsAssumption
<1>2. PICK n, k : n = Cardinality(MemOpsFor(s)') /\ k = Cardinality(MemOpsFor(s))
  OBVIOUS
<1>0. n \in Nat /\ k \in Nat
  BY <1>2, OpsNextIs, Counts
<1>3. k <= OpsBound(s) /\ OpsBound(s) <= 3 /\ OpsBound(s)' \in 0 .. 3 /\ OpsBound(s) \in 0 .. 3
  BY <1>0, <1>2, Counts DEF OpsBound, SerialInv, OpsInv
<1>4. CASE HomeOf[s] # c
  <2>1. OpsBound(s)' = OpsBound(s)
    BY <1>1, <1>4, CceOthers DEF OpsBound, Serving, ReqSet
  <2>2. SameOps(s)
    BY <1>1, <1>4, CceOthers, OpsKept DEF SameOps
  <2>3. QED
    BY <1>0, <1>2, <1>3, <2>1, <2>2 DEF SameOps
<1>5. CASE HomeOf[s] = c
  <2>1. StateMove(cceState[c], cceState'[c])
    BY StateMoves
  <2>2. CASE ReqSet(c)' # s
    <3>1. OpsBound(s)' = 3
      BY <1>5, <2>2, BoundNext
    <3>2. n = k \/ n = k - 1 \/ CountAdd(c, s)
      BY <1>0, <1>2, CountCce DEF CountSame, CountOpen, CountAck, CountDone, SameOps
    <3>3. ~CountAdd(c, s)
      <4> SUFFICES ASSUME CountAdd(c, s) PROVE FALSE
        OBVIOUS
      <4>1. s = ReqSet(c)
        BY DEF CountAdd
      <4>2. SameRequest(c)
        <5>1. cceState[c] \in {"read_mem_spec", "replacement_wb_resp", "transfer_wb_resp"}
          BY DEF CountAdd, ReadNew, WriteNew
        <5>2. QED
          BY <5>1, FsmStays DEF CceReady, CceUcReq, CceResolve
      <4>3. QED
        BY <2>2, <4>1, <4>2 DEF ReqSet, SameRequest
    <3>4. QED
      BY <1>0, <1>2, <1>3, <3>1, <3>2, <3>3
  <2>3. CASE ReqSet(c)' = s
    <3>1. OpsBound(s)' = Bound(cceState'[c])
      BY <1>5, <2>3, BoundNext
    <3>2. CASE CountAdd(c, s)
      <4>1. PICK r : ReadNew(c, r) \/ WriteNew(c, r)
        BY <3>2 DEF CountAdd
      <4>2. n = k + 1 /\ OpsBound(s) = Bound(cceState[c])
        BY <1>0, <1>2, <1>5, <3>2, BoundIs DEF CountAdd
      <4>3. CASE ReadNew(c, r)
        BY <1>0, <1>2, <1>3, <3>1, <4>2, <4>3 DEF ReadNew, Bound, CceReadMemSpec, Goto, IInv, CceOK, CceTypeOK
      <4>4. CASE WriteNew(c, r) /\ cceState[c] = "replacement_wb_resp"
        <5>1. Bound(cceState[c]) = 1 /\ Bound(cceState'[c]) >= 2
          BY <4>4 DEF WriteNew, After, Bound
        <5>2. QED
          BY <1>0, <1>2, <1>3, <3>1, <4>2, <5>1
      <4>5. CASE WriteNew(c, r) /\ cceState[c] = "transfer_wb_resp"
        <5>1. cceState'[c] = "resolve_speculation"
          BY <2>1, <4>5 DEF WriteNew, After, StateMove, Moves1, Cached
        <5>2. Bound(cceState'[c]) = 3 /\ Bound(cceState[c]) = 2
          BY <4>5, <5>1 DEF Bound, Working, Cached
        <5>3. QED
          BY <1>0, <1>2, <1>3, <3>1, <4>2, <5>2
      <4>6. QED
        BY <4>1, <4>3, <4>4, <4>5 DEF WriteNew
    <3>3. CASE ~CountAdd(c, s)
      <4>1. n <= k
        BY <1>0, <1>2, <3>3, CountCce DEF CountSame, CountOpen, CountAck, CountDone, SameOps
      <4>2. CASE cceState[c] = "deq_lce_req"
        <5>1. CASE cceState'[c] = "deq_lce_req"
          BY <1>0, <1>2, <1>3, <3>1, <4>1, <5>1 DEF Bound, Working, Cached
        <5>2. CASE cceState'[c] # "deq_lce_req"
          <6>1. SameRequest(c)
            BY <4>2, FsmStays DEF CceReady, CceUcReq, CceResolve
          <6>2. pending[s] = 0
            BY <2>3, <4>2, <6>1 DEF SerialInv, FreeInv, ReqSet, SameRequest
          <6>3. k = 0
            BY <1>0, <1>2, <6>2, Quiet, FS_EmptySet
          <6>4. QED
            BY <1>0, <1>2, <1>3, <4>1, <6>3
        <5>3. QED
          BY <5>1, <5>2
      <4>3. CASE cceState[c] # "deq_lce_req" /\ SameRequest(c)
        <5>1. OpsBound(s) = Bound(cceState[c])
          BY <1>5, <2>3, <4>3, BoundIs DEF ReqSet, SameRequest
        <5>2. QED
          BY <1>0, <1>2, <1>3, <2>1, <3>1, <4>1, <4>3, <5>1, BoundGrows
      <4>4. CASE ~SameRequest(c)
        <5>1. cceState'[c] \in {"read_pending", "uc_req", "ready"}
          <6>1. CASE \E l \in LCE : CceReady(c, l)
            <7>1. PICK l \in LCE : cceState' = [cceState EXCEPT ![c] =
                    IF Head(reqNet[<<l, c>>]).op \in CacheOp THEN "read_pending" ELSE "uc_req"]
              BY <6>1 DEF CceReady, Goto
            <7>2. QED
              BY <7>1 DEF IInv, CceOK, CceTypeOK
          <6>2. CASE CceUcReq(c)
            BY <6>2 DEF CceUcReq, Goto, IInv, CceOK, CceTypeOK
          <6>3. CASE CceResolve(c)
            BY <6>3 DEF CceResolve, Goto, IInv, CceOK, CceTypeOK
          <6>4. QED
            BY <4>4, <6>1, <6>2, <6>3, FsmStays
        <5>2. Bound(cceState'[c]) = 3
          BY <5>1 DEF Bound, Working, Cached
        <5>3. QED
          BY <1>0, <1>2, <1>3, <3>1, <4>1, <5>2
      <4>5. QED
        BY <4>2, <4>3, <4>4
    <3>4. QED
      BY <3>2, <3>3
  <2>4. QED
    BY <2>2, <2>3
<1>6. QED
  BY <1>4, <1>5

(* OpsInv, step of a cache.                                                *)
LEMMA OpsLce ==
  ASSUME IInv, SerialInv, NEW l \in LCE, LceStep(l)
  PROVE  OpsInv'
<1> SUFFICES ASSUME NEW s \in Set PROVE Cardinality(MemOpsFor(s)') <= OpsBound(s)'
  BY DEF OpsInv
<1>1. OpsBound(s)' = OpsBound(s)
  BY LceLeaves DEF OpsBound, Serving, ReqSet
<1>2. MemOpsFor(s)' = MemOpsFor(s)
  BY LceLeaves, OpsKept
<1>3. QED
  BY <1>1, <1>2 DEF SerialInv, OpsInv

(* The pending bits count right, and what they count is one transaction.   *)
LEMMA PendCce ==
  ASSUME IInv, IInv', SerialInv, NEW c \in CCE, CceStep(c)
  PROVE  PendInv' /\ OneInv'
<1> SUFFICES ASSUME NEW s \in Set
             PROVE  /\ IsFiniteSet(AcksFor(s)')
                    /\ pending'[s] = Cardinality(Open(s)') + Cardinality(AcksFor(s)')
                                       + Cardinality(MemOpsFor(s)')
                    /\ Cardinality(Open(s)') + Cardinality(AcksFor(s)') <= 1
  BY DEF PendInv, OneInv
<1>1. PICK o, a, m : /\ o = Cardinality(Open(s)) /\ a = Cardinality(AcksFor(s))
                     /\ m = Cardinality(MemOpsFor(s))
  OBVIOUS
<1>2. /\ o \in Nat /\ a \in Nat /\ m \in Nat /\ pending[s] = o + a + m /\ o + a <= 1
      /\ IsFiniteSet(Open(s)) /\ IsFiniteSet(AcksFor(s))
  BY <1>1, Counts
<1>3. CASE CountSame(s)
  BY <1>1, <1>2, <1>3 DEF CountSame, SameAcks, SameOps
<1>4. CASE CountOpen(c, s)
  <2>1. Cardinality(Open(s)') = o + 1
    BY <1>1, <1>2, <1>4, PlusOne DEF CountOpen
  <2>2. Open(s) = {} /\ AcksFor(s) = {}
    <3>1. pending[s] = 0
      BY <1>4 DEF CountOpen, SerialInv, FreeInv, CceDeqReq
    <3>2. QED
      BY <3>1, Quiet
  <2>3. o = 0 /\ a = 0
    BY <1>1, <2>2, FS_EmptySet
  <2>4. /\ pending'[s] = pending[s] + 1 /\ AcksFor(s)' = AcksFor(s)
        /\ Cardinality(MemOpsFor(s)') = m
    BY <1>1, <1>4 DEF CountOpen, SameAcks, SameOps
  <2>5. IsFiniteSet(AcksFor(s)') /\ Cardinality(AcksFor(s)') = 0
    BY <1>1, <1>2, <2>3, <2>4
  <2>6. Cardinality(Open(s)') = 1 /\ pending'[s] = m + 1
    BY <1>2, <2>1, <2>3, <2>4
  <2>7. QED
    BY <1>2, <2>4, <2>5, <2>6
<1>5. CASE CountAck(c, s)
  <2>1. IsFiniteSet(AcksFor(s)') /\ Cardinality(AcksFor(s)') = a - 1
    BY <1>1, <1>2, <1>5, MinusOne DEF CountAck
  <2>2. Open(s)' = Open(s) /\ pending'[s] = pending[s] - 1 /\ Cardinality(MemOpsFor(s)') = m
    BY <1>1, <1>5 DEF CountAck, SameOps
  <2>3. QED
    BY <1>1, <1>2, <2>1, <2>2
<1>6. CASE CountDone(c, s)
  <2>1. /\ Open(s)' = Open(s) /\ pending'[s] = pending[s] - 1 /\ AcksFor(s)' = AcksFor(s)
        /\ Cardinality(MemOpsFor(s)') = m - 1
    BY <1>1, <1>6 DEF CountDone, SameAcks
  <2>2. QED
    BY <1>1, <1>2, <2>1
<1>7. CASE CountAdd(c, s)
  <2>1. /\ Open(s)' = Open(s) /\ pending'[s] = pending[s] + 1 /\ AcksFor(s)' = AcksFor(s)
        /\ Cardinality(MemOpsFor(s)') = m + 1
    BY <1>1, <1>7 DEF CountAdd, SameAcks
  <2>2. QED
    BY <1>1, <1>2, <2>1
<1>8. QED
  BY <1>3, <1>4, <1>5, <1>6, <1>7, CountCce

(* PendInv and OneInv, step of a cache: closing a request sends one        *)
(* acknowledgement.                                                        *)
LEMMA PendLce ==
  ASSUME IInv, IInv', SerialInv, NEW l \in LCE, LceStep(l)
  PROVE  PendInv' /\ OneInv'
<1> SUFFICES ASSUME NEW s \in Set
             PROVE  /\ IsFiniteSet(AcksFor(s)')
                    /\ pending'[s] = Cardinality(Open(s)') + Cardinality(AcksFor(s)')
                                       + Cardinality(MemOpsFor(s)')
                    /\ Cardinality(Open(s)') + Cardinality(AcksFor(s)') <= 1
  BY DEF PendInv, OneInv
<1>1. PICK o, a, m : /\ o = Cardinality(Open(s)) /\ a = Cardinality(AcksFor(s))
                     /\ m = Cardinality(MemOpsFor(s))
  OBVIOUS
<1>2. /\ o \in Nat /\ a \in Nat /\ m \in Nat /\ pending[s] = o + a + m /\ o + a <= 1
      /\ IsFiniteSet(Open(s)) /\ IsFiniteSet(AcksFor(s))
  BY <1>1, Counts
<1>3. pending' = pending /\ MemOpsFor(s)' = MemOpsFor(s)
  BY LceLeaves, OpsKept
<1>4. CASE Open(s)' = Open(s) /\ AcksFor(s)' = AcksFor(s)
  BY <1>1, <1>2, <1>3, <1>4
<1>5. CASE LceCohAck(l)
  <2>1. PICK r : /\ r.type = "coh_ack" /\ r.addr = lceCmd[l].addr /\ r \notin respNet
                 /\ respNet' = respNet \cup {r}
    <3>1. PICK r : r = CmdResp(l, "coh_ack")
      OBVIOUS
    <3>2. r.type = "coh_ack" /\ r.addr = lceCmd[l].addr
      BY <3>1 DEF CmdResp
    <3>3. QED
      BY <1>5, <3>1, <3>2 DEF LceCohAck, Respond
  <2>2. CASE SetOf[lceCmd[l].addr] # s
    <3>1. Open(s)' = Open(s)
      BY <1>5, <2>2, OpenAck
    <3>2. AcksFor(s)' = AcksFor(s)
      BY <2>1, <2>2 DEF AcksFor
    <3>3. QED
      BY <1>4, <3>1, <3>2
  <2>3. CASE SetOf[lceCmd[l].addr] = s
    <3>1. l \in Open(s) /\ Open(s)' = Open(s) \ {l}
      BY <1>5, <2>3, OpenAck
    <3>2. r \notin AcksFor(s) /\ AcksFor(s)' = AcksFor(s) \cup {r}
      BY <2>1, <2>3 DEF AcksFor
    <3>3. Cardinality(Open(s)') = o - 1
      BY <1>1, <1>2, <3>1, MinusOne
    <3>4. IsFiniteSet(AcksFor(s)') /\ Cardinality(AcksFor(s)') = a + 1
      BY <1>1, <1>2, <3>2, PlusOne
    <3>5. QED
      BY <1>1, <1>2, <1>3, <3>3, <3>4
  <2>4. QED
    BY <2>2, <2>3
<1>6. QED
  BY <1>4, <1>5, OpenLce, AcksLce

(* A way group whose request is being taken stays free.                    *)
LEMMA FreeCce ==
  ASSUME IInv, IInv', SerialInv, NEW c \in CCE, CceStep(c)
  PROVE  FreeInv'
<1> SUFFICES ASSUME NEW d \in CCE, cceState'[d] = "deq_lce_req"
             PROVE  pending'[ReqSet(d)'] = 0
  BY DEF FreeInv
<1>1. cceState'[d] \in Cached /\ Home(mshr'[d].addr) = d
  BY HomeKept DEF MshrHome, Cached
<1>2. PICK s : s = ReqSet(d)'
  OBVIOUS
<1>3. s \in Set /\ HomeOf[s] = d
  BY <1>1, <1>2, ConstantsAssumption DEF Home, ReqSet, IInv, CceOK, MshrWF
<1>4. CASE pending[s] = 0
  <2>1. Cardinality(Open(s)) = 0 /\ AcksFor(s) = {} /\ MemOpsFor(s) = {} /\ Cardinality(MemOpsFor(s)) = 0
    BY <1>3, <1>4, Quiet, FS_EmptySet
  <2>2. ~CountAck(c, s)
    BY <2>1 DEF CountAck
  <2>3. ~CountDone(c, s)
    <3>1. Cardinality(MemOpsFor(s)') \in Nat
      BY <1>3, OpsNextIs
    <3>2. QED
      BY <2>1, <3>1 DEF CountDone
  <2>4. ~CountOpen(c, s)
    <3> SUFFICES ASSUME CountOpen(c, s) PROVE FALSE
      OBVIOUS
    <3>1. CceDeqReq(c) /\ s = ReqSet(c)
      BY DEF CountOpen
    <3>2. cceState[c] = "deq_lce_req" /\ cceState'[c] = "read_mem_spec"
      BY <3>1 DEF CceDeqReq, Goto, IInv, CceOK, CceTypeOK
    <3>3. HomeOf[s] = c
      BY <3>1, <3>2 DEF SerialInv, MshrInv, MshrHome, Cached, ReqSet, Home
    <3>4. QED
      BY <1>3, <3>2, <3>3
  <2>5. ~CountAdd(c, s)
    <3>1. CountAdd(c, s) => c = d /\ cceState'[c] # "deq_lce_req"
      <4> SUFFICES ASSUME CountAdd(c, s) PROVE c = d /\ cceState'[c] # "deq_lce_req"
        OBVIOUS
      <4>1. PICK r : ReadNew(c, r) \/ WriteNew(c, r)
        BY DEF CountAdd
      <4>2. c = d
        BY <1>3 DEF CountAdd
      <4>3. QED
        BY <4>1, <4>2, StateMoves DEF ReadNew, WriteNew, After, CceReadMemSpec, Goto, IInv, CceOK, CceTypeOK
    <3>2. QED
      BY <3>1
  <2>6. CountSame(s)
    BY <1>3, <2>2, <2>3, <2>4, <2>5, CountCce
  <2>7. QED
    BY <1>2, <1>4, <2>6 DEF CountSame
<1>5. CASE d # c
  <2>1. cceState'[d] = cceState[d] /\ mshr'[d] = mshr[d]
    BY <1>5, CceOthers
  <2>2. pending[s] = 0
    BY <1>2, <2>1 DEF SerialInv, FreeInv, ReqSet
  <2>3. QED
    BY <1>4, <2>2
<1>6. CASE d = c
  <2>1. SameRequest(c)
    <3>1. cceState'[c] = "deq_lce_req"
      BY <1>6
    <3>2. ~CceUcReq(c) /\ ~CceResolve(c)
      BY <3>1 DEF CceUcReq, CceResolve, Goto, IInv, CceOK, CceTypeOK
    <3>3. ~\E l \in LCE : CceReady(c, l)
      BY <3>1 DEF CceReady, Goto, IInv, CceOK, CceTypeOK
    <3>4. QED
      BY <3>2, <3>3, FsmStays
  <2>2. CASE cceState[c] = "deq_lce_req"
    BY <1>2, <1>4, <1>6, <2>1, <2>2 DEF SerialInv, FreeInv, ReqSet, SameRequest
  <2>3. CASE cceState[c] # "deq_lce_req"
    <3>1. CceReadPending(c)
      <4>1. cceState[c] = "read_pending"
        BY <1>6, <2>3, StateMoves DEF StateMove, Moves1, After, Cached
      <4>2. QED
        BY <1>6, <4>1, FsmBy DEF CceReset, CceClearDir, CceLeaveUncached, CceSyncAck, CceUcReq, CceDeqReq,
          CceReadMemSpec, CceReadDir, CceWriteNextState, CceReplacement, CceReplacementWbResp, CceInvCmd,
          CceInvAck, CceUpgrade, CceTransfer, CceTransferWbResp, CceResolve, CceReady, CceSendSync
    <3>2. pending[s] = 0
      BY <1>2, <1>6, <2>1, <3>1 DEF CceReadPending, ReqSet, SameRequest
    <3>3. QED
      BY <1>4, <3>2
  <2>4. QED
    BY <2>2, <2>3
<1>7. QED
  BY <1>5, <1>6

(* FreeInv, step of a cache.                                               *)
LEMMA FreeLce ==
  ASSUME SerialInv, NEW l \in LCE, LceStep(l)
  PROVE  FreeInv'
BY LceLeaves DEF SerialInv, FreeInv, ReqSet

----------------------------------------------------------------------------
(* The speculative read.                                                   *)

(* Where the read of a way group is after a step of its engine: where it   *)
(* was, one place further on, or just entered.                             *)
ReadsFrom(c, s) ==
  \/ \E k \in {0, 1} : \A i \in Nat : ReadOf(s, i)' =>
       /\ i + k \in Nat /\ ReadOf(s, i + k)
       /\ memResp'[HomeOf[s]][i] = memResp[HomeOf[s]][i + k]
  \/ /\ CceReadMemSpec(c) /\ s = ReqSet(c) /\ c = HomeOf[s]
     /\ \E n, r : ReadNew(c, r) /\ \A i \in Nat : ReadOf(s, i)' =>
          i = n /\ memResp'[HomeOf[s]][i] = r

(* A way group with a read has an operation of memory under way.           *)
LEMMA ReadIsOp ==
  ASSUME IInv, SerialInv, NEW s \in Set, NEW i \in Nat, ReadOf(s, i)
  PROVE  MemOpsFor(s) # {} /\ pending[s] # 0 /\ Cardinality(MemOpsFor(s)) # 0
<1>1. i \in MemOpsFor(s)
  BY DEF ReadOf, MemOpsFor
<1>2. pending[s] # 0
  BY <1>1, Quiet
<1>3. Cardinality(MemOpsFor(s)) # 0
  BY <1>1, Counts, FS_EmptySet
<1>4. QED
  BY <1>1, <1>2, <1>3

(* Where a read of a set can have come from in a step.                     *)
LEMMA ReadMoves ==
  ASSUME IInv, IInv', SerialInv, NEW c \in CCE, CceStep(c), NEW s \in Set
  PROVE  ReadsFrom(c, s)
<1>1. PICK d \in CCE : d = HomeOf[s]
  BY ConstantsAssumption
<1>2. CASE memResp'[d] = memResp[d]
  BY <1>1, <1>2 DEF ReadsFrom, ReadOf
<1>3. CASE d = c /\ MemTaken(c)
  <2>1. \A i \in DOMAIN memResp'[c] : i + 1 \in Nat /\ i + 1 \in DOMAIN memResp[c]
          /\ memResp'[c][i] = memResp[c][i + 1]
    BY <1>3, MemTakenFacts
  <2>2. QED
    BY <1>1, <1>3, <2>1 DEF ReadsFrom, ReadOf
<1>4. ASSUME NEW r, d = c, MemAdded(c, r), r.type # "rd"
      PROVE  ReadsFrom(c, s)
  <2>1. PICK n \in Nat :
              /\ n \notin DOMAIN memResp[c]
              /\ DOMAIN memResp'[c] = DOMAIN memResp[c] \cup {n}
              /\ memResp'[c][n] = r
              /\ \A i \in DOMAIN memResp[c] :
                   memResp'[c][i] = memResp[c][i]
    BY <1>4, MemAddedFacts
  <2>2. \A i \in Nat : ReadOf(s, i)' => ReadOf(s, i) /\ memResp'[c][i] = memResp[c][i]
    BY <1>1, <1>4, <2>1 DEF ReadOf
  <2>3. QED
    BY <1>1, <1>4, <2>2 DEF ReadsFrom
<1>5. ASSUME NEW r, d = c, MemAdded(c, r), ReadNew(c, r)
      PROVE  ReadsFrom(c, s)
  <2>1. PICK n \in Nat :
              /\ n \notin DOMAIN memResp[c]
              /\ DOMAIN memResp'[c] = DOMAIN memResp[c] \cup {n}
              /\ memResp'[c][n] = r
              /\ \A i \in DOMAIN memResp[c] :
                   memResp'[c][i] = memResp[c][i]
    BY <1>5, MemAddedFacts
  <2>2. \A i \in Nat : ReadOf(s, i)' =>
          \/ ReadOf(s, i) /\ memResp'[c][i] = memResp[c][i]
          \/ i = n /\ memResp'[c][i] = r /\ s = ReqSet(c)
    BY <1>1, <1>5, <2>1 DEF ReadOf, ReadNew
  <2>3. CASE s # ReqSet(c)
    BY <1>1, <1>5, <2>2, <2>3 DEF ReadsFrom
  <2>4. CASE s = ReqSet(c)
    <3>1. cceState[c] = "read_mem_spec" /\ CceReadMemSpec(c)
      BY <1>5 DEF ReadNew
    <3>2. OpsBound(s) = 0
      BY <1>1, <1>5, <2>4, <3>1, BoundIs DEF Bound
    <3>3. Cardinality(MemOpsFor(s)) = 0
      BY <3>2, Counts
    <3>4. \A i \in Nat : ~ReadOf(s, i)
      BY <3>3, ReadIsOp
    <3>5. QED
      BY <1>1, <1>5, <2>2, <2>4, <3>1, <3>4 DEF ReadsFrom
  <2>5. QED
    BY <2>3, <2>4
<1>6. CASE d = c /\ \E r : MemAdded(c, r)
  <2>1. PICK r : /\ MemAdded(c, r)
                 /\ \/ r.type \in UcOp /\ (CceUcReq(c) \/ \E l \in LCE : CceUncachedOnly(c, l))
                    \/ ReadNew(c, r)
                    \/ WriteNew(c, r) /\ PendingInc(ReqSet(c))
                 \/ memResp' = memResp \/ MemTaken(c)
    BY MemMoves
  <2>2. CASE memResp' = memResp \/ MemTaken(c)
    BY <1>2, <1>3, <1>6, <2>2
  <2>3. CASE MemAdded(c, r) /\ r.type # "rd"
    BY <1>4, <1>6, <2>3
  <2>4. CASE MemAdded(c, r) /\ ReadNew(c, r)
    BY <1>5, <1>6, <2>4
  <2>5. QED
    BY <2>1, <2>2, <2>3, <2>4 DEF UcOp, WriteNew
<1>7. QED
  <2>1. memResp'[d] = memResp[d] \/ d = c
    BY CceOthers
  <2>2. memResp' = memResp \/ MemTaken(c) \/ \E r : MemAdded(c, r)
    BY MemMoves
  <2>3. QED
    BY <1>2, <1>3, <1>6, <2>1, <2>2

(* A second read of a set is never begun: the group has waited for the     *)
(* first.                                                                  *)
LEMMA ReadOneCce ==
  ASSUME IInv, IInv', SerialInv, NEW c \in CCE, CceStep(c)
  PROVE  ReadOne'
<1> SUFFICES ASSUME NEW s \in Set, NEW i \in Nat, NEW j \in Nat, ReadOf(s, i)', ReadOf(s, j)'
             PROVE  i = j
  BY DEF ReadOne
<1>1. CASE \E k \in {0, 1} : \A n \in Nat : ReadOf(s, n)' =>
             /\ n + k \in Nat /\ ReadOf(s, n + k)
             /\ memResp'[HomeOf[s]][n] = memResp[HomeOf[s]][n + k]
  <2>1. PICK k \in {0, 1} : \A n \in Nat : ReadOf(s, n)' => n + k \in Nat /\ ReadOf(s, n + k)
    BY <1>1
  <2>2. i + k = j + k
    BY <2>1 DEF SerialInv, SpecInv, ReadOne
  <2>3. QED
    BY <2>2
<1>2. QED
  BY <1>1, ReadMoves DEF ReadsFrom

(* A state in which the read is held back, once it is asked for.           *)
Held(st) == st \in Working /\ st # "read_mem_spec"

(* The speculation bit is held exactly from e_read_mem_spec to             *)
(* e_resolve_speculation.                                                  *)
LEMMA HeldMove ==
  ASSUME IInv, SerialInv, NEW c \in CCE, CceStep(c), ~CceReadMemSpec(c), ~CceResolve(c)
  PROVE  /\ Held(cceState[c]) <=> Held(cceState'[c])
         /\ Held(cceState[c]) => SameRequest(c)
<1>1. StateMove(cceState[c], cceState'[c])
  BY StateMoves
<1>2. Held(cceState[c]) => SameRequest(c)
  <2>1. \A l \in LCE : CceReady(c, l) => ~Held(cceState[c])
    BY DEF CceReady, Held, Working, Cached
  <2>2. CceUcReq(c) => ~Held(cceState[c])
    BY DEF CceUcReq, Held, Working, Cached
  <2>3. QED
    BY <2>1, <2>2, FsmStays
<1>3. CASE cceState[c] = "read_mem_spec"
  <2>1. cceState'[c] = cceState[c]
    BY <1>3, FsmBy DEF CceReset, CceClearDir, CceLeaveUncached, CceSyncAck, CceUcReq, CceDeqReq,
      CceReadPending, CceReadDir, CceWriteNextState, CceReplacement, CceReplacementWbResp, CceInvCmd,
      CceInvAck, CceUpgrade, CceTransfer, CceTransferWbResp, CceReady, CceSendSync
  <2>2. QED
    BY <1>2, <2>1
<1>4. CASE cceState[c] = "resolve_speculation"
  <2>1. cceState'[c] = cceState[c]
    BY <1>4, FsmBy DEF CceReset, CceClearDir, CceLeaveUncached, CceSyncAck, CceUcReq, CceDeqReq,
      CceReadPending, CceReadDir, CceWriteNextState, CceReplacement, CceReplacementWbResp, CceInvCmd,
      CceInvAck, CceUpgrade, CceTransfer, CceTransferWbResp, CceReady, CceSendSync
  <2>2. QED
    BY <1>2, <2>1
<1>5. CASE cceState[c] \notin {"read_mem_spec", "resolve_speculation"}
  BY <1>1, <1>2, <1>5 DEF StateMove, Moves1, After, Held, Working, Cached
<1>6. QED
  BY <1>3, <1>4, <1>5

(* An engine that works on a request is that of the way group.             *)
LEMMA WorksHome ==
  ASSUME IInv, SerialInv, NEW c \in CCE, cceState[c] \in Cached
  PROVE  HomeOf[ReqSet(c)] = c /\ ReqSet(c) \in Set
BY ConstantsAssumption DEF SerialInv, MshrInv, MshrHome, Home, ReqSet, IInv, CceOK, MshrWF

(* So the bit and the state of the engine agree after a step.              *)
LEMMA ReadHeldCce ==
  ASSUME IInv, IInv', SerialInv, NEW c \in CCE, CceStep(c)
  PROVE  ReadHeld' /\ ReadClean'
<1> SUFFICES ASSUME NEW s \in Set
             PROVE  /\ specBits'[s].spec <=> Serving(s)' /\ cceState'[HomeOf[s]] # "read_mem_spec"
                    /\ specBits'[s].spec => specBits'[s] = [NoSpec EXCEPT !.spec = TRUE]
  BY DEF ReadHeld, ReadClean
<1>1. PICK d \in CCE : d = HomeOf[s]
  BY ConstantsAssumption
<1>2. /\ specBits[s].spec <=> Held(cceState[d]) /\ ReqSet(d) = s
      /\ specBits[s].spec => specBits[s] = [NoSpec EXCEPT !.spec = TRUE]
  BY <1>1 DEF SerialInv, SpecInv, ReadHeld, ReadClean, Serving, Held
<1>3. SUFFICES /\ specBits'[s].spec <=> Held(cceState'[d]) /\ ReqSet(d)' = s
               /\ specBits'[s].spec => specBits'[s] = [NoSpec EXCEPT !.spec = TRUE]
  BY <1>1 DEF Serving, Held
<1>4. CASE CceReadMemSpec(c)
  <2>1. /\ cceState[c] = "read_mem_spec" /\ cceState'[c] = "read_dir" /\ ReqSet(c)' = ReqSet(c)
        /\ specBits' = [specBits EXCEPT ![ReqSet(c)] = [NoSpec EXCEPT !.spec = TRUE]]
    BY <1>4 DEF CceReadMemSpec, Goto, ReqSet, IInv, CceOK, CceTypeOK
  <2>2. HomeOf[ReqSet(c)] = c
    BY <2>1, WorksHome DEF Cached
  <2>3. CASE s = ReqSet(c)
    <3>1. specBits'[s] = [NoSpec EXCEPT !.spec = TRUE]
      BY <2>1, <2>3 DEF IInv, DirTypeOK
    <3>2. specBits'[s].spec = TRUE
      BY <3>1 DEF NoSpec
    <3>3. d = c /\ Held(cceState'[d]) /\ ReqSet(d)' = s
      BY <1>1, <2>1, <2>2, <2>3 DEF Held, Working, Cached
    <3>4. QED
      BY <3>1, <3>2, <3>3
  <2>4. CASE s # ReqSet(c)
    <3>1. specBits'[s] = specBits[s]
      BY <2>1, <2>4 DEF IInv, DirTypeOK
    <3>2. d = c => ReqSet(d) # s /\ ReqSet(d)' # s
      BY <2>1, <2>4
    <3>3. d # c => cceState'[d] = cceState[d] /\ ReqSet(d)' = ReqSet(d)
      BY CceOthers DEF ReqSet
    <3>4. QED
      BY <1>2, <3>1, <3>2, <3>3
  <2>5. QED
    BY <2>3, <2>4
<1>5. CASE CceResolve(c)
  <2>1. /\ cceState[c] = "resolve_speculation" /\ cceState'[c] = "ready"
        /\ specBits' = [specBits EXCEPT ![ReqSet(c)] = Resolved(mshr[c], specBits[ReqSet(c)])]
    BY <1>5 DEF CceResolve, Goto, IInv, CceOK, CceTypeOK
  <2>2. HomeOf[ReqSet(c)] = c /\ ReqSet(c) \in Set
    BY <2>1, WorksHome DEF Cached
  <2>3. CASE s = ReqSet(c)
    <3>1. specBits'[s] = Resolved(mshr[c], specBits[s])
      BY <2>1, <2>3 DEF IInv, DirTypeOK
    <3>2. PICK m \in Mshr, bits \in SpecBits : m = mshr[c] /\ bits = specBits[s]
      BY DEF IInv, DirTypeOK, CceOK, CceTypeOK
    <3>5. Resolved(m, bits).spec = FALSE
      BY ResolvedBits
    <3>3. specBits'[s].spec = FALSE
      BY <3>1, <3>2, <3>5
    <3>4. d = c /\ ~Held(cceState'[d])
      BY <1>1, <2>1, <2>2, <2>3 DEF Held, Working, Cached
    <3>6. QED
      BY <3>3, <3>4
  <2>4. CASE s # ReqSet(c)
    <3>1. specBits'[s] = specBits[s]
      BY <2>1, <2>4 DEF IInv, DirTypeOK
    <3>2. d = c => ReqSet(d) # s /\ ~Held(cceState'[d])
      BY <2>1, <2>4 DEF Held, Working, Cached
    <3>3. d # c => cceState'[d] = cceState[d] /\ ReqSet(d)' = ReqSet(d)
      BY CceOthers DEF ReqSet
    <3>4. QED
      BY <1>2, <3>1, <3>2, <3>3
  <2>5. QED
    BY <2>3, <2>4
<1>6. CASE ~CceReadMemSpec(c) /\ ~CceResolve(c)
  <2>1. specBits' = specBits
    BY <1>6, SpecBy
  <2>2. d # c => cceState'[d] = cceState[d] /\ ReqSet(d)' = ReqSet(d)
    BY CceOthers DEF ReqSet
  <2>3. /\ Held(cceState[c]) <=> Held(cceState'[c])
        /\ Held(cceState[c]) => ReqSet(c)' = ReqSet(c)
    BY <1>6, HeldMove DEF SameRequest, ReqSet
  <2>4. QED
    BY <1>2, <2>1, <2>2, <2>3
<1>7. QED
  BY <1>4, <1>5, <1>6

(* The read of a way group is for the request the engine works for.        *)
LEMMA ReadForCce ==
  ASSUME IInv, IInv', SerialInv, NEW c \in CCE, CceStep(c)
  PROVE  ReadFor'
<1> SUFFICES ASSUME NEW s \in Set, NEW i \in Nat, Serving(s)', ReadOf(s, i)'
             PROVE  LET r == memResp'[HomeOf[s]][i]  m == mshr'[HomeOf[s]] IN
                      /\ cceState'[HomeOf[s]] # "read_mem_spec"
                      /\ r.addr = m.addr /\ r.lce = m.lce /\ r.way = m.lru
  BY DEF ReadFor
<1>1. PICK d \in CCE : d = HomeOf[s]
  BY ConstantsAssumption
<1>2. cceState'[d] \in Working /\ ReqSet(d)' = s
  BY <1>1 DEF Serving
<1>3. CASE \E k \in {0, 1} : \A n \in Nat : ReadOf(s, n)' =>
             /\ n + k \in Nat /\ ReadOf(s, n + k)
             /\ memResp'[HomeOf[s]][n] = memResp[HomeOf[s]][n + k]
  <2>1. PICK j \in Nat : ReadOf(s, j) /\ memResp'[d][i] = memResp[d][j]
    BY <1>1, <1>3
  <2>2. pending[s] # 0
    BY <2>1, ReadIsOp
  <2>3. cceState[d] # "deq_lce_req" \/ ReqSet(d) # s
    BY <2>2 DEF SerialInv, FreeInv
  <2>4. SameRequest(d) /\ StateMove(cceState[d], cceState'[d])
    <3>1. CASE d # c
      <4>1. cceState'[d] = cceState[d] /\ mshr'[d] = mshr[d]
        BY <3>1, CceOthers
      <4>2. QED
        BY <4>1 DEF SameRequest, StateMove
    <3>2. CASE d = c
      <4>1. \A l \in LCE : ~CceReady(c, l)
        <5> SUFFICES ASSUME NEW l \in LCE, CceReady(c, l) PROVE FALSE
          OBVIOUS
        <5>1. PICK st : cceState' = [cceState EXCEPT ![c] = st] /\ st \in {"read_pending", "uc_req"}
          BY DEF CceReady, Goto
        <5>2. QED
          BY <1>2, <3>2, <5>1 DEF Working, Cached, IInv, CceOK, CceTypeOK
      <4>2. ~CceUcReq(c)
        BY <1>2, <3>2 DEF CceUcReq, Goto, Working, Cached, IInv, CceOK, CceTypeOK
      <4>3. ~CceResolve(c)
        BY <1>2, <3>2 DEF CceResolve, Goto, Working, Cached, IInv, CceOK, CceTypeOK
      <4>4. QED
        BY <3>2, <4>1, <4>2, <4>3, FsmStays, StateMoves
    <3>3. QED
      BY <3>1, <3>2
  <2>5. ReqSet(d) = s
    BY <1>2, <2>4 DEF SameRequest, ReqSet
  <2>6. cceState[d] \in Working
    BY <1>2, <2>3, <2>4, <2>5 DEF StateMove, Moves1, After, Working, Cached
  <2>7. /\ cceState[d] # "read_mem_spec"
        /\ memResp[d][j].addr = mshr[d].addr /\ memResp[d][j].lce = mshr[d].lce
        /\ memResp[d][j].way = mshr[d].lru
    BY <1>1, <2>1, <2>5, <2>6 DEF SerialInv, SpecInv, ReadFor, Serving
  <2>8. cceState'[d] # "read_mem_spec"
    BY <2>3, <2>4, <2>5, <2>6, <2>7 DEF StateMove, Moves1, After, Working, Cached
  <2>9. QED
    BY <1>1, <2>1, <2>4, <2>7, <2>8 DEF SameRequest
<1>4. CASE /\ CceReadMemSpec(c) /\ s = ReqSet(c) /\ c = HomeOf[s]
           /\ \E n, r : ReadNew(c, r) /\ \A k \in Nat : ReadOf(s, k)' =>
                k = n /\ memResp'[HomeOf[s]][k] = r
  <2>1. PICK r : ReadNew(c, r) /\ memResp'[c][i] = r
    BY <1>4
  <2>2. mshr'[c] = mshr[c] /\ cceState'[c] = "read_dir"
    BY <1>4 DEF CceReadMemSpec, Goto, IInv, CceOK, CceTypeOK
  <2>3. QED
    BY <1>4, <2>1, <2>2 DEF ReadNew
<1>5. QED
  BY <1>3, <1>4, ReadMoves DEF ReadsFrom

(* SpecInv, step of an engine.                                             *)
LEMMA SpecCce ==
  ASSUME IInv, IInv', SerialInv, NEW c \in CCE, CceStep(c)
  PROVE  SpecInv'
BY ReadOneCce, ReadHeldCce, ReadForCce DEF SpecInv

(* SpecInv, step of a cache.                                               *)
LEMMA SpecLce ==
  ASSUME IInv, SerialInv, NEW l \in LCE, LceStep(l)
  PROVE  SpecInv'
<1>1. /\ cceState' = cceState /\ mshr' = mshr /\ specBits' = specBits /\ memResp' = memResp
  BY LceLeaves
<1>2. ReadOne'
  BY <1>1 DEF SerialInv, SpecInv, ReadOne, ReadOf
<1>3. ReadHeld' /\ ReadClean'
  BY <1>1 DEF SerialInv, SpecInv, ReadHeld, ReadClean, Serving, ReqSet
<1>4. ReadFor'
  BY <1>1 DEF SerialInv, SpecInv, ReadFor, ReadOf, Serving, ReqSet
<1>5. QED
  BY <1>2, <1>3, <1>4 DEF SpecInv

----------------------------------------------------------------------------
(* Write-backs.                                                            *)

(* The write-back engine c waits for is in place <<a, x>>: the command for *)
(* block b that asks for it, with its type, or the response.               *)
WbIs(c, a, x, b, t) ==
  \/ a = "cmd" /\ WbCmd(c, x) /\ b = x.addr /\ t = x.type
  \/ a = "lce" /\ x \in LCE /\ WbLce(c, x) /\ b = lceCmd[x].addr /\ t = lceCmd[x].type
  \/ a = "resp" /\ WbResp(c, x) /\ b = x.addr /\ t = "resp"
WbWaiting(st) == st \in {"replacement_wb_resp", "transfer_wb_resp"}
WbFits ==
  \A c \in CCE : \A a, x, b, t : WbIs(c, a, x, b, t) =>
    WbWaiting(cceState[c]) /\ b = WbAddr(c) /\ (t = WbType(c) \/ t = "resp")
WbUnique ==
  \A c \in CCE : \A a, x, b, t, aa, xx, bb, tt :
    WbIs(c, a, x, b, t) /\ WbIs(c, aa, xx, bb, tt) => a = aa /\ x = xx

(* WbInv, place by place.                                                  *)
LEMMA WbNow == ASSUME WbInv PROVE WbFits /\ WbUnique
<1>1. \A c \in CCE : \A a, x, b, t : WbIs(c, a, x, b, t) => WbTok(c, a, x)
  BY DEF WbIs, WbTok
<1>2. WbUnique
  BY <1>1 DEF WbInv, WbOne, WbUnique
<1>3. WbFits
  <2> SUFFICES ASSUME NEW c \in CCE, NEW a, NEW x, NEW b, NEW t, WbIs(c, a, x, b, t)
               PROVE  WbWaiting(cceState[c]) /\ b = WbAddr(c) /\ (t = WbType(c) \/ t = "resp")
    BY DEF WbFits
  <2>1. WbWaiting(cceState[c])
    BY <1>1 DEF WbInv, WbWaits, WbWaiting
  <2>2. b = WbAddr(c) /\ (t = WbType(c) \/ t = "resp")
    BY DEF WbIs, WbInv, WbAsked
  <2>3. QED
    BY <2>1, <2>2
<1>4. QED
  BY <1>2, <1>3

(* And back, in the next state.                                            *)
LEMMA WbThen == ASSUME WbFits', WbUnique' PROVE WbInv'
<1>1. \A c \in CCE : \A a, x : WbTok(c, a, x)' => \E b, t : WbIs(c, a, x, b, t)'
  BY DEF WbIs, WbTok
<1>2. WbOne'
  BY <1>1 DEF WbUnique, WbOne
<1>3. WbWaits'
  BY <1>1 DEF WbFits, WbWaits, WbWaiting
<1>4. WbAsked'
  <2> SUFFICES ASSUME NEW c \in CCE
               PROVE  /\ \A m : WbCmd(c, m)' => m.addr = WbAddr(c)' /\ m.type = WbType(c)'
                      /\ \A k \in LCE : WbLce(c, k)' =>
                           lceCmd'[k].addr = WbAddr(c)' /\ lceCmd'[k].type = WbType(c)'
                      /\ \A m : WbResp(c, m)' => m.addr = WbAddr(c)'
    BY DEF WbAsked
  <2>1. ASSUME NEW m, WbCmd(c, m)'
        PROVE  m.addr = WbAddr(c)' /\ m.type = WbType(c)'
    <3>1. WbIs(c, "cmd", m, m.addr, m.type)'
      BY <2>1 DEF WbIs
    <3>2. m.type # "resp"
      BY <2>1 DEF WbCmd
    <3>3. QED
      BY <3>1, <3>2 DEF WbFits
  <2>2. ASSUME NEW k \in LCE, WbLce(c, k)'
        PROVE  lceCmd'[k].addr = WbAddr(c)' /\ lceCmd'[k].type = WbType(c)'
    <3>1. WbIs(c, "lce", k, lceCmd[k].addr, lceCmd[k].type)'
      BY <2>2 DEF WbIs
    <3>2. lceCmd'[k].type # "resp"
      BY <2>2 DEF WbLce, Holds
    <3>3. QED
      BY <3>1, <3>2 DEF WbFits
  <2>3. ASSUME NEW m, WbResp(c, m)'
        PROVE  m.addr = WbAddr(c)'
    <3>1. WbIs(c, "resp", m, m.addr, "resp")'
      BY <2>3 DEF WbIs
    <3>2. QED
      BY <3>1 DEF WbFits
  <2>4. QED
    BY <2>1, <2>2, <2>3
<1>5. QED
  BY <1>2, <1>3, <1>4 DEF WbInv

(* Nothing comes: every write-back under way was, and its engine waits on. *)
LEMMA WbQuietStep ==
  ASSUME WbInv,
         \A d \in CCE : \A a, x, b, t : WbIs(d, a, x, b, t)' =>
           /\ WbIs(d, a, x, b, t)
           /\ WbWaiting(cceState[d]) =>
                cceState'[d] = cceState[d] /\ WbAddr(d)' = WbAddr(d)
  PROVE  WbInv'
<1>1. WbFits /\ WbUnique
  BY WbNow
<1>2. WbUnique'
  BY <1>1 DEF WbUnique
<1>3. WbFits'
  <2> SUFFICES ASSUME NEW d \in CCE, NEW a, NEW x, NEW b, NEW t, WbIs(d, a, x, b, t)'
               PROVE  /\ WbWaiting(cceState'[d]) /\ b = WbAddr(d)'
                      /\ t = WbType(d)' \/ t = "resp"
    BY DEF WbFits
  <2>1. WbIs(d, a, x, b, t)
    OBVIOUS
  <2>2. WbWaiting(cceState[d]) /\ b = WbAddr(d) /\ (t = WbType(d) \/ t = "resp")
    BY <1>1, <2>1 DEF WbFits
  <2>3. cceState'[d] = cceState[d] /\ WbAddr(d)' = WbAddr(d)
    BY <2>2
  <2>4. WbType(d)' = WbType(d)
    BY <2>3 DEF WbType
  <2>5. QED
    BY <2>2, <2>3, <2>4
<1>4. QED
  BY <1>2, <1>3, WbThen

(* The write-back of engine c moves from place <<aa, xx>> to <<ya, yx>>.   *)
LEMMA WbMoveStep ==
  ASSUME WbInv, UNCHANGED <<cceState, mshr>>, NEW c \in CCE, NEW aa, NEW xx, NEW bb, NEW tt,
         WbIs(c, aa, xx, bb, tt), NEW ya, NEW yx,
         \A d \in CCE : \A a, x, b, t : WbIs(d, a, x, b, t)' =>
           \/ WbIs(d, a, x, b, t) /\ ~(d = c /\ a = aa /\ x = xx)
           \/ d = c /\ a = ya /\ x = yx /\ b = bb /\ (t = tt \/ t = "resp")
  PROVE  WbInv'
<1>1. WbFits /\ WbUnique
  BY WbNow
<1>2. \A d \in CCE : WbAddr(d)' = WbAddr(d) /\ WbType(d)' = WbType(d)
  BY DEF WbAddr, WbType
<1>3. \A a, x, b, t : WbIs(c, a, x, b, t)' => a = ya /\ x = yx /\ b = bb /\ (t = tt \/ t = "resp")
  BY <1>1 DEF WbUnique
<1>4. \A d \in CCE : d # c => \A a, x, b, t : WbIs(d, a, x, b, t)' => WbIs(d, a, x, b, t)
  OBVIOUS
<1>5. WbUnique'
  BY <1>1, <1>3, <1>4 DEF WbUnique
<1>6. WbFits'
  BY <1>1, <1>2, <1>3, <1>4 DEF WbFits
<1>7. QED
  BY <1>5, <1>6, WbThen

(* Engine c asks for its first write-back: for one command, or for none.   *)
LEMMA WbAskStep ==
  ASSUME WbInv, NEW c \in CCE, ~WbWaiting(cceState[c]), WbWaiting(cceState'[c]), NEW m,
         \A d \in CCE : d # c => cceState'[d] = cceState[d] /\ mshr'[d] = mshr[d],
         m.addr = WbAddr(c)', m.type = WbType(c)',
         \A d \in CCE : \A a, x, b, t : WbIs(d, a, x, b, t)' =>
           \/ WbIs(d, a, x, b, t)
           \/ d = c /\ a = "cmd" /\ x = m /\ b = m.addr /\ t = m.type
  PROVE  WbInv'
<1>1. WbFits /\ WbUnique
  BY WbNow
<1>2. \A d \in CCE : d # c => WbAddr(d)' = WbAddr(d) /\ WbType(d)' = WbType(d)
  BY DEF WbAddr, WbType
<1>3. \A a, x, b, t : WbIs(c, a, x, b, t)' => a = "cmd" /\ x = m /\ b = m.addr /\ t = m.type
  BY <1>1 DEF WbFits
<1>4. \A d \in CCE : d # c => \A a, x, b, t : WbIs(d, a, x, b, t)' => WbIs(d, a, x, b, t)
  OBVIOUS
<1>5. WbUnique'
  BY <1>1, <1>3, <1>4 DEF WbUnique
<1>6. WbFits'
  BY <1>1, <1>2, <1>3, <1>4 DEF WbFits
<1>7. QED
  BY <1>5, <1>6, WbThen

(* Engine c takes the write-back: nothing is left.                         *)
LEMMA WbTakeStep ==
  ASSUME WbInv, NEW c \in CCE, NEW m, WbIs(c, "resp", m, m.addr, "resp"),
         respNet' = respNet \ {m}, UNCHANGED <<cmdNet, lceCmd>>,
         \A d \in CCE : d # c => cceState'[d] = cceState[d] /\ mshr'[d] = mshr[d]
  PROVE  WbInv'
<1>1. WbFits /\ WbUnique
  BY WbNow
<1>2. \A d \in CCE : \A a, x, b, t : WbIs(d, a, x, b, t)' =>
        WbIs(d, a, x, b, t) /\ ~(a = "resp" /\ x = m)
  BY DEF WbIs, WbCmd, WbLce, WbResp, Holds
<1>3. \A a, x, b, t : ~WbIs(c, a, x, b, t)'
  BY <1>1, <1>2 DEF WbUnique
<1>4. \A d \in CCE : d # c => WbAddr(d)' = WbAddr(d)
  BY SMTT(40) DEF WbAddr
<1>5. QED
  BY <1>2, <1>3, <1>4, WbQuietStep

(* While an engine waits for a write-back it does nothing else.            *)
LEMMA WbKept ==
  ASSUME NEW c \in CCE, CceStep(c), WbWaiting(cceState[c]),
         ~CceReplacementWbResp(c), ~CceTransferWbResp(c)
  PROVE  cceState' = cceState /\ mshr' = mshr
BY FsmBy DEF WbWaiting, CceReset, CceClearDir, CceLeaveUncached, CceSyncAck, CceUcReq, CceDeqReq,
  CceReadPending, CceReadMemSpec, CceReadDir, CceWriteNextState, CceReplacement, CceInvCmd,
  CceInvAck, CceUpgrade, CceTransfer, CceResolve, CceReady, CceSendSync

(* Of the commands an engine sends, two ask for a write-back.              *)
LEMMA WbSent ==
  ASSUME NEW c \in CCE, CceStep(c), ~CceReplacement(c), ~CceTransfer(c)
  PROVE  \A m \in cmdNet' : m \in cmdNet \/ m.type \notin {"st_wb", "st_tr_wb"}
<1>1. CASE MemRespFill(c)
  BY <1>1 DEF MemRespFill, SendCmd, FillCmd
<1>2. CASE MemRespUncached(c)
  BY <1>2 DEF MemRespUncached, SendCmd
<1>3. CASE CceInvCmd(c)
  BY <1>3 DEF CceInvCmd, SendCmd
<1>4. CASE CceUpgrade(c)
  BY <1>4 DEF CceUpgrade, SendCmd
<1>5. CASE \E l \in LCE : CceSendSync(c, l)
  BY <1>5 DEF CceSendSync, SendCmd
<1>6. QED
  BY <1>1, <1>2, <1>3, <1>4, <1>5, CmdBy

(* Of the responses an engine takes, none is new.                          *)
LEMMA RespFewer ==
  ASSUME NEW c \in CCE, CceStep(c)
  PROVE  respNet' \subseteq respNet
BY RespBy DEF CceSyncAck, CceReplacementWbResp, CceInvAck, CceTransferWbResp, CohAck, TakeResp,
  WritebackResp

(* The commands held stay, the responses get fewer, and the commands sent  *)
(* are no write-backs: nothing comes.                                      *)
LEMMA WbFewer ==
  ASSUME lceCmd' = lceCmd, respNet' \subseteq respNet,
         \A m \in cmdNet' : m \in cmdNet \/ m.type \notin {"st_wb", "st_tr_wb"}
  PROVE  \A d \in CCE : \A a, x, b, t : WbIs(d, a, x, b, t)' => WbIs(d, a, x, b, t)
BY DEF WbIs, WbCmd, WbLce, WbResp, Holds

(* The engine takes the only write-back there is and waits for none.       *)
LEMMA WbCceTake ==
  ASSUME IInv, SerialInv, NEW c \in CCE, CceStep(c),
         CceReplacementWbResp(c) \/ CceTransferWbResp(c)
  PROVE  WbInv'
<1>1. PICK m \in respNet : WritebackResp(c, m) /\ cmdNet' = cmdNet
  BY DEF CceReplacementWbResp, CceTransferWbResp
<1>2. WbIs(c, "resp", m, m.addr, "resp") /\ respNet' = respNet \ {m}
  BY <1>1 DEF WritebackResp, TakeResp, WbIs, WbResp
<1>3. \A d \in CCE : d # c => cceState'[d] = cceState[d] /\ mshr'[d] = mshr[d]
  BY CceOthers
<1>4. lceCmd' = lceCmd
  BY CceLeaves
<1>5. QED
  BY <1>1, <1>2, <1>3, <1>4, WbTakeStep DEF SerialInv

(* It asks for one when there is none.                                     *)
LEMMA WbCceAsk ==
  ASSUME IInv, SerialInv, NEW c \in CCE, CceStep(c),
         CceReplacement(c) \/ CceTransfer(c)
  PROVE  WbInv'
<1>1. lceCmd' = lceCmd /\ respNet' \subseteq respNet
  BY CceLeaves, RespFewer
<1>2. \A d \in CCE : d # c => cceState'[d] = cceState[d] /\ mshr'[d] = mshr[d]
  BY CceOthers
<1>3. cceState[c] \in {"replacement", "transfer"} /\ mshr' = mshr
  BY DEF CceReplacement, CceTransfer
<1>4. PICK m : /\ cmdNet' = cmdNet \cup {m}
               /\ \/ /\ m.type = "st_wb" /\ m.addr = mshr[c].lruBlk /\ m.src = c
                     /\ cceState'[c] = "replacement_wb_resp"
                  \/ /\ m.type = "st_tr_wb" /\ m.addr = mshr[c].addr /\ m.src = c
                     /\ cceState'[c] = "transfer_wb_resp"
                  \/ m.type = "st_tr"
  <2>1. CASE CceReplacement(c)
    <3>1. PICK m : m = [type |-> "st_wb", src |-> c, dst |-> mshr[c].lce,
                        addr |-> mshr[c].lruBlk, way |-> mshr[c].lru, st |-> "I"]
      OBVIOUS
    <3>2. cmdNet' = cmdNet \cup {m}
      BY <2>1, <3>1 DEF CceReplacement, SendCmd
    <3>3. m.type = "st_wb" /\ m.addr = mshr[c].lruBlk /\ m.src = c
      BY <3>1
    <3>4. cceState'[c] = "replacement_wb_resp"
      BY <2>1 DEF CceReplacement, Goto, IInv, CceOK, CceTypeOK
    <3>5. QED
      BY <3>2, <3>3, <3>4
  <2>2. CASE CceTransfer(c)
    <3>1. PICK m : m = [type |-> IF mshr[c].write THEN "st_tr" ELSE "st_tr_wb",
                   src |-> c, dst |-> mshr[c].owner, addr |-> mshr[c].addr,
                   way |-> mshr[c].ownerWay, st |-> IF mshr[c].write THEN "I" ELSE "S",
                   target |-> mshr[c].lce, targetWay |-> mshr[c].lru, targetSt |-> mshr[c].next]
      OBVIOUS
    <3>2. cmdNet' = cmdNet \cup {m}
      BY <2>2, <3>1 DEF CceTransfer, SendCmd
    <3>3. m.addr = mshr[c].addr /\ m.src = c
      BY <3>1
    <3>4. CASE mshr[c].write
      <4>1. m.type = "st_tr"
        BY <3>1, <3>4
      <4>2. QED
        BY <3>2, <4>1
    <3>5. CASE ~mshr[c].write
      <4>1. m.type = "st_tr_wb"
        BY <3>1, <3>5
      <4>2. cceState'[c] = "transfer_wb_resp"
        BY <2>2, <3>5 DEF CceTransfer, Goto, IInv, CceOK, CceTypeOK
      <4>3. QED
        BY <3>2, <3>3, <4>1, <4>2
    <3>6. QED
      BY <3>4, <3>5
  <2>3. QED
    BY <2>1, <2>2
<1>5. CASE m.type = "st_tr"
  <2>1. \A d \in CCE : \A a, x, b, t : WbIs(d, a, x, b, t)' => WbIs(d, a, x, b, t)
    BY <1>1, <1>4, <1>5, WbFewer
  <2>2. \A d \in CCE : WbWaiting(cceState[d]) =>
          cceState'[d] = cceState[d] /\ WbAddr(d)' = WbAddr(d)
    BY <1>2, <1>3 DEF WbWaiting, WbAddr
  <2>3. QED
    BY <2>1, <2>2, WbQuietStep DEF SerialInv
<1>6. CASE m.type # "st_tr"
  <2>1. \A d \in CCE : \A a, x, b, t : WbIs(d, a, x, b, t)' =>
           \/ WbIs(d, a, x, b, t)
           \/ d = c /\ a = "cmd" /\ x = m /\ b = m.addr /\ t = m.type
    BY <1>1, <1>4, <1>6 DEF WbIs, WbCmd, WbLce, WbResp, Holds
  <2>2. m.addr = WbAddr(c)' /\ m.type = WbType(c)' /\ WbWaiting(cceState'[c])
    BY <1>3, <1>4, <1>6 DEF WbAddr, WbType, WbWaiting
  <2>3. ~WbWaiting(cceState[c])
    BY <1>3 DEF WbWaiting
  <2>4. QED
    BY <1>2, <2>1, <2>2, <2>3, WbAskStep DEF SerialInv
<1>7. QED
  BY <1>5, <1>6

(* WbInv, step of an engine.                                               *)
LEMMA WbCce ==
  ASSUME IInv, SerialInv, NEW c \in CCE, CceStep(c)
  PROVE  WbInv'
<1>1. CASE CceReplacementWbResp(c) \/ CceTransferWbResp(c)
  BY <1>1, WbCceTake
<1>2. CASE CceReplacement(c) \/ CceTransfer(c)
  BY <1>2, WbCceAsk
<1>3. CASE ~(\/ CceReplacementWbResp(c) \/ CceTransferWbResp(c)
             \/ CceReplacement(c) \/ CceTransfer(c))
  <2>1. \A d \in CCE : \A a, x, b, t : WbIs(d, a, x, b, t)' => WbIs(d, a, x, b, t)
    <3>1. lceCmd' = lceCmd /\ respNet' \subseteq respNet
      BY CceLeaves, RespFewer
    <3>2. \A m \in cmdNet' : m \in cmdNet \/ m.type \notin {"st_wb", "st_tr_wb"}
      BY <1>3, WbSent
    <3>3. QED
      BY <3>1, <3>2, WbFewer
  <2>2. \A d \in CCE : WbWaiting(cceState[d]) =>
          cceState'[d] = cceState[d] /\ WbAddr(d)' = WbAddr(d)
    <3> SUFFICES ASSUME NEW d \in CCE, WbWaiting(cceState[d])
                 PROVE  cceState'[d] = cceState[d] /\ WbAddr(d)' = WbAddr(d)
      OBVIOUS
    <3>1. cceState'[d] = cceState[d] /\ mshr'[d] = mshr[d]
      <4>1. CASE d = c
        BY <1>3, <4>1, WbKept
      <4>2. CASE d # c
        BY <4>2, CceOthers
      <4>3. QED
        BY <4>1, <4>2
    <3>2. QED
      BY <3>1 DEF WbAddr
  <2>3. QED
    BY <2>1, <2>2, WbQuietStep DEF SerialInv
<1>4. QED
  BY <1>1, <1>2, <1>3

(* The engine's registers stay: a cache that brings no write-back changes  *)
(* nothing.                                                                *)
LEMMA WbLceQuiet ==
  ASSUME SerialInv, NEW l \in LCE, LceStep(l),
         \A d \in CCE : \A a, x, b, t : WbIs(d, a, x, b, t)' => WbIs(d, a, x, b, t)
  PROVE  WbInv'
<1>1. \A d \in CCE : cceState'[d] = cceState[d] /\ WbAddr(d)' = WbAddr(d)
  BY LceLeaves DEF WbAddr
<1>2. QED
  BY <1>1, WbQuietStep DEF SerialInv

(* A command that reaches its cache is the same request for a write-back.  *)
LEMMA WbHead ==
  ASSUME IInv, SerialInv, NEW l \in LCE, LceStep(l), LceHead(l)
  PROVE  WbInv'
<1>1. PICK m \in cmdNet : /\ m.dst = l /\ lceCmd[l] = None
                          /\ lceCmd' = [lceCmd EXCEPT ![l] = m]
                          /\ cmdNet' = cmdNet \ {m} /\ respNet' = respNet
  BY DEF LceHead, netVars
<1>2. lceCmd'[l] = m /\ \A k \in LCE : k # l => lceCmd'[k] = lceCmd[k]
  BY <1>1 DEF IInv, LceOK, LceTypeOK
<1>3. cceState' = cceState /\ mshr' = mshr
  BY LceLeaves
<1>4. PICK c \in CCE : c = m.src
  BY CommandFields DEF IInv, NetTypeOK
<1>0. WbInv
  BY DEF SerialInv
<1>5. CASE m.type \in {"st_wb", "st_tr_wb"}
  <2>1. WbIs(c, "cmd", m, m.addr, m.type)
    BY <1>4, <1>5 DEF WbIs, WbCmd
  <2>2. \A d \in CCE : \A a, x, b, t : WbIs(d, a, x, b, t)' =>
           \/ WbIs(d, a, x, b, t) /\ ~(d = c /\ a = "cmd" /\ x = m)
           \/ d = c /\ a = "lce" /\ x = l /\ b = m.addr /\ (t = m.type \/ t = "resp")
    BY <1>1, <1>2, <1>4 DEF WbIs, WbCmd, WbLce, WbResp, Holds
  <2>3. QED
    BY <1>0, <1>3, <2>1, <2>2, WbMoveStep
<1>6. CASE m.type \notin {"st_wb", "st_tr_wb"}
  <2>1. \A d \in CCE : \A a, x, b, t : WbIs(d, a, x, b, t)' => WbIs(d, a, x, b, t)
    BY <1>1, <1>2, <1>6 DEF WbIs, WbCmd, WbLce, WbResp, Holds
  <2>2. QED
    BY <2>1, WbLceQuiet
<1>7. QED
  BY <1>5, <1>6

(* The cache answers with the write-back, dirty or not.                    *)
LEMMA WbAnswer ==
  ASSUME IInv, SerialInv, NEW l \in LCE, LceStep(l), lceState[l] \in {"wb", "wb_dirty_send"},
         NEW m, m.dst = lceCmd[l].src, m.addr = lceCmd[l].addr,
         respNet' = respNet \cup {m}, Dequeue(l), cmdNet' = cmdNet
  PROVE  WbInv'
<1>1. PICK p : p = lceCmd[l]
  OBVIOUS
<1>2. Holds(l, {"st_wb", "st_tr_wb"}) /\ p \in Command
  BY <1>1 DEF IInv, LceOK, CmdWF, LceTypeOK, Holds
<1>3. PICK c \in CCE : c = p.src
  BY <1>2, CommandFields
<1>4. WbIs(c, "lce", l, p.addr, p.type)
  BY <1>1, <1>2, <1>3 DEF WbIs, WbLce
<1>5. lceCmd'[l] = None /\ \A k \in LCE : k # l => lceCmd'[k] = lceCmd[k]
  BY DEF Dequeue, IInv, LceOK, LceTypeOK
<1>6. \A d \in CCE : \A a, x, b, t : WbIs(d, a, x, b, t)' =>
         \/ WbIs(d, a, x, b, t) /\ ~(d = c /\ a = "lce" /\ x = l)
         \/ d = c /\ a = "resp" /\ x = m /\ b = p.addr /\ (t = p.type \/ t = "resp")
  BY <1>1, <1>3, <1>5 DEF WbIs, WbCmd, WbLce, WbResp, Holds
<1>7. cceState' = cceState /\ mshr' = mshr
  BY LceLeaves
<1>8. WbInv
  BY DEF SerialInv
<1>9. QED
  BY <1>4, <1>6, <1>7, <1>8, WbMoveStep

(* WbInv, step of a cache.                                                 *)
LEMMA WbLceStep ==
  ASSUME IInv, SerialInv, NEW l \in LCE, LceStep(l)
  PROVE  WbInv'
<1>1. CASE LceHead(l)
  BY <1>1, WbHead
<1>2. CASE LceWb(l)
  <2>1. CASE dirty[l][CmdFrame(l)]
    <3>1. lceCmd' = lceCmd /\ respNet' = respNet /\ cmdNet' = cmdNet
      BY <1>2, <2>1 DEF LceWb
    <3>2. QED
      BY <3>1, WbFewer, WbLceQuiet
  <2>2. CASE ~dirty[l][CmdFrame(l)]
    <3>1. PICK m : m = CmdResp(l, "null_wb")
      OBVIOUS
    <3>2. m.dst = lceCmd[l].src /\ m.addr = lceCmd[l].addr
      BY <3>1 DEF CmdResp
    <3>3. lceState[l] = "wb" /\ respNet' = respNet \cup {m} /\ Dequeue(l) /\ cmdNet' = cmdNet
      BY <1>2, <2>2, <3>1 DEF LceWb, Respond
    <3>4. QED
      BY <3>2, <3>3, WbAnswer
  <2>3. QED
    BY <2>1, <2>2
<1>3. CASE LceWbDirtySend(l)
  <2>1. PICK m : m = [type |-> "wb", src |-> l, dst |-> lceCmd[l].src,
                      addr |-> lceCmd[l].addr, data |-> dataBuf[l]]
    OBVIOUS
  <2>2. m.dst = lceCmd[l].src /\ m.addr = lceCmd[l].addr
    BY <2>1
  <2>3. /\ lceState[l] = "wb_dirty_send" /\ respNet' = respNet \cup {m} /\ Dequeue(l)
        /\ cmdNet' = cmdNet
    BY <1>3, <2>1 DEF LceWbDirtySend, Respond
  <2>4. QED
    BY <2>2, <2>3, WbAnswer
<1>4. CASE ~LceHead(l) /\ ~LceWb(l) /\ ~LceWbDirtySend(l)
  <2>1. \A m \in cmdNet' : m \in cmdNet \/ m.type \notin {"st_wb", "st_tr_wb"}
    <3>1. CASE LceTr(l)
      <4>1. PICK m : m.type = "data" /\ cmdNet' = cmdNet \cup {m}
        <5>1. PICK m : m = [type |-> "data", src |-> lceCmd[l].src, dst |-> lceCmd[l].target,
                addr |-> lceCmd[l].addr, way |-> lceCmd[l].targetWay, st |-> lceCmd[l].targetSt,
                data |-> dataBuf[l]]
          OBVIOUS
        <5>2. m.type = "data"
          BY <5>1
        <5>3. QED
          BY <3>1, <5>1, <5>2 DEF LceTr
      <4>2. QED
        BY <4>1
    <3>2. QED
      BY <1>4, <3>1, LceNetBy
  <2>2. \A m \in respNet' : m \in respNet \/ m.type \notin {"wb", "null_wb"}
    <3>1. CASE LceSync(l)
      BY <3>1 DEF LceSync, Respond
    <3>2. CASE LceInv(l)
      BY <3>2 DEF LceInv, Respond, CmdResp
    <3>3. CASE LceCohAck(l)
      BY <3>3 DEF LceCohAck, Respond, CmdResp
    <3>4. QED
      BY <1>4, <3>1, <3>2, <3>3, LceRespBy
  <2>3. \A k \in LCE : lceCmd'[k] = lceCmd[k] \/ lceCmd'[k] = None
    <3>1. lceCmd' = lceCmd \/ Dequeue(l)
      BY <1>4, LceCmdBy DEF LceSync, LceInv, LceUcStDone, LceUcData, LceCohAck, LceTr
    <3>2. QED
      BY <3>1 DEF Dequeue, IInv, LceOK, LceTypeOK
  <2>4. \A d \in CCE : \A a, x, b, t : WbIs(d, a, x, b, t)' => WbIs(d, a, x, b, t)
    BY <2>1, <2>2, <2>3 DEF WbIs, WbCmd, WbLce, WbResp, Holds
  <2>5. QED
    BY <2>4, WbLceQuiet
<1>5. QED
  BY <1>1, <1>2, <1>3, <1>4

----------------------------------------------------------------------------
(* Entries of the directory.                                               *)

(* What a step of engine c does to the directory: it clears its part of    *)
(* it, writes an entry for its block, or the state of an entry.            *)
DirEntry(l, b, w, blk, st) ==
  \A k \in LCE, f \in Frame :
    \/ dir'[k][f] = dir[k][f] /\ ~(k = l /\ f = FrameOf(b, w))
    \/ /\ k = l /\ f = FrameOf(b, w)
       /\ dir'[k][f].blk = blk /\ dir'[k][f].st = st

(* WriteState changes the state of one entry.                              *)
LEMMA StateWritten ==
  ASSUME IInv, NEW l \in LCE, NEW b \in Block, NEW w \in Way, NEW st,
         dir' = WriteState(dir, l, b, w, st)
  PROVE  DirEntry(l, b, w, dir[l][FrameOf(b, w)].blk, st)
<1>1. PICK f \in Frame : f = FrameOf(b, w)
  BY FrameIn
<1>2. dir \in [LCE -> [Frame -> Line]]
  BY DEF IInv, DirTypeOK
<1>3. dir' = [dir EXCEPT ![l] = [dir[l] EXCEPT ![f] = [dir[l][f] EXCEPT !.st = st]]]
  BY <1>1, <1>2 DEF WriteState
<1>4. dir[l][f] \in Line
  BY <1>2
<1>5. /\ \A k \in LCE : k # l => dir'[k] = dir[k]
      /\ \A g \in Frame : g # f => dir'[l][g] = dir[l][g]
      /\ dir'[l][f] = [dir[l][f] EXCEPT !.st = st]
  BY <1>2, <1>3
<1>6. dir'[l][f].blk = dir[l][f].blk /\ dir'[l][f].st = st
  BY <1>4, <1>5 DEF Line
<1>7. QED
  BY <1>1, <1>5, <1>6 DEF DirEntry

(* WriteEntry changes one entry.                                           *)
LEMMA EntryWritten ==
  ASSUME IInv, NEW l \in LCE, NEW b \in Block, NEW w \in Way, NEW st,
         dir' = WriteEntry(dir, l, b, w, st)
  PROVE  DirEntry(l, b, w, b, st)
<1>1. PICK f \in Frame : f = FrameOf(b, w)
  BY FrameIn
<1>2. dir \in [LCE -> [Frame -> Line]]
  BY DEF IInv, DirTypeOK
<1>3. dir' = [dir EXCEPT ![l] = [dir[l] EXCEPT ![f] = [blk |-> b, st |-> st]]]
  BY <1>1, <1>2 DEF WriteEntry
<1>5. /\ \A k \in LCE : k # l => dir'[k] = dir[k]
      /\ \A g \in Frame : g # f => dir'[l][g] = dir[l][g]
      /\ dir'[l][f] = [blk |-> b, st |-> st]
  BY <1>2, <1>3
<1>6. dir'[l][f].blk = b /\ dir'[l][f].st = st
  BY <1>5
<1>7. QED
  BY <1>1, <1>5, <1>6 DEF DirEntry

(* The block, the victim and the owner of a decided request are known.     *)
LEMMA MshrKnown ==
  ASSUME IInv, NEW c \in CCE, cceState[c] \in Decided
  PROVE  LET m == mshr[c] IN
           /\ m.lce \in LCE /\ m.addr \in Block /\ m.lru \in Way
           /\ m.uf => m.way \in Way
           /\ m.xf => m.owner \in LCE /\ m.ownerWay \in Way
BY DEF IInv, CceOK, MshrWF, Decided, Cached

(* A directory that is cleared has no entries; the others stay.            *)
LEMMA ClearedEntry ==
  ASSUME NEW c \in CCE, CceClearDir(c), NEW l \in LCE, NEW s \in Set, NEW w \in Way
  PROVE  /\ HomeOf[s] = c => dir'[l][<<s, w>>].st = "I"
         /\ HomeOf[s] # c => dir'[l][<<s, w>>] = dir[l][<<s, w>>]
<1>0. PICK f : f = <<s, w>>
  OBVIOUS
<1>1. f = <<s, w>> /\ f \in Frame /\ f[1] = s
  BY <1>0 DEF Frame
<1>2. dir'[l][f] = IF HomeOf[f[1]] = c THEN [blk |-> dir[l][f].blk, st |-> "I"] ELSE dir[l][f]
  BY <1>1 DEF CceClearDir
<1>3. CASE HomeOf[s] = c
  <2>1. dir'[l][f] = [blk |-> dir[l][f].blk, st |-> "I"]
    BY <1>1, <1>2, <1>3
  <2>2. QED
    BY <1>1, <1>3, <2>1
<1>4. CASE HomeOf[s] # c
  BY <1>1, <1>2, <1>4
<1>5. QED
  BY <1>3, <1>4

DirMove(c) ==
  \/ dir' = dir
  \/ CceClearDir(c)
  \/ /\ cceState[c] = "write_next_state" /\ mshr[c].uf
     /\ DirEntry(mshr[c].lce, mshr[c].addr, mshr[c].way,
                 dir[mshr[c].lce][FrameOf(mshr[c].addr, mshr[c].way)].blk, mshr[c].next)
  \/ /\ cceState[c] = "write_next_state" /\ ~mshr[c].uf
     /\ DirEntry(mshr[c].lce, mshr[c].addr, mshr[c].lru, mshr[c].addr, mshr[c].next)
  \/ /\ cceState[c] = "inv_cmd"
     /\ \E l \in toInv[c] : \E w \in Way :
          /\ w = sharers[c][l]
          /\ DirEntry(l, mshr[c].addr, w, dir[l][FrameOf(mshr[c].addr, w)].blk, "I")
  \/ /\ cceState[c] = "transfer" /\ mshr[c].xf
     /\ \E st \in {"I", "S"} :
          DirEntry(mshr[c].owner, mshr[c].addr, mshr[c].ownerWay,
                   dir[mshr[c].owner][FrameOf(mshr[c].addr, mshr[c].ownerWay)].blk, st)

(* What a step of an engine does to the directory.                         *)
LEMMA DirMoves ==
  ASSUME IInv, NEW c \in CCE, CceStep(c)
  PROVE  DirMove(c)
<1>1. CASE CceClearDir(c)
  BY <1>1 DEF DirMove
<1>2. CASE CceWriteNextState(c)
  <2>1. PICK m : m = mshr[c]
    OBVIOUS
  <2>2. cceState[c] = "write_next_state"
    BY <1>2 DEF CceWriteNextState
  <2>3. m.lce \in LCE /\ m.addr \in Block /\ m.lru \in Way /\ (m.uf => m.way \in Way)
    BY <2>1, <2>2, MshrKnown DEF Decided
  <2>4. dir' = IF m.uf THEN WriteState(dir, m.lce, m.addr, m.way, m.next)
                       ELSE WriteEntry(dir, m.lce, m.addr, m.lru, m.next)
    BY <1>2, <2>1 DEF CceWriteNextState
  <2>5. CASE m.uf
    <3>1. DirEntry(m.lce, m.addr, m.way, dir[m.lce][FrameOf(m.addr, m.way)].blk, m.next)
      BY <2>3, <2>4, <2>5, StateWritten
    <3>2. QED
      BY <2>1, <2>2, <2>5, <3>1 DEF DirMove
  <2>6. CASE ~m.uf
    <3>1. DirEntry(m.lce, m.addr, m.lru, m.addr, m.next)
      BY <2>3, <2>4, <2>6, EntryWritten
    <3>2. QED
      BY <2>1, <2>2, <2>6, <3>1 DEF DirMove
  <2>7. QED
    BY <2>5, <2>6
<1>3. CASE CceInvCmd(c)
  <2>1. PICK l \in toInv[c] : dir' = WriteState(dir, l, mshr[c].addr, sharers[c][l], "I")
    BY <1>3 DEF CceInvCmd
  <2>2. cceState[c] = "inv_cmd" /\ mshr[c].addr \in Block /\ l \in LCE
    BY <1>3, MshrKnown DEF CceInvCmd, Decided, IInv, CceOK, CceTypeOK
  <2>3. sharers[c][l] \in Way
    BY <2>1, <2>2 DEF IInv, CceOK, InvWF
  <2>4. PICK w \in Way, b \in Block : w = sharers[c][l] /\ b = mshr[c].addr
    BY <2>2, <2>3
  <2>5. DirEntry(l, b, w, dir[l][FrameOf(b, w)].blk, "I")
    BY <2>1, <2>2, <2>4, StateWritten
  <2>6. QED
    BY <2>2, <2>4, <2>5 DEF DirMove
<1>4. CASE CceTransfer(c)
  <2>1. PICK m : m = mshr[c]
    OBVIOUS
  <2>2. cceState[c] = "transfer"
    BY <1>4 DEF CceTransfer
  <2>3. m.xf
    BY <2>1, <2>2 DEF IInv, CceOK, MshrWF
  <2>4. m.addr \in Block /\ m.owner \in LCE /\ m.ownerWay \in Way
    BY <2>1, <2>2, <2>3, MshrKnown DEF Decided
  <2>5. PICK st \in {"I", "S"} : dir' = WriteState(dir, m.owner, m.addr, m.ownerWay, st)
    BY <1>4, <2>1 DEF CceTransfer
  <2>6. DirEntry(m.owner, m.addr, m.ownerWay, dir[m.owner][FrameOf(m.addr, m.ownerWay)].blk, st)
    BY <2>4, <2>5, StateWritten
  <2>7. QED
    BY <2>1, <2>2, <2>3, <2>6 DEF DirMove
<1>5. QED
  BY <1>1, <1>2, <1>3, <1>4, DirBy DEF DirMove

(* A frame of a block is one of its set.                                   *)
LEMMA FrameEq ==
  ASSUME NEW s, NEW w, NEW b, NEW v
  PROVE  <<s, w>> = FrameOf(b, v) <=> s = SetOf[b] /\ w = v
BY DEF FrameOf

(* A directory once cleared stays cleared.                                 *)
LEMMA ClearedKept ==
  ASSUME IInv, SerialInv, NEW c \in CCE, CceStep(c), NEW d \in CCE, Cleared(d)'
  PROVE  Cleared(d) \/ (d = c /\ CceClearDir(c))
<1>1. CASE d # c
  <2>1. cceState'[d] = cceState[d]
    BY <1>1, CceOthers
  <2>2. QED
    BY <2>1 DEF Cleared
<1>2. CASE d = c
  BY <1>2, FsmBy DEF Cleared, CceReset, CceClearDir, CceLeaveUncached, CceSyncAck, CceUcReq, CceDeqReq,
  CceReadPending, CceReadMemSpec, CceReadDir, CceWriteNextState, CceReplacement, CceReplacementWbResp,
  CceInvCmd, CceInvAck, CceUpgrade, CceTransfer, CceTransferWbResp, CceResolve, CceReady, CceSendSync,
  Goto, IInv, CceOK, CceTypeOK
<1>3. QED
  BY <1>1, <1>2

(* An entry is only written with a block of its own set.                   *)
LEMMA DirSetCce ==
  ASSUME IInv, IInv', SerialInv, NEW c \in CCE, CceStep(c)
  PROVE  DirSet'
<1> SUFFICES ASSUME NEW l \in LCE, NEW s \in Set, NEW w \in Way, NEW d \in CCE, d = HomeOf[s],
                    Cleared(d)', dir'[l][<<s, w>>].st # "I"
             PROVE  SetOf[dir'[l][<<s, w>>].blk] = s
  BY ConstantsAssumption DEF DirSet
<1>1. <<s, w>> \in Frame
  BY DEF Frame
<1>2. Cleared(d) /\ dir[l][<<s, w>>].st # "I" => SetOf[dir[l][<<s, w>>].blk] = s
  BY DEF SerialInv, DirSetInv, DirSet
<1>3. CASE CceClearDir(c) /\ d = c
  <2>1. dir'[l][<<s, w>>].st = "I"
    BY <1>3, ClearedEntry
  <2>2. QED
    BY <2>1
<1>4. CASE ~(CceClearDir(c) /\ d = c)
  <2>1. Cleared(d)
    BY <1>4, ClearedKept
  <2>2. CASE dir'[l][<<s, w>>] = dir[l][<<s, w>>]
    BY <1>2, <2>1, <2>2
  <2>3. ASSUME NEW k, NEW b, NEW v, NEW blk, NEW st, DirEntry(k, b, v, blk, st),
               SetOf[blk] = SetOf[b]
        PROVE  SetOf[dir'[l][<<s, w>>].blk] = s
    <3>1. CASE k = l /\ <<s, w>> = FrameOf(b, v)
      <4>1. dir'[l][<<s, w>>].blk = blk
        BY <1>1, <2>3, <3>1 DEF DirEntry
      <4>2. s = SetOf[b]
        BY <3>1 DEF FrameOf
      <4>3. QED
        BY <2>3, <4>1, <4>2
    <3>2. CASE ~(k = l /\ <<s, w>> = FrameOf(b, v))
      <4>1. dir'[l][<<s, w>>] = dir[l][<<s, w>>]
        BY <1>1, <2>3, <3>2 DEF DirEntry
      <4>2. QED
        BY <2>2, <4>1
    <3>3. QED
      BY <3>1, <3>2
  <2>4. CASE dir' = dir
    BY <2>2, <2>4
  <2>5. CASE CceClearDir(c) /\ d # c
    <3>1. dir'[l][<<s, w>>] = dir[l][<<s, w>>]
      BY <2>5, ClearedEntry
    <3>2. QED
      BY <2>2, <3>1
  <2>6. PICK m : m = mshr[c]
    OBVIOUS
  <2>7. CASE /\ cceState[c] = "write_next_state" /\ mshr[c].uf
             /\ DirEntry(mshr[c].lce, mshr[c].addr, mshr[c].way,
                 dir[mshr[c].lce][FrameOf(mshr[c].addr, mshr[c].way)].blk, mshr[c].next)
    <3>1. dir[m.lce][FrameOf(m.addr, m.way)].blk = m.addr
      BY <2>6, <2>7 DEF SerialInv, DirSetInv, FoundBlk, Decided
    <3>2. QED
      BY <2>3, <2>6, <2>7, <3>1
  <2>8. CASE /\ cceState[c] = "write_next_state" /\ ~mshr[c].uf
             /\ DirEntry(mshr[c].lce, mshr[c].addr, mshr[c].lru, mshr[c].addr, mshr[c].next)
    BY <2>3, <2>8
  <2>9. CASE /\ cceState[c] = "inv_cmd"
             /\ \E k \in toInv[c] : \E v \in Way :
                 /\ v = sharers[c][k]
                 /\ DirEntry(k, mshr[c].addr, v, dir[k][FrameOf(mshr[c].addr, v)].blk, "I")
    <3>1. PICK k, v : DirEntry(k, m.addr, v, dir[k][FrameOf(m.addr, v)].blk, "I")
      BY <2>6, <2>9
    <3>2. k = l /\ <<s, w>> = FrameOf(m.addr, v) => dir'[l][<<s, w>>].st = "I"
      BY <1>1, <3>1 DEF DirEntry
    <3>3. dir'[l][<<s, w>>] = dir[l][<<s, w>>]
      BY <1>1, <3>1, <3>2 DEF DirEntry
    <3>4. QED
      BY <2>2, <3>3
  <2>10. CASE /\ cceState[c] = "transfer" /\ mshr[c].xf
              /\ \E st \in {"I", "S"} :
                   DirEntry(mshr[c].owner, mshr[c].addr, mshr[c].ownerWay,
                     dir[mshr[c].owner][FrameOf(mshr[c].addr, mshr[c].ownerWay)].blk, st)
    <3>1. PICK st : DirEntry(m.owner, m.addr, m.ownerWay,
                             dir[m.owner][FrameOf(m.addr, m.ownerWay)].blk, st)
      BY <2>6, <2>10
    <3>2. dir[m.owner][FrameOf(m.addr, m.ownerWay)].blk = m.addr
      BY <2>6, <2>10 DEF SerialInv, DirSetInv, FoundBlk, Decided
    <3>3. QED
      BY <2>3, <3>1, <3>2
  <2>11. QED
    BY <1>4, <2>4, <2>5, <2>7, <2>8, <2>9, <2>10, DirMoves DEF DirMove
<1>5. QED
  BY <1>3, <1>4

(* What the directory answered stays, until the request is done; a         *)
(* finished replacement is forgotten.                                      *)
SameAnswer(c) ==
  /\ SameRequest(c)
  /\ mshr'[c].way = mshr[c].way /\ mshr'[c].lruBlk = mshr[c].lruBlk
  /\ mshr'[c].uf = mshr[c].uf /\ mshr'[c].csf = mshr[c].csf /\ mshr'[c].xf = mshr[c].xf
  /\ mshr'[c].owner = mshr[c].owner /\ mshr'[c].ownerWay = mshr[c].ownerWay
  /\ mshr'[c].next = mshr[c].next
  /\ mshr'[c].rf => mshr[c].rf

(* The answer of the directory is kept until the request is done.          *)
LEMMA DecidedMove ==
  ASSUME IInv, SerialInv, NEW c \in CCE, CceStep(c), cceState'[c] \in Decided, ~CceReadDir(c)
  PROVE  cceState[c] \in Decided /\ SameAnswer(c)
<1>1. CASE CceReplacementWbResp(c)
  BY <1>1 DEF CceReplacementWbResp, IInv, CceOK, CceTypeOK, Mshr, Decided, SameAnswer, SameRequest
<1>2. CASE ~CceReplacementWbResp(c)
  <2>1. ~CceUcReq(c)
    BY DEF CceUcReq, Goto, Decided, IInv, CceOK, CceTypeOK
  <2>2. ~CceResolve(c)
    BY DEF CceResolve, Goto, Decided, IInv, CceOK, CceTypeOK
  <2>3. \A l \in LCE : ~CceReady(c, l)
    <3> SUFFICES ASSUME NEW l \in LCE, CceReady(c, l) PROVE FALSE
      OBVIOUS
    <3>1. PICK st : cceState' = [cceState EXCEPT ![c] = st] /\ st \in {"read_pending", "uc_req"}
      BY DEF CceReady, Goto
    <3>2. QED
      BY <3>1 DEF Decided, IInv, CceOK, CceTypeOK
  <2>4. mshr' = mshr
    BY <1>2, <2>1, <2>2, <2>3, FsmBy DEF CceReset, CceClearDir, CceLeaveUncached, CceSyncAck,
      CceDeqReq, CceReadPending, CceReadMemSpec, CceWriteNextState, CceReplacement, CceInvCmd,
      CceInvAck, CceUpgrade, CceTransfer, CceTransferWbResp, CceSendSync
  <2>5. StateMove(cceState[c], cceState'[c])
    BY StateMoves
  <2>6. cceState[c] # "read_dir" \/ cceState'[c] = "read_dir"
    BY FsmBy DEF CceReset, CceClearDir, CceLeaveUncached, CceSyncAck, CceUcReq, CceDeqReq,
      CceReadPending, CceReadMemSpec, CceWriteNextState, CceReplacement, CceReplacementWbResp, CceInvCmd,
      CceInvAck, CceUpgrade, CceTransfer, CceTransferWbResp, CceResolve, CceReady, CceSendSync
  <2>7. cceState[c] \in Decided
    BY <2>5, <2>6 DEF StateMove, Moves1, After, Decided, Cached
  <2>8. QED
    BY <2>4, <2>7 DEF SameAnswer, SameRequest
<1>3. QED
  BY <1>1, <1>2

(* VictimSet, step of an engine.                                           *)
LEMMA VictimCce ==
  ASSUME IInv, IInv', SerialInv, NEW c \in CCE, CceStep(c)
  PROVE  VictimSet'
<1> SUFFICES ASSUME NEW d \in CCE, cceState'[d] \in Decided, mshr'[d].rf
             PROVE  SetOf[mshr'[d].lruBlk] = ReqSet(d)'
  BY DEF VictimSet
<1>1. CASE d # c
  <2>1. cceState'[d] = cceState[d] /\ mshr'[d] = mshr[d]
    BY <1>1, CceOthers
  <2>2. QED
    BY <2>1 DEF SerialInv, DirSetInv, VictimSet, ReqSet
<1>2. CASE d = c /\ CceReadDir(c)
  <2>1. PICK m : m = mshr[c]
    OBVIOUS
  <2>2. cceState[c] = "read_dir"
    BY <1>2 DEF CceReadDir
  <2>3. m.lce \in LCE /\ m.addr \in Block /\ m.lru \in Way
    BY <2>1, <2>2 DEF IInv, CceOK, MshrWF, Cached
  <2>4. /\ mshr'[c].lruBlk = dir[m.lce][FrameOf(m.addr, m.lru)].blk
        /\ mshr'[c].rf = Replace(dir, m.lce, m.addr, m.write, m.lru)
        /\ ReqSet(c)' = ReqSet(c)
    BY <1>2, <2>1, ReadDirMshr DEF ReqSet
  <2>5. dir[m.lce][FrameOf(m.addr, m.lru)].st \in Owned
    BY <1>2, <2>4 DEF Replace
  <2>6. HomeOf[ReqSet(c)] = c /\ ReqSet(c) \in Set
    BY <2>2, WorksHome DEF Cached
  <2>7. FrameOf(m.addr, m.lru) = <<ReqSet(c), m.lru>>
    BY <2>1 DEF FrameOf, ReqSet
  <2>8. Cleared(c)
    BY <2>2 DEF Cleared
  <2>9. PICK s \in Set : s = ReqSet(c)
    BY <2>6
  <2>10. SetOf[dir[m.lce][<<s, m.lru>>].blk] = s
    BY <2>3, <2>5, <2>6, <2>7, <2>8, <2>9 DEF SerialInv, DirSetInv, DirSet, Owned
  <2>11. QED
    BY <1>2, <2>4, <2>7, <2>9, <2>10
<1>3. CASE d = c /\ ~CceReadDir(c)
  <2>1. cceState[c] \in Decided /\ SameAnswer(c)
    BY <1>3, DecidedMove
  <2>2. QED
    BY <1>3, <2>1 DEF SerialInv, DirSetInv, VictimSet, SameAnswer, SameRequest, ReqSet
<1>4. QED
  BY <1>1, <1>2, <1>3

(* An engine leaves the entries of the other engines alone.                *)
LEMMA DirOthers ==
  ASSUME IInv, SerialInv, NEW c \in CCE, CceStep(c), NEW l \in LCE, NEW s \in Set, NEW w \in Way,
         HomeOf[s] # c
  PROVE  dir'[l][<<s, w>>] = dir[l][<<s, w>>]
<1>1. <<s, w>> \in Frame
  BY DEF Frame
<1>2. PICK b : b = mshr[c].addr
  OBVIOUS
<1>3. cceState[c] \in Cached => HomeOf[SetOf[b]] = c
  BY <1>2, WorksHome DEF ReqSet
<1>4. cceState[c] \in Cached => \A v : <<s, w>> # FrameOf(b, v)
  BY <1>3 DEF FrameOf
<1>5. ASSUME cceState[c] \in Cached, NEW k, NEW v, NEW blk, NEW st, DirEntry(k, b, v, blk, st)
      PROVE  dir'[l][<<s, w>>] = dir[l][<<s, w>>]
  BY <1>1, <1>4, <1>5 DEF DirEntry
<1>6. CASE CceClearDir(c)
  BY <1>6, ClearedEntry
<1>7. CASE dir' # dir /\ ~CceClearDir(c)
  <2>1. cceState[c] \in Cached /\ \E k, v, blk, st : DirEntry(k, b, v, blk, st)
    BY <1>2, <1>7, DirMoves DEF DirMove, Cached
  <2>2. QED
    BY <1>5, <2>1
<1>8. QED
  BY <1>6, <1>7

(* An engine leaves the block of an entry alone, or puts its own there.    *)
LEMMA BlkKept ==
  ASSUME IInv, NEW c \in CCE, CceStep(c), cceState[c] \in Cached,
         NEW l \in LCE, NEW f \in Frame
  PROVE  dir'[l][f].blk \in {dir[l][f].blk, mshr[c].addr}
<1>1. ASSUME NEW k, NEW b, NEW v, NEW st, DirEntry(k, b, v, dir[k][FrameOf(b, v)].blk, st)
      PROVE  dir'[l][f].blk = dir[l][f].blk
  BY <1>1 DEF DirEntry
<1>2. CASE dir' = dir
  BY <1>2
<1>3. CASE CceClearDir(c)
  BY <1>3 DEF CceClearDir, Cached
<1>4. CASE cceState[c] = "inv_cmd" /\ \E k \in toInv[c] : \E v \in Way :
             /\ v = sharers[c][k]
             /\ DirEntry(k, mshr[c].addr, v, dir[k][FrameOf(mshr[c].addr, v)].blk, "I")
  <2>1. PICK k, b, v : DirEntry(k, b, v, dir[k][FrameOf(b, v)].blk, "I")
    BY <1>4
  <2>2. QED
    BY <1>1, <2>1
<1>5. QED
  BY <1>1, <1>2, <1>3, <1>4, DirMoves DEF DirMove, DirEntry

(* FoundBlk, step of an engine: nobody else writes an entry of the set.    *)
LEMMA FoundCce ==
  ASSUME IInv, IInv', SerialInv, NEW c \in CCE, CceStep(c)
  PROVE  FoundBlk'
<1> SUFFICES ASSUME NEW d \in CCE, cceState'[d] \in Decided, NEW m, m = mshr'[d]
             PROVE  /\ m.uf => dir'[m.lce][FrameOf(m.addr, m.way)].blk = m.addr
                    /\ m.xf => dir'[m.owner][FrameOf(m.addr, m.ownerWay)].blk = m.addr
  BY DEF FoundBlk
<1>1. /\ m.lce \in LCE /\ m.addr \in Block /\ m.lru \in Way
      /\ m.uf => m.way \in Way
      /\ m.xf => m.owner \in LCE /\ m.ownerWay \in Way
  BY DEF IInv, CceOK, MshrWF, Decided, Cached
<1>2. CASE d # c
  <2>1. cceState[d] \in Decided /\ m = mshr[d]
    BY <1>2, CceOthers
  <2>2. HomeOf[SetOf[m.addr]] = d /\ SetOf[m.addr] \in Set
    BY <2>1, WorksHome DEF ReqSet, Decided, Cached
  <2>3. \A l \in LCE, w \in Way : dir'[l][FrameOf(m.addr, w)] = dir[l][FrameOf(m.addr, w)]
    BY <1>2, <2>2, DirOthers DEF FrameOf
  <2>4. QED
    BY <1>1, <2>1, <2>3 DEF SerialInv, DirSetInv, FoundBlk
<1>3. CASE d = c /\ CceReadDir(c)
  <2>1. PICK n : n = mshr[c]
    OBVIOUS
  <2>2. /\ m.lce = n.lce /\ m.addr = n.addr
        /\ m.way = HitWay(dir, m.lce, m.addr) /\ m.uf = Upgrade(dir, m.lce, m.addr, n.write)
        /\ m.xf = CachedOwned(dir, m.lce, m.addr) /\ m.owner = Owner(dir, m.addr)
        /\ m.ownerWay = IF Owner(dir, m.addr) = None THEN None
                        ELSE HitWay(dir, Owner(dir, m.addr), m.addr)
    BY <1>3, <2>1, ReadDirMshr
  <2>3. dir' = dir
    BY <1>3 DEF CceReadDir, dirVars
  <2>4. \A l \in LCE : StateIn(dir, l, m.addr) # "I" =>
          dir[l][FrameOf(m.addr, HitWay(dir, l, m.addr))].blk = m.addr
    <3> SUFFICES ASSUME NEW l \in LCE, StateIn(dir, l, m.addr) # "I"
                 PROVE  dir[l][FrameOf(m.addr, HitWay(dir, l, m.addr))].blk = m.addr
      OBVIOUS
    <3>1. HitWay(dir, l, m.addr) \in HitWays(dir, l, m.addr)
      BY DEF StateIn, HitWay
    <3>2. QED
      BY <3>1 DEF HitWays
  <2>5. m.uf => StateIn(dir, m.lce, m.addr) # "I"
    BY <2>2 DEF Upgrade
  <2>6. m.xf => /\ Owner(dir, m.addr) \in LCE /\ StateIn(dir, Owner(dir, m.addr), m.addr) # "I"
    <3> SUFFICES ASSUME m.xf PROVE Owner(dir, m.addr) \in CachedIn(dir, m.addr, Owned)
      BY DEF CachedIn, Owned
    <3>1. CachedIn(dir, m.addr, Owned) # {}
      BY <2>2 DEF CachedOwned
    <3>2. QED
      BY <3>1 DEF Owner
  <2>7. m.xf => Owner(dir, m.addr) # None
    BY <2>6, ConstantsAssumption
  <2>8. QED
    BY <1>1, <2>2, <2>3, <2>4, <2>5, <2>6, <2>7
<1>4. CASE d = c /\ ~CceReadDir(c)
  <2>1. cceState[c] \in Decided /\ SameAnswer(c)
    BY <1>4, DecidedMove
  <2>2. /\ m.uf => dir[m.lce][FrameOf(m.addr, m.way)].blk = m.addr
        /\ m.xf => dir[m.owner][FrameOf(m.addr, m.ownerWay)].blk = m.addr
        /\ mshr[c].addr = m.addr
    BY <1>4, <2>1 DEF SerialInv, DirSetInv, FoundBlk, SameAnswer, SameRequest
  <2>3. \A l \in LCE, f \in Frame : dir'[l][f].blk \in {dir[l][f].blk, m.addr}
    BY <2>1, <2>2, BlkKept DEF Decided, Cached
  <2>4. \A w \in Way : FrameOf(m.addr, w) \in Frame
    BY <1>1, FrameIn
  <2>5. QED
    BY <1>1, <2>2, <2>3, <2>4
<1>5. QED
  BY <1>2, <1>3, <1>4

(* DirSetInv, step of an engine.                                           *)
LEMMA DirSetInvCce ==
  ASSUME IInv, IInv', SerialInv, NEW c \in CCE, CceStep(c)
  PROVE  DirSetInv'
BY DirSetCce, VictimCce, FoundCce DEF DirSetInv

(* DirSetInv, step of a cache.                                             *)
LEMMA DirSetInvLce ==
  ASSUME SerialInv, NEW l \in LCE, LceStep(l)
  PROVE  DirSetInv'
<1>1. cceState' = cceState /\ mshr' = mshr /\ dir' = dir
  BY LceLeaves
<1>2. DirSet'
  BY <1>1 DEF SerialInv, DirSetInv, DirSet, Cleared
<1>3. VictimSet'
  BY <1>1 DEF SerialInv, DirSetInv, VictimSet, ReqSet
<1>4. FoundBlk'
  BY <1>1 DEF SerialInv, DirSetInv, FoundBlk
<1>5. QED
  BY <1>2, <1>3, <1>4 DEF DirSetInv

----------------------------------------------------------------------------
(* The invariant and what follows from it.                                 *)

(* HeldDst, step of an engine.                                             *)
LEMMA HeldCce ==
  ASSUME SerialInv, NEW c \in CCE, CceStep(c)
  PROVE  HeldDst'
BY CceLeaves DEF SerialInv, HeldDst

(* Every step of an engine keeps the invariant.                            *)
LEMMA SerialCce ==
  ASSUME IInv, IInv', SerialInv, NEW c \in CCE, CceStep(c)
  PROVE  SerialInv'
BY HeldCce, ReqCce, TokCce, MshrCce, FreeCce, HomeCce, SpecCce, PendCce, OpsCce, WbCce, DirSetInvCce
   DEF SerialInv

(* Every step of a cache keeps the invariant.                              *)
LEMMA SerialLce ==
  ASSUME IInv, IInv', SerialInv, NEW l \in LCE, LceStep(l)
  PROVE  SerialInv'
BY HeldLce, ReqLce, TokLce, MshrLce, FreeLce, HomeLce, SpecLce, PendLce, OpsLce, WbLceStep, DirSetInvLce
   DEF SerialInv

(* A step that changes nothing keeps the invariant.                        *)
LEMMA SerialStutter ==
  ASSUME SerialInv, UNCHANGED vars
  PROVE  SerialInv'
<1> USE DEF SerialInv, vars, cceVars, dirVars, memVars, lceVars, coreVars, netVars
<1>1. HeldDst' /\ ReqInv'
  BY ReqFrame DEF HeldDst
<1>2. TokInv'
  BY TokQuiet, ReqPlace, FsmPlace, MemPlace, CmdPlace, LcePlace
<1>3. MshrInv' /\ FreeInv'
  BY DEF MshrInv, MshrHome, MshrTaking, Loaded, MshrFlagsOK, FreeInv, ReqSet
<1>4. HomeInv'
  BY DEF HomeInv
<1>5. SpecInv'
  <2>1. ReadOne'
    BY DEF SpecInv, ReadOne, ReadOf
  <2>2. ReadHeld' /\ ReadClean'
    BY DEF SpecInv, ReadHeld, ReadClean, Serving, ReqSet
  <2>3. ReadFor'
    BY DEF SpecInv, ReadFor, ReadOf, Serving, ReqSet
  <2>4. QED
    BY <2>1, <2>2, <2>3 DEF SpecInv
<1>6. \A s \in Set : /\ Open(s)' = Open(s) /\ AcksFor(s)' = AcksFor(s)
                     /\ MemOpsFor(s)' = MemOpsFor(s) /\ OpsBound(s)' = OpsBound(s)
  BY OpenFrame, OpsKept DEF AcksFor, OpsBound, Serving, ReqSet
<1>7. PendInv' /\ OpsInv' /\ OneInv'
  BY <1>6 DEF PendInv, OpsInv, OneInv
<1>8. WbInv'
  <2>1. \A d \in CCE : \A a, x, b, t : WbIs(d, a, x, b, t)' => WbIs(d, a, x, b, t)
    BY WbFewer
  <2>2. \A d \in CCE : cceState'[d] = cceState[d] /\ WbAddr(d)' = WbAddr(d)
    BY DEF WbAddr
  <2>3. QED
    BY <2>1, <2>2, WbQuietStep
<1>9. DirSetInv'
  <2>1. DirSet'
    BY DEF DirSetInv, DirSet, Cleared
  <2>2. VictimSet'
    BY DEF DirSetInv, VictimSet, ReqSet
  <2>3. FoundBlk'
    BY DEF DirSetInv, FoundBlk
  <2>4. QED
    BY <2>1, <2>2, <2>3 DEF DirSetInv
<1>10. QED
  BY <1>1, <1>2, <1>3, <1>4, <1>5, <1>7, <1>8, <1>9

(* It holds at reset, when nothing is under way.                           *)
LEMMA SerialInit == Init => SerialInv
<1> SUFFICES ASSUME Init PROVE SerialInv
  OBVIOUS
<1>1. /\ \A l \in LCE : /\ lceCmd[l] = None
                        /\ miss[l].phase = "idle"
      /\ \A c \in CCE : cceState[c] = "reset" /\ memResp[c] = <<>>
      /\ \A l \in LCE, c \in CCE : reqNet[<<l, c>>] = <<>>
      /\ \A s \in Set : pending[s] = 0 /\ specBits[s] = NoSpec /\ HomeOf[s] \in CCE
      /\ cmdNet = {} /\ respNet = {}
  BY ConstantsAssumption DEF Init, CceInit, LceInit, NoMiss
<1>2. \A s \in Set : specBits[s].spec = FALSE
  BY <1>1 DEF NoSpec
<1>3. HeldDst
  BY <1>1 DEF HeldDst
<1>4. \A l \in LCE, c \in CCE : \A i : i \notin DOMAIN reqNet[<<l, c>>]
  BY <1>1
<1>5. \A c \in CCE : \A i : i \notin DOMAIN memResp[c]
  BY <1>1
<1>6. ReqInv
  BY <1>4 DEF ReqInv, ReqHome, ReqAsks, ReqOne, Blocking
<1>7. TokInv
  <2> SUFFICES \A l \in LCE, i \in Nat : \A a, x, b, u : ~Tok(a, x, i, l, b, u)
    BY DEF TokInv, TokWaits, TokOne
  <2> SUFFICES ASSUME NEW l \in LCE, NEW i \in Nat, NEW a, NEW x, NEW b, NEW u
               PROVE  ~Tok(a, x, i, l, b, u)
    OBVIOUS
  <2>1. x \in CCE => ~ReqTok(x, i, l, b, u)
    BY <1>4 DEF ReqTok, Blocking
  <2>2. x \in CCE => ~FsmTok(x, l, b, u)
    BY <1>1 DEF FsmTok, AtFsm, Unsourced, Working, Cached
  <2>3. x \in CCE => ~MemTok(x, i, l, b, u)
    BY <1>5 DEF MemTok
  <2>4. ~CmdTok(x, l, b, u)
    BY <1>1 DEF CmdTok
  <2>5. x \in LCE => ~LceTok(x, l, b, u)
    BY <1>1 DEF LceTok
  <2>6. QED
    BY <2>1, <2>2, <2>3, <2>4, <2>5 DEF Tok
<1>8. MshrInv /\ FreeInv
  BY <1>1 DEF MshrInv, MshrHome, MshrTaking, MshrFlagsOK, FreeInv, Cached
<1>9. HomeInv
  BY <1>5 DEF HomeInv
<1>10. SpecInv
  <2>1. \A s \in Set, i \in Nat : ~ReadOf(s, i)
    BY <1>1, <1>5 DEF ReadOf
  <2>2. \A s \in Set : ~Serving(s)
    BY <1>1 DEF Serving, Working, Cached
  <2>3. QED
    BY <1>2, <2>1, <2>2 DEF SpecInv, ReadOne, ReadHeld, ReadClean, ReadFor
<1>11. PendInv /\ OpsInv /\ OneInv
  <2>1. ASSUME NEW s \in Set
        PROVE  Open(s) = {} /\ AcksFor(s) = {} /\ MemOpsFor(s) = {}
    <3>1. Open(s) = {}
      BY <1>1 DEF Open
    <3>2. AcksFor(s) = {}
      BY <1>1 DEF AcksFor
    <3>3. MemOpsFor(s) = {}
      BY <1>1, <1>5 DEF MemOpsFor
    <3>4. QED
      BY <3>1, <3>2, <3>3
  <2>2. Cardinality({}) = 0 /\ IsFiniteSet({})
    BY FS_EmptySet
  <2>3. \A s \in Set : OpsBound(s) >= 0
    BY DEF OpsBound
  <2>4. PendInv
    <3> SUFFICES ASSUME NEW s \in Set
                 PROVE  /\ IsFiniteSet(AcksFor(s))
                        /\ pending[s] = Cardinality(Open(s)) + Cardinality(AcksFor(s))
                                         + Cardinality(MemOpsFor(s))
      BY DEF PendInv
    <3>1. /\ Cardinality(Open(s)) = 0 /\ Cardinality(AcksFor(s)) = 0
          /\ Cardinality(MemOpsFor(s)) = 0 /\ IsFiniteSet(AcksFor(s))
      BY <2>1, <2>2
    <3>2. pending[s] = 0
      BY <1>1
    <3>3. QED
      BY <3>1, <3>2
  <2>5. QED
    BY <2>1, <2>2, <2>3, <2>4 DEF OpsInv, OneInv
<1>12. WbInv
  <2>1. \A c \in CCE : \A a, x : ~WbTok(c, a, x)
    BY <1>1 DEF WbTok, WbCmd, WbLce, WbResp, Holds
  <2>2. \A c \in CCE : (\A m : ~WbCmd(c, m) /\ ~WbResp(c, m)) /\ \A k \in LCE : ~WbLce(c, k)
    BY <1>1 DEF WbCmd, WbLce, WbResp, Holds
  <2>3. QED
    BY <2>1, <2>2 DEF WbInv, WbOne, WbWaits, WbAsked
<1>13. DirSetInv
  BY <1>1 DEF DirSetInv, DirSet, VictimSet, FoundBlk, Cleared, Decided
<1>14. QED
  BY <1>3, <1>6, <1>7, <1>8, <1>9, <1>10, <1>11, <1>12, <1>13 DEF SerialInv

(* The transactions are kept apart in every configuration.                 *)
THEOREM Serial == Spec => [](IInv /\ SerialInv)
<1>1. Init => SerialInv
  BY SerialInit
<1>2. IInv /\ IInv' /\ SerialInv /\ [Next]_vars => SerialInv'
  BY SerialCce, SerialLce, SerialStutter DEF Next
<1>3. QED
  BY <1>1, <1>2, TypesInvariant, PTL DEF Spec

(* WayGroupSerialized: at most one transaction of a way group is under     *)
(* way, from the dequeue of its request (e_deq_lce_req) to its coherence   *)
(* acknowledgement, for any number of caches and engines.                  *)
THEOREM GroupSerialized == Spec => []WayGroupSerialized
<1>1. SerialInv => WayGroupSerialized
  BY DEF SerialInv, OneInv, WayGroupSerialized
<1>2. QED
  BY <1>1, Serial, PTL

(* PendingExact: the 3-bit pending counters of bp_cce_pending_bits are     *)
(* exactly the open transaction, its speculative read and its write-backs; *)
(* none is forgotten or counted twice, and no counter wraps.               *)
THEOREM PendingCounts == Spec => []PendingExact
<1>1. SerialInv => PendingExact
  BY DEF SerialInv, PendInv, PendingExact
<1>2. QED
  BY <1>1, Serial, PTL

(* A set without two different elements has one element or none.           *)
LEMMA AtMostOne ==
  ASSUME NEW S, \A x, y \in S : x = y
  PROVE  /\ Cardinality(S) \in {0, 1}
         /\ Cardinality(S) = 0 <=> S = {}
<1>1. CASE S = {}
  BY <1>1, FS_EmptySet
<1>2. CASE S # {}
  <2>1. PICK x : S = {x}
    BY <1>2
  <2>2. Cardinality(S) = 1
    BY <2>1, FS_Singleton
  <2>3. QED
    BY <1>2, <2>2
<1>3. QED
  BY <1>1, <1>2

(* Every source of a block for cache l is a place of its miss.             *)
LEMMA SourcePlace ==
  ASSUME IInv, SerialInv, NEW l \in LCE
  PROVE  /\ \A m \in Transfers(l) : Tok("cmd", m, 0, l, m.addr, "cached")
         /\ \A k \in HeldTransfers(l) : Tok("lce", k, 0, l, lceCmd[k].addr, "cached")
         /\ \A m \in DataCommands(l) : Tok("cmd", m, 0, l, m.addr, "cached")
         /\ \A k \in HeldData(l) : Tok("lce", k, 0, l, lceCmd[k].addr, "cached")
         /\ \A p \in Fills(l) : /\ Tok("mem", p[1], p[2], l, memResp[p[1]][p[2]].addr, "cached")
                                /\ p[2] \in Nat
<1>1. ASSUME NEW m \in Transfers(l) \cup DataCommands(l)
      PROVE  Tok("cmd", m, 0, l, m.addr, "cached")
  <2>1. Carries(m, l, m.addr, "cached")
    BY DEF Transfers, DataCommands, Carries, Sources, Target, Kind
  <2>2. QED
    BY <2>1 DEF Tok, CmdTok, Transfers, DataCommands
<1>2. ASSUME NEW k \in HeldTransfers(l)
      PROVE  Tok("lce", k, 0, l, lceCmd[k].addr, "cached")
  <2>1. Carries(lceCmd[k], l, lceCmd[k].addr, "cached")
    BY DEF HeldTransfers, Holds, Carries, Sources, Target, Kind
  <2>2. QED
    BY <2>1 DEF Tok, LceTok, HeldTransfers, Holds, Passed
<1>3. ASSUME NEW k \in HeldData(l)
      PROVE  Tok("lce", k, 0, l, lceCmd[k].addr, "cached")
  <2>1. k = l /\ lceCmd[k] # None /\ lceCmd[k].type = "data"
    BY DEF HeldData, Holds
  <2>2. lceCmd[k].dst = l
    BY <2>1 DEF SerialInv, HeldDst
  <2>3. Carries(lceCmd[k], l, lceCmd[k].addr, "cached")
    BY <2>1, <2>2 DEF Carries, Sources, Target, Kind
  <2>4. lceState[k] \notin Passed
    BY <2>1 DEF IInv, LceOK, CmdWF, Holds, Passed
  <2>5. QED
    BY <2>1, <2>3, <2>4 DEF Tok, LceTok
<1>4. ASSUME NEW p \in Fills(l)
      PROVE  /\ Tok("mem", p[1], p[2], l, memResp[p[1]][p[2]].addr, "cached")
             /\ p[2] \in Nat
  <2>1. PICK c \in CCE, i \in 1 .. MemCredits : p = <<c, i>>
    BY DEF Fills
  <2>2. i \in Nat /\ p[1] = c /\ p[2] = i
    BY <2>1, ConstantsAssumption
  <2>3. /\ i \in DOMAIN memResp[c] /\ memResp[c][i].type = "rd" /\ memResp[c][i].lce = l
        /\ Released(SetOf[memResp[c][i].addr])
    BY <2>2 DEF Fills, Released
  <2>4. MemTok(c, i, l, memResp[c][i].addr, "cached")
    BY <2>3 DEF MemTok, Kind
  <2>5. QED
    BY <2>2, <2>4 DEF Tok
<1>5. QED
  BY <1>1, <1>2, <1>3, <1>4

(* One place per miss leaves one source per cache.                         *)
LEMMA SourceOne ==
  ASSUME IInv, SerialInv
  PROVE  OneSource
<1> SUFFICES ASSUME NEW l \in LCE
             PROVE  LET n == Cardinality(Transfers(l)) + Cardinality(HeldTransfers(l))
                             + Cardinality(DataCommands(l)) + Cardinality(HeldData(l))
                             + Cardinality(Fills(l))
                    IN  n <= 1 /\ (n = 1 => miss[l].phase = "sent")
  BY DEF OneSource
<1>1. \A i, j \in Nat : \A a, x, b, u, aa, xx, bb, uu :
        Tok(a, x, i, l, b, u) /\ Tok(aa, xx, j, l, bb, uu) => a = aa /\ x = xx /\ i = j
  BY DEF SerialInv, TokInv, TokOne
<1>2. \A i \in Nat : \A a, x, b, u : Tok(a, x, i, l, b, u) => miss[l].phase = "sent"
  BY DEF SerialInv, TokInv, TokWaits, Waits
<1>3. \A x, y \in Transfers(l) : x = y
  BY <1>1, SourcePlace, SMTT(40)
<1>4. \A x, y \in HeldTransfers(l) : x = y
  BY <1>1, SourcePlace
<1>5. \A x, y \in DataCommands(l) : x = y
  BY <1>1, SourcePlace
<1>6. \A x, y \in HeldData(l) : x = y
  BY <1>1, SourcePlace
<1>7. \A x, y \in Fills(l) : x = y
  <2> SUFFICES ASSUME NEW x \in Fills(l), NEW y \in Fills(l) PROVE x = y
    OBVIOUS
  <2>1. x[1] = y[1] /\ x[2] = y[2]
    BY <1>1, SourcePlace
  <2>2. QED
    BY <2>1 DEF Fills
<1>8. /\ Transfers(l) # {} => DataCommands(l) = {}
      /\ HeldTransfers(l) # {} => HeldData(l) = {}
  BY <1>1, SourcePlace DEF Transfers, DataCommands, HeldTransfers, HeldData, Holds
<1>9. /\ Transfers(l) \cup DataCommands(l) # {} =>
           HeldTransfers(l) = {} /\ HeldData(l) = {} /\ Fills(l) = {}
      /\ HeldTransfers(l) \cup HeldData(l) # {} => Fills(l) = {}
  BY <1>1, SourcePlace
<1>10. Transfers(l) \cup DataCommands(l) \cup HeldTransfers(l) \cup HeldData(l) \cup Fills(l) # {}
         => miss[l].phase = "sent"
  BY <1>2, SourcePlace
<1>11. PICK n1, n2, n3, n4, n5 : /\ n1 = Cardinality(Transfers(l))
                                 /\ n2 = Cardinality(HeldTransfers(l))
                                 /\ n3 = Cardinality(DataCommands(l))
                                 /\ n4 = Cardinality(HeldData(l))
                                 /\ n5 = Cardinality(Fills(l))
  OBVIOUS
<1>12. /\ n1 \in {0, 1} /\ n2 \in {0, 1} /\ n3 \in {0, 1} /\ n4 \in {0, 1} /\ n5 \in {0, 1}
       /\ n1 = 0 <=> Transfers(l) = {}
       /\ n2 = 0 <=> HeldTransfers(l) = {}
       /\ n3 = 0 <=> DataCommands(l) = {}
       /\ n4 = 0 <=> HeldData(l) = {}
       /\ n5 = 0 <=> Fills(l) = {}
  BY <1>3, <1>4, <1>5, <1>6, <1>7, <1>11, AtMostOne
<1>13. /\ n1 = 1 => n3 = 0
       /\ n2 = 1 => n4 = 0
       /\ n1 = 1 \/ n3 = 1 => n2 = 0 /\ n4 = 0 /\ n5 = 0
       /\ n2 = 1 \/ n4 = 1 => n5 = 0
       /\ (n1 = 1 \/ n2 = 1 \/ n3 = 1 \/ n4 = 1 \/ n5 = 1) => miss[l].phase = "sent"
  BY <1>8, <1>9, <1>10, <1>12
<1>14. QED
  BY <1>11, <1>12, <1>13

(* OneSource: a speculative fill of the memory and a transfer of the owner *)
(* never both bring a block to a cache, and a block comes only to a cache  *)
(* that waits for it.                                                      *)
THEOREM SourceUnique == Spec => []OneSource
<1>1. IInv /\ SerialInv => OneSource
  BY SourceOne
<1>2. QED
  BY <1>1, Serial, PTL
=============================================================================
