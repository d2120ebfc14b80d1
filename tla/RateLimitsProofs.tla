--------------------------- MODULE RateLimitsProofs ---------------------------
(***************************************************************************)
(* Proofs about RateLimits: LimitsInv is inductive, for any networks,      *)
(* limits, windows, routes and headers; so in any minute a client gets     *)
(* fewer than three limits through, a user fewer than two, and a refusal   *)
(* means that the bucket is used up.                                       *)
(***************************************************************************)
EXTENDS RateLimits, FiniteSetTheorems, SequenceTheorems, TLAPS

-----------------------------------------------------------------------------
\* The bounds, without what the assumption says of headers and routes.
LEMMA Bounds ==
  /\ IsFiniteSet(Networks) /\ Overflow \notin Networks
  /\ MaxEntries \in Nat \ {0}
  /\ Limit \in Nat \ {0} /\ Window \in Nat \ {0} /\ PruneAge \in Nat /\ Window <= PruneAge
  /\ PruneEvery \in Nat \ {0} /\ MaxRequests \in Nat /\ Horizon \in Nat
  BY LimitsAssumption

-----------------------------------------------------------------------------
(* A window, whoever counts in it.                                         *)

\* The parts of what a bucket let through, by the beginning of its window.
Own(A, start) == {a \in A : a.at >= start}
After(A, start) == {a \in A : a.at > start}
Before(A, start) == {a \in A : a.at < start}

LEMMA PartsAreFinite ==
  ASSUME NEW A, IsFiniteSet(A), NEW start
  PROVE  /\ IsFiniteSet(Own(A, start)) /\ Cardinality(Own(A, start)) \in Nat
         /\ IsFiniteSet(After(A, start)) /\ Cardinality(After(A, start)) \in Nat
         /\ IsFiniteSet(Before(A, start)) /\ Cardinality(Before(A, start)) \in Nat
         /\ Cardinality(A) \in Nat
  <1>1. Own(A, start) \in SUBSET A /\ After(A, start) \in SUBSET A /\ Before(A, start) \in SUBSET A
    BY DEF Own, After, Before
  <1> QED BY <1>1, FS_Subset, FS_CardinalityType

\* Less of a set is less of its parts.
LEMMA PartsShrink ==
  ASSUME NEW A, IsFiniteSet(A), NEW B \in SUBSET A, NEW start
  PROVE  /\ Cardinality(Own(B, start)) <= Cardinality(Own(A, start))
         /\ Cardinality(After(B, start)) <= Cardinality(After(A, start))
         /\ Cardinality(Before(B, start)) <= Cardinality(Before(A, start))
  <1>1. /\ Own(B, start) \in SUBSET Own(A, start)
        /\ After(B, start) \in SUBSET After(A, start)
        /\ Before(B, start) \in SUBSET Before(A, start)
    BY DEF Own, After, Before
  <1>2. IsFiniteSet(Own(A, start)) /\ IsFiniteSet(After(A, start)) /\ IsFiniteSet(Before(A, start))
    BY PartsAreFinite
  <1> QED BY <1>1, <1>2, FS_Subset

\* The clock moves on, and the history forgets what has left the last window.
LEMMA WindowLater ==
  ASSUME NEW A, IsFiniteSet(A), \A a \in A : a.at \in Int,
         NEW start \in Int, NEW count \in Nat, NEW limit \in Nat, NEW t \in Int,
         WindowOK(A, start, count, limit, t)
  PROVE  WindowOK({a \in A : t + 1 - a.at < Window}, start, count, limit, t + 1)
  <1> DEFINE B == {a \in A : t + 1 - a.at < Window}
  <1> USE LimitsAssumption
  <1>1. /\ IsFiniteSet(B) /\ B \in SUBSET A
    BY FS_Subset
  <1>2. /\ Cardinality(Own(B, start)) <= Cardinality(Own(A, start))
        /\ Cardinality(After(B, start)) <= Cardinality(After(A, start))
        /\ Cardinality(Before(B, start)) <= Cardinality(Before(A, start))
    BY <1>1, PartsShrink
  <1>3. /\ Cardinality(Own(B, start)) \in Nat /\ Cardinality(After(B, start)) \in Nat
        /\ Cardinality(Before(B, start)) \in Nat
        /\ Cardinality(Own(A, start)) \in Nat /\ Cardinality(After(A, start)) \in Nat
        /\ Cardinality(Before(A, start)) \in Nat
    BY <1>1, PartsAreFinite
  <1>4. ASSUME t + 1 - start < Window PROVE Own(B, start) = Own(A, start)
    BY <1>4 DEF Own
  <1>5. /\ \A a \in A : a.at - start < Window
        /\ Cardinality(Own(A, start)) <= Least(count, limit)
        /\ Cardinality(After(A, start)) < Least(count, limit)
        /\ Cardinality(Before(A, start)) < limit
        /\ t - start < Window => Cardinality(Own(A, start)) = Least(count, limit)
    BY DEF WindowOK, Own, After, Before
  <1>6. Least(count, limit) \in Nat
    BY DEF Least
  <1>7. /\ \A a \in B : a.at - start < Window
        /\ Cardinality(Own(B, start)) <= Least(count, limit)
        /\ Cardinality(After(B, start)) < Least(count, limit)
        /\ Cardinality(Before(B, start)) < limit
        /\ t + 1 - start < Window => Cardinality(Own(B, start)) = Least(count, limit)
    <2> HIDE DEF B
    <2>1. t + 1 - start < Window => t - start < Window
      OBVIOUS
    <2> QED BY <1>1, <1>2, <1>3, <1>4, <1>5, <1>6, <2>1
  <1> HIDE DEF B
  <1>8. WindowOK(B, start, count, limit, t + 1)
    BY <1>7 DEF WindowOK, Own, After, Before
  <1> QED BY <1>8 DEF B

\* One more request in a running window: let through below the limit, and only counted at it.
LEMMA WindowCounts ==
  ASSUME NEW A, IsFiniteSet(A), \A a \in A : a.at \in Int,
         NEW start \in Int, NEW count \in Nat, NEW limit \in Nat, NEW t \in Int,
         WindowOK(A, start, count, limit, t), start <= t, t - start < Window,
         NEW e, e.at = t, e \notin A
  PROVE  /\ count < limit => WindowOK(A \cup {e}, start, count + 1, limit, t)
         /\ count >= limit => WindowOK(A, start, count + 1, limit, t)
  <1> DEFINE B == A \cup {e}
  <1> USE LimitsAssumption
  <1>1. /\ \A a \in A : a.at - start < Window
        /\ Cardinality(Own(A, start)) <= Least(count, limit)
        /\ Cardinality(After(A, start)) < Least(count, limit)
        /\ Cardinality(Before(A, start)) < limit
        /\ Cardinality(Own(A, start)) = Least(count, limit)
    BY DEF WindowOK, Own, After, Before
  <1>2. /\ IsFiniteSet(Own(A, start)) /\ Cardinality(Own(A, start)) \in Nat
        /\ IsFiniteSet(After(A, start)) /\ Cardinality(After(A, start)) \in Nat
        /\ Cardinality(Before(A, start)) \in Nat
    BY PartsAreFinite
  <1>3. Own(B, start) = Own(A, start) \cup {e} /\ e \notin Own(A, start)
    BY DEF Own
  <1>4. After(B, start) \in SUBSET (After(A, start) \cup {e}) /\ e \notin After(A, start)
    BY DEF After
  <1>5. Before(B, start) = Before(A, start)
    BY DEF Before
  <1>6. Cardinality(Own(B, start)) = Cardinality(Own(A, start)) + 1
    BY <1>2, <1>3, FS_AddElement
  <1>7. /\ Cardinality(After(B, start)) <= Cardinality(After(A, start)) + 1
        /\ Cardinality(After(B, start)) \in Nat
    <2>1. /\ IsFiniteSet(After(A, start) \cup {e})
          /\ Cardinality(After(A, start) \cup {e}) = Cardinality(After(A, start)) + 1
      BY <1>2, <1>4, FS_AddElement
    <2>2. /\ IsFiniteSet(After(B, start))
          /\ Cardinality(After(B, start)) <= Cardinality(After(A, start) \cup {e})
      BY <1>4, <2>1, FS_Subset
    <2> QED BY <2>1, <2>2, FS_CardinalityType
  <1>8. \A a \in B : a.at - start < Window
    BY <1>1
  <1> HIDE DEF B
  <1>9. ASSUME count < limit PROVE WindowOK(B, start, count + 1, limit, t)
    <2>1. Least(count, limit) = count /\ Least(count + 1, limit) = count + 1
      BY <1>9 DEF Least
    <2>2. /\ Cardinality(Own(B, start)) = Least(count + 1, limit)
          /\ Cardinality(After(B, start)) < Least(count + 1, limit)
          /\ Cardinality(Before(B, start)) < limit
      BY <1>1, <1>2, <1>5, <1>6, <1>7, <2>1
    <2>3. Cardinality(Own(B, start)) <= Least(count + 1, limit)
      BY <2>1, <2>2
    <2> QED BY <1>8, <2>2, <2>3 DEF WindowOK, Own, After, Before
  <1>10. ASSUME count >= limit PROVE WindowOK(A, start, count + 1, limit, t)
    <2>1. Least(count, limit) = Least(count + 1, limit)
      BY <1>10 DEF Least
    <2> QED BY <2>1 DEF WindowOK
  <1> QED BY <1>9, <1>10 DEF B

\* A window opens with a request; what is left of the one before is less than a limit.
LEMMA WindowOpens ==
  ASSUME NEW A, IsFiniteSet(A), NEW t \in Int, \A a \in A : a.at \in Int /\ a.at < t,
         NEW limit \in Nat \ {0}, Cardinality(A) < limit,
         NEW e, e.at = t
  PROVE  WindowOK(A \cup {e}, t, 1, limit, t)
  <1> DEFINE B == A \cup {e}
  <1> USE LimitsAssumption
  <1>1. Own(B, t) = {e} /\ After(B, t) = {} /\ Before(B, t) = A
    BY DEF Own, After, Before
  <1>2. Least(1, limit) = 1
    BY DEF Least
  <1>3. \A a \in B : a.at - t < Window
    OBVIOUS
  <1>4. /\ Cardinality(Own(B, t)) = 1 /\ Cardinality(After(B, t)) = 0
        /\ Cardinality(Before(B, t)) < limit
    BY <1>1, FS_Singleton, FS_EmptySet
  <1> HIDE DEF B
  <1>5. WindowOK(B, t, 1, limit, t)
    BY <1>2, <1>3, <1>4 DEF WindowOK, Own, After, Before
  <1> QED BY <1>5 DEF B

\* Of a window that is over, fewer than the limit are left, all from after its beginning
\* and from before now.
LEMMA WindowOver ==
  ASSUME NEW A, IsFiniteSet(A), \A a \in A : a.at \in Int,
         NEW start \in Int, NEW count \in Nat, NEW limit \in Nat, NEW t \in Int,
         WindowOK(A, start, count, limit, t), t - start >= Window,
         \A a \in A : t - a.at < Window
  PROVE  Cardinality(A) < limit /\ \A a \in A : a.at < t /\ a.at > start
  <1> USE LimitsAssumption
  <1>1. \A a \in A : a.at - start < Window
    BY DEF WindowOK
  <1>2. \A a \in A : a.at < t /\ a.at > start
    BY <1>1
  <1>3. After(A, start) = A
    BY <1>2 DEF After
  <1>4. Cardinality(After(A, start)) < Least(count, limit) /\ Cardinality(A) \in Nat
    BY PartsAreFinite DEF WindowOK, After
  <1>5. Least(count, limit) <= limit
    BY DEF Least
  <1>6. Cardinality(A) < limit
    BY <1>3, <1>4, <1>5 DEF Least
  <1> QED BY <1>2, <1>6

\* However a bucket's windows lie, fewer than two limits are left of them; and while a
\* window that has counted up to its limit lasts, the limit is.
LEMMA WindowTotal ==
  ASSUME NEW A, IsFiniteSet(A), \A a \in A : a.at \in Int,
         NEW start \in Int, NEW count \in Nat, NEW limit \in Nat, NEW t \in Int,
         WindowOK(A, start, count, limit, t)
  PROVE  /\ Cardinality(A) < 2 * limit
         /\ Cardinality(Own(A, start)) <= limit
         /\ count >= limit /\ t - start < Window => Cardinality(A) >= limit
  <1> USE LimitsAssumption
  <1>1. /\ IsFiniteSet(Own(A, start)) /\ Cardinality(Own(A, start)) \in Nat
        /\ IsFiniteSet(Before(A, start)) /\ Cardinality(Before(A, start)) \in Nat
        /\ Cardinality(A) \in Nat
    BY PartsAreFinite
  <1>2. A = Own(A, start) \cup Before(A, start) /\ Own(A, start) \cap Before(A, start) = {}
    BY DEF Own, Before
  <1>3. Cardinality(A) = Cardinality(Own(A, start)) + Cardinality(Before(A, start))
    <2>1. Cardinality(A) = Cardinality(Own(A, start)) + Cardinality(Before(A, start))
                             - Cardinality(Own(A, start) \cap Before(A, start))
      BY <1>1, <1>2, FS_Union
    <2>2. Cardinality(Own(A, start) \cap Before(A, start)) = 0
      BY <1>2, FS_EmptySet
    <2> QED BY <1>1, <2>1, <2>2
  <1>4. /\ Cardinality(Own(A, start)) <= Least(count, limit)
        /\ Cardinality(Before(A, start)) < limit
        /\ t - start < Window => Cardinality(Own(A, start)) = Least(count, limit)
    BY DEF WindowOK, Own, Before
  <1>5. Least(count, limit) \in Nat /\ Least(count, limit) <= limit
        /\ (count >= limit => Least(count, limit) = limit)
    BY DEF Least
  <1> QED BY <1>1, <1>3, <1>4, <1>5

-----------------------------------------------------------------------------
(* The first limiter: who is counted where.                                *)

\* The address a request is counted to is a real one, whatever the header says.
LEMMA AddressIsReal ==
  ASSUME NEW peer \in Addresses, NEW chain, NEW long
  PROVE  clientAddress(peer, chain, long) \in Addresses
  BY DEF clientAddress

\* The proxies append to the header behind whatever the client wrote: the last hop that
\* is not a trusted proxy is the client, so a header that is not dropped is read right;
\* and a request whose header is dropped is counted to the proxy it came through.
LEMMA ClientIsSeen ==
  ASSUME NEW origin \in Origins, NEW proxies \in Routes, NEW forged \in Forgeries
  PROVE  LET hops  == <<origin>> \o proxies
             peer  == hops[Len(hops)]
             chain == forged.hops \o SubSeq(hops, 1, Len(hops) - 1)
         IN /\ peer \in Addresses
            /\ clientAddress(peer, chain, forged.long) =
                 IF Dropped(chain, forged.long) THEN peer ELSE origin
  <1> DEFINE hops  == <<origin>> \o proxies
             peer  == hops[Len(hops)]
             front == SubSeq(hops, 1, Len(hops) - 1)
             chain == forged.hops \o front
             dropped == Dropped(chain, forged.long)
  <1>0. MaxProxies \in Nat /\ Trusted \subseteq Addresses /\ origin \in Addresses \ Trusted
    BY LimitsAssumption
  <1>1. PICK n \in 0..MaxProxies : proxies \in [1..n -> Trusted]
    BY DEF Routes
  <1> USE <1>0
  <1>2. proxies \in Seq(Addresses) /\ Len(proxies) = n
    BY <1>1
  <1>3. /\ hops \in Seq(Addresses) /\ Len(hops) = n + 1
        /\ hops[1] = origin
        /\ \A i \in 1..n : hops[i + 1] = proxies[i]
    BY <1>2
  <1>4. /\ front \in Seq(Addresses) /\ Len(front) = n
        /\ \A i \in 1..n : front[i] = hops[i]
    BY <1>3
  <1>5. peer \in Addresses
    BY <1>3
  <1>6. n = 0 => peer = origin
    BY <1>3
  <1>7. n > 0 => peer \in Trusted
    BY <1>1, <1>3
  <1>8. n = 0 => clientAddress(peer, chain, forged.long) = origin
    BY <1>6 DEF clientAddress
  <1>9. ASSUME n > 0, ~dropped PROVE clientAddress(peer, chain, forged.long) = origin
    <2> DEFINE m == Len(forged.hops)
               foreign == {i \in DOMAIN chain : chain[i] \notin Trusted}
    <2>1. forged.hops \in Seq(Range(forged.hops)) /\ m \in Nat
      <3>1. forged.hops \in Seq(Range(forged.hops))
        BY LimitsAssumption
      <3>2. ASSUME NEW S, NEW w \in Seq(S) PROVE Len(w) \in Nat
        OBVIOUS
      <3> QED BY <3>1, <3>2
    <2>2. /\ DOMAIN chain = 1..(m + n) /\ chain # << >>
          /\ \A i \in 1..n : chain[m + i] = front[i]
      <3> DEFINE own == forged.hops
                 all == Range(own)
      <3>1. own \in Seq(all) /\ m = Len(own) /\ m \in Nat /\ chain = own \o front
        BY <2>1
      <3> HIDE DEF hops, front, own, all, m, chain, dropped
      <3>2. /\ DOMAIN chain = 1..(m + n)
            /\ \A i \in 1..n : chain[m + i] = front[i]
        <4> DEFINE S == all \cup Addresses
        <4>1. own \in Seq(S) /\ front \in Seq(S)
          BY <1>4, <3>1, SeqMonotonic
        <4> HIDE DEF S
        <4>2. /\ chain \in Seq(S) /\ Len(chain) = m + n
              /\ \A i \in 1..(m + n) : chain[i] = IF i <= m THEN own[i] ELSE front[i - m]
          BY <1>4, <3>1, <4>1, ConcatProperties
        <4>3. DOMAIN chain = 1..(m + n)
          BY <4>2
        <4>4. m \in Nat /\ n \in Nat
          BY <3>1
        <4>5. ASSUME NEW i \in 1..n PROVE chain[m + i] = front[i]
          <5> DEFINE j == m + i
          <5>1. j \in 1..(m + n) /\ ~(j <= m) /\ j - m = i
            BY <4>4
          <5> HIDE DEF j
          <5>2. chain[j] = front[i]
            BY <4>2, <5>1
          <5> QED BY <5>2 DEF j
        <4> QED BY <4>3, <4>5
      <3>3. 1 \in DOMAIN chain
        BY <1>1, <1>9, <3>1, <3>2
      <3>4. chain # << >>
        BY <3>3
      <3> HIDE DEF front, m, chain
      <3> QED BY <3>2, <3>4
    <2>3. chain[m + 1] = origin
      <3>1. 1 \in 1..n
        BY <1>1, <1>9
      <3> HIDE DEF hops, front, chain, m
      <3> QED BY <1>3, <1>4, <2>2, <3>1
    <2>4. \A i \in 1..(m + n) : i > m + 1 => chain[i] \in Trusted
      <3> SUFFICES ASSUME NEW i \in 1..(m + n), i > m + 1 PROVE chain[i] \in Trusted
        OBVIOUS
      <3>1. i - m \in 1..n /\ i - m - 1 \in 1..n /\ m + (i - m) = i /\ i - m - 1 + 1 = i - m
        BY <2>1
      <3>2. chain[i] = proxies[i - m - 1]
        <4> HIDE DEF hops, front, chain
        <4> QED BY <1>3, <1>4, <2>2, <3>1
      <3> QED BY <1>1, <3>1, <3>2
    <2>5. m + 1 \in foreign /\ \A j \in foreign : j <= m + 1 /\ j \in Int
      <3> HIDE DEF hops, front, chain
      <3> QED BY <1>9, <2>1, <2>2, <2>3, <2>4
    <2>6. (CHOOSE i \in foreign : \A j \in foreign : j <= i) = m + 1
      <3> HIDE DEF foreign
      <3> QED BY <2>1, <2>5
    <2>7. foreign # {}
      BY <2>5
    <2> HIDE DEF hops, front, chain, peer
    <2> QED BY <1>7, <1>9, <2>2, <2>3, <2>6, <2>7 DEF clientAddress
  <1>10. dropped => clientAddress(peer, chain, forged.long) = peer
    <2> HIDE DEF hops, front, chain, peer
    <2> QED BY DEF clientAddress
  <1>11. clientAddress(peer, chain, forged.long) = IF dropped THEN peer ELSE origin
    <2>1. n = 0 \/ n > 0
      BY <1>1
    <2> HIDE DEF chain, peer, dropped
    <2> QED BY <1>6, <1>8, <1>9, <1>10, <2>1
  <1> QED BY <1>5, <1>11

\* A request is counted to its client's network, or to the overflow bucket while the
\* table is full and the network has no entry; a header that is dropped counts for the proxy's.
LEMMA RequestKey ==
  ASSUME LimitsInv, NEW address \in Addresses
  PROVE  /\ KeyOf(address) \in Keys
         /\ KeyOf(address) \in DOMAIN entries \/ Cardinality(DOMAIN entries) < MaxEntries
         /\ KeyOf(address) \in {NetworkOf[address], Overflow}
         /\ KeyOf(address) = Overflow => NetworkOf[address] \notin DOMAIN entries
  <1>1. NetworkOf[address] \in Networks /\ Overflow \notin Networks
    BY LimitsAssumption
  <1>2. Overflow \in DOMAIN entries
    BY DEF LimitsInv, LimitsTypeOK
  <1>3. IsFiniteSet(DOMAIN entries) /\ Cardinality(DOMAIN entries) \in Nat /\ MaxEntries \in Nat
    <2>1. DOMAIN entries \in SUBSET Keys /\ IsFiniteSet(Keys)
      BY LimitsAssumption, FS_AddElement DEF LimitsInv, LimitsTypeOK, Keys
    <2> QED BY <2>1, FS_Subset, FS_CardinalityType, LimitsAssumption
  <1> QED BY <1>1, <1>2, <1>3 DEF KeyOf, Keys

\* What Allow does to the table: the key's entry counts once more, no other changes, and
\* what is pruned was last seen more than a window ago.
LEMMA AllowEffect ==
  ASSUME LimitsInv, NEW key \in Keys, Allow(key)
  PROVE  /\ DOMAIN entries' \subseteq DOMAIN entries \cup {key}
         /\ Overflow \in DOMAIN entries' /\ key \in DOMAIN entries'
         /\ entries'[key] = Counted(IF key \in DOMAIN entries THEN entries[key] ELSE NoEntry)
         /\ \A k \in DOMAIN entries' : k # key => entries'[k] = entries[k]
         /\ \A k \in DOMAIN entries : k \notin DOMAIN entries' =>
              k # key /\ now - entries[k].seen > PruneAge
  <1> DEFINE entry == Counted(IF key \in DOMAIN entries THEN entries[key] ELSE NoEntry)
             table == [k \in DOMAIN entries \cup {key} |-> IF k = key THEN entry ELSE entries[k]]
             due   == (requests + 1) % PruneEvery = 0
             kept  == IF due THEN Kept(table) ELSE DOMAIN table
  <1> USE LimitsAssumption
  <1>1. entries' = [k \in kept |-> table[k]]
    BY DEF Allow, Restrict
  <1>2. /\ now \in 0..Horizon /\ Overflow \in DOMAIN entries
        /\ \A k \in DOMAIN entries : entries[k] \in Entry
    BY DEF LimitsInv, LimitsTypeOK
  <1>3. entry.seen = now
    BY <1>2 DEF Counted, Entry, NoEntry
  <1>4. kept \in SUBSET (DOMAIN entries \cup {key}) /\ key \in kept /\ Overflow \in kept
    <2> HIDE DEF entry
    <2> QED BY <1>2, <1>3 DEF Kept
  <1>5. \A k \in DOMAIN entries : k \notin kept => k # key /\ now - entries[k].seen > PruneAge
    <2> SUFFICES ASSUME NEW k \in DOMAIN entries, k \notin kept
                 PROVE  k # key /\ now - entries[k].seen > PruneAge
      OBVIOUS
    <2>1. k # key /\ table[k] = entries[k]
      BY <1>4
    <2>2. ~(entries[k].seen >= now - PruneAge)
      <3> HIDE DEF entry
      <3> QED BY <2>1 DEF Kept
    <2>3. entries[k].seen \in Int
      BY <1>2 DEF Entry, Times, Zero
    <2> QED BY <1>2, <2>1, <2>2, <2>3
  <1> HIDE DEF kept, entry
  <1>6. /\ DOMAIN entries' = kept
        /\ \A k \in kept : entries'[k] = IF k = key THEN entry ELSE entries[k]
    BY <1>1, <1>4
  <1>7. entries'[key] = entry
    BY <1>4, <1>6
  <1> QED BY <1>4, <1>5, <1>6, <1>7 DEF entry

\* What the invariant says of the history and of an entry.
LEMMA HistoryFacts ==
  ASSUME LimitsInv
  PROVE  /\ now \in 0..Horizon /\ requests \in 0..MaxRequests
         /\ IsFiniteSet(admitted)
         /\ \A a \in admitted : /\ a \in Admission /\ a.at \in Int /\ a.n \in Int /\ a.at >= 0
                                /\ now - a.at < Window /\ a.at <= now /\ a.n <= requests
  BY LimitsAssumption DEF LimitsInv, LimitsTypeOK, Admission

LEMMA ThroughFacts ==
  ASSUME LimitsInv, NEW k
  PROVE  /\ IsFiniteSet(Through(k)) /\ Through(k) \subseteq admitted
         /\ \A a \in Through(k) : a.at \in Int /\ a.at <= now /\ now - a.at < Window
  <1>1. Through(k) \in SUBSET admitted
    BY DEF Through
  <1> QED BY <1>1, HistoryFacts, FS_Subset

LEMMA EntryFacts ==
  ASSUME LimitsInv, NEW k \in DOMAIN entries
  PROVE  /\ k \in Keys
         /\ entries[k] = [start |-> entries[k].start, seen |-> entries[k].seen,
                          count |-> entries[k].count]
         /\ entries[k].start \in Int /\ entries[k].seen \in Int /\ entries[k].count \in Nat
         /\ entries[k].start >= Zero /\ entries[k].start <= now
         /\ entries[k].seen <= now /\ entries[k].count <= requests
         /\ \A a \in Through(k) : a.at <= entries[k].seen
         /\ entries[k].start = Zero => Through(k) = {} /\ entries[k].count = 0
         /\ entries[k].start # Zero =>
              /\ entries[k].count > 0
              /\ WindowOK(Through(k), entries[k].start, entries[k].count, Limit, now)
  <1>1. entries[k] \in Entry /\ k \in Keys /\ EntryOK(k)
    BY DEF LimitsInv, LimitsTypeOK
  <1>2. now \in Int /\ requests \in Int
    BY HistoryFacts
  <1> QED BY <1>1, <1>2, LimitsAssumption DEF EntryOK, Entry, Times, Zero

\* An entry after one more request, and what it lets through: request x, if the count is
\* within the limit.  A request that is refused finds a limit's worth let through.
LEMMA CountedWindow ==
  ASSUME now \in 0..Horizon, requests \in 0..MaxRequests, requests < MaxRequests,
         NEW A, IsFiniteSet(A), \A a \in A : a.at \in Int /\ a.at <= now /\ now - a.at < Window,
         NEW start \in Int, NEW seen, NEW count \in Nat,
         start >= Zero, start <= now, count <= requests,
         start = Zero => A = {},
         start # Zero => WindowOK(A, start, count, Limit, now),
         NEW x, x.at = now, x \notin A,
         NEW new, new = Counted([start |-> start, seen |-> seen, count |-> count])
  PROVE  /\ new \in Entry /\ new.seen = now
         /\ new.start \in 0..now /\ new.count \in 1..(requests + 1)
         /\ new.count <= Limit => WindowOK(A \cup {x}, new.start, new.count, Limit, now)
         /\ new.count > Limit =>
              WindowOK(A, new.start, new.count, Limit, now) /\ Cardinality(A) >= Limit
         /\ start = Zero \/ now - start >= Window => new.start = now
         /\ ~(start = Zero \/ now - start >= Window) => new.start = start
  <1> USE LimitsAssumption
  <1>1. CASE start = Zero \/ now - start >= Window
    <2>1. new = [start |-> now, seen |-> now, count |-> 1]
      BY <1>1 DEF Counted
    <2>2. Cardinality(A) < Limit /\ \A a \in A : a.at < now
      <3>1. CASE start = Zero
        BY <3>1, FS_EmptySet
      <3>2. CASE start # Zero
        BY <1>1, <3>2, WindowOver
      <3> QED BY <3>1, <3>2
    <2>3. WindowOK(A \cup {x}, now, 1, Limit, now)
      BY <2>2, WindowOpens
    <2>4. new \in Entry
      BY <2>1 DEF Entry, Times, Zero
    <2> QED BY <1>1, <2>1, <2>3, <2>4
  <1>2. CASE ~(start = Zero \/ now - start >= Window)
    <2>1. new = [start |-> start, seen |-> now, count |-> count + 1]
      BY <1>2 DEF Counted
    <2>2. WindowOK(A, start, count, Limit, now) /\ now - start < Window /\ start >= 0
      BY <1>2 DEF Zero
    <2>3. /\ count < Limit => WindowOK(A \cup {x}, start, count + 1, Limit, now)
          /\ count >= Limit => WindowOK(A, start, count + 1, Limit, now)
      <3>1. now \in Int /\ Limit \in Nat /\ \A a \in A : a.at \in Int
        OBVIOUS
      <3> QED BY ONLY <2>2, <3>1, IsFiniteSet(A), start \in Int, count \in Nat, start <= now,
                      x.at = now, x \notin A, WindowCounts
    <2>4. count >= Limit => Cardinality(A) >= Limit
      BY <2>2, WindowTotal
    <2>5. new \in Entry
      BY <2>1, <2>2 DEF Entry, Times, Zero
    <2>6. new.start = start /\ new.seen = now /\ new.count = count + 1
      BY <2>1
    <2>7. /\ new.count \in 1..(requests + 1) /\ new.start \in 0..now
          /\ new.count <= Limit => count < Limit
          /\ new.count > Limit => count >= Limit
      BY <2>2, <2>6
    <2>8. new.count <= Limit => WindowOK(A \cup {x}, new.start, new.count, Limit, now)
      BY <2>3, <2>6, <2>7
    <2>9. new.count > Limit =>
            WindowOK(A, new.start, new.count, Limit, now) /\ Cardinality(A) >= Limit
      BY <2>3, <2>4, <2>6, <2>7
    <2> QED BY <1>2, <2>5, <2>6, <2>7, <2>8, <2>9
  <1> QED BY <1>1, <1>2

\* The same of an entry of the table, or of one that is made for the request.
LEMMA CountedOK ==
  ASSUME LimitsInv, NEW key \in Keys, requests < MaxRequests,
         NEW x, x.at = now, x \notin Through(key),
         NEW new, new = Counted(IF key \in DOMAIN entries THEN entries[key] ELSE NoEntry)
  PROVE  /\ new \in Entry /\ new.seen = now
         /\ new.start \in 0..now /\ new.count \in 1..(requests + 1)
         /\ new.count <= Limit =>
              WindowOK(Through(key) \cup {x}, new.start, new.count, Limit, now)
         /\ new.count > Limit =>
              /\ WindowOK(Through(key), new.start, new.count, Limit, now)
              /\ Cardinality(Through(key)) >= Limit
         /\ key \notin DOMAIN entries => new.start = now
         /\ key \in DOMAIN entries =>
              new.start = entries[key].start \/ entries[key].start = Zero
                                             \/ now - entries[key].start >= Window
  <1>1. now \in 0..Horizon /\ requests \in 0..MaxRequests
    BY HistoryFacts
  <1>2. /\ IsFiniteSet(Through(key))
        /\ \A a \in Through(key) : a.at \in Int /\ a.at <= now /\ now - a.at < Window
    BY ThroughFacts
  <1>3. CASE key \in DOMAIN entries
    <2> DEFINE start == entries[key].start
               count == entries[key].count
    <2>1. /\ new = Counted([start |-> start, seen |-> entries[key].seen, count |-> count])
          /\ start \in Int /\ count \in Nat /\ start >= Zero /\ start <= now
          /\ count <= requests
          /\ start = Zero => Through(key) = {}
          /\ start # Zero => WindowOK(Through(key), start, count, Limit, now)
      BY <1>3, EntryFacts
    <2>2. /\ new \in Entry /\ new.seen = now
          /\ new.start \in 0..now /\ new.count \in 1..(requests + 1)
          /\ new.count <= Limit =>
               WindowOK(Through(key) \cup {x}, new.start, new.count, Limit, now)
          /\ new.count > Limit =>
               /\ WindowOK(Through(key), new.start, new.count, Limit, now)
               /\ Cardinality(Through(key)) >= Limit
          /\ ~(start = Zero \/ now - start >= Window) => new.start = start
      <3> HIDE DEF start, count
      <3> QED BY <1>1, <1>2, <2>1, CountedWindow
    <2> QED BY <1>3, <2>2
  <1>4. CASE key \notin DOMAIN entries
    <2>1. new = Counted([start |-> Zero, seen |-> Zero, count |-> 0])
      BY <1>4 DEF NoEntry
    <2>2. Through(key) = {}
      <3>1. EntryOK(key)
        BY DEF LimitsInv
      <3> QED BY <1>4, <3>1 DEF EntryOK
    <2>3. Zero \in Int /\ Zero <= now /\ Zero <= Zero
      BY <1>1 DEF Zero
    <2>4. /\ new \in Entry /\ new.seen = now
          /\ new.start \in 0..now /\ new.count \in 1..(requests + 1)
          /\ new.count <= Limit =>
               WindowOK(Through(key) \cup {x}, new.start, new.count, Limit, now)
          /\ new.count > Limit =>
               /\ WindowOK(Through(key), new.start, new.count, Limit, now)
               /\ Cardinality(Through(key)) >= Limit
          /\ new.start = now
      BY <1>1, <1>2, <2>1, <2>2, <2>3, CountedWindow
    <2> QED BY <1>4, <2>4
  <1> QED BY <1>3, <1>4

\* A request on the account of network `payer`, counted to `key`, is recorded as x if it is let
\* through: every entry stays right, every source is still counted in two places at most,
\* and a refusal is justified.
LEMMA CountedInv ==
  ASSUME LimitsInv, NEW payer \in Networks, NEW key \in Keys,
         requests < MaxRequests, Allow(key),
         key \in DOMAIN entries \/ Cardinality(DOMAIN entries) < MaxEntries,
         key \in {payer, Overflow}, key = Overflow => payer \notin DOMAIN entries,
         NEW x, x = [n |-> requests + 1, key |-> key, payer |-> payer, at |-> now],
         verdict'.ok => admitted' = admitted \cup {x} /\ waiting' \subseteq Users,
         ~verdict'.ok => UNCHANGED <<admitted, waiting>>,
         UNCHANGED <<now, states, searched>>
  PROVE  LimitsInv'
  <1> DEFINE new == Counted(IF key \in DOMAIN entries THEN entries[key] ELSE NoEntry)
  <1> USE Bounds
  <1>1. /\ now \in 0..Horizon /\ requests \in 0..MaxRequests /\ IsFiniteSet(admitted)
        /\ \A a \in admitted : /\ a \in Admission /\ a.at \in Int /\ a.n \in Int /\ a.at >= 0
                               /\ now - a.at < Window /\ a.at <= now /\ a.n <= requests
    BY HistoryFacts
  <1>2. /\ DOMAIN entries' \subseteq DOMAIN entries \cup {key}
        /\ Overflow \in DOMAIN entries' /\ key \in DOMAIN entries'
        /\ entries'[key] = new
        /\ \A k \in DOMAIN entries' : k # key => entries'[k] = entries[k]
        /\ \A k \in DOMAIN entries : k \notin DOMAIN entries' =>
             k # key /\ now - entries[k].seen > PruneAge
    BY AllowEffect
  <1>3. /\ requests' = requests + 1
        /\ verdict'.by = "source" /\ verdict'.key = key
        /\ verdict'.ok \in BOOLEAN /\ (verdict'.ok <=> new.count <= Limit)
    <2>1. /\ requests' = requests + 1
          /\ verdict' = [by |-> "source", key |-> key, ok |-> new.count <= Limit]
      BY DEF Allow
    <2> HIDE DEF new
    <2> DEFINE ok == new.count <= Limit
    <2>2. ok \in BOOLEAN
      OBVIOUS
    <2>3. verdict'.ok = ok
      BY <2>1
    <2>4. verdict'.ok \in BOOLEAN /\ (verdict'.ok <=> ok)
      <3> HIDE DEF ok
      <3> QED BY <2>2, <2>3
    <2> QED BY <2>1, <2>4
  <1>4. /\ x.at = now /\ x.n = requests + 1 /\ x.key = key /\ x.payer = payer
        /\ x \notin admitted /\ x \notin Through(key)
    BY <1>1 DEF Through
  <1>5. /\ new \in Entry /\ new.seen = now
        /\ new.start \in 0..now /\ new.count \in 1..(requests + 1)
        /\ new.count <= Limit =>
             WindowOK(Through(key) \cup {x}, new.start, new.count, Limit, now)
        /\ new.count > Limit =>
             /\ WindowOK(Through(key), new.start, new.count, Limit, now)
             /\ Cardinality(Through(key)) >= Limit
        /\ key \notin DOMAIN entries => new.start = now
        /\ key \in DOMAIN entries =>
             new.start = entries[key].start \/ entries[key].start = Zero
                                            \/ now - entries[key].start >= Window
    <2> HIDE DEF new
    <2>1. new = Counted(IF key \in DOMAIN entries THEN entries[key] ELSE NoEntry)
      BY DEF new
    <2> QED BY <1>4, <2>1, CountedOK
  <1> HIDE DEF new
  <1>6. /\ verdict'.ok \in BOOLEAN
        /\ verdict'.ok => new.count <= Limit /\ admitted' = admitted \cup {x}
        /\ ~verdict'.ok => new.count > Limit /\ admitted' = admitted
        /\ waiting' \subseteq Users
    <2>1. waiting \subseteq Users
      BY DEF LimitsInv, LimitsTypeOK
    <2>2. new.count \in Int
      BY <1>1, <1>5
    <2>3. ~verdict'.ok => new.count > Limit
      BY <1>3, <2>2
    <2> QED BY <1>3, <2>1, <2>3
  <1>7. /\ admitted \subseteq admitted' /\ admitted' \subseteq admitted \cup {x}
        /\ now' = now /\ searched' = searched /\ states' = states
    BY <1>6
  <1>8. /\ IsFiniteSet(admitted')
        /\ \A a \in admitted' : /\ a \in Admission /\ now - a.at < Window
                                /\ a.at <= now /\ a.n <= requests + 1
    <2>1. x \in Admission
      BY <1>1 DEF Admission
    <2>2. IsFiniteSet(admitted \cup {x})
      BY <1>1, FS_AddElement
    <2>3. admitted' \in SUBSET (admitted \cup {x})
      BY <1>7
    <2>4. IsFiniteSet(admitted')
      BY <2>2, <2>3, FS_Subset
    <2>5. ASSUME NEW a \in admitted'
          PROVE  a \in Admission /\ now - a.at < Window /\ a.at <= now /\ a.n <= requests + 1
      <3>1. CASE a \in admitted
        BY <1>1, <3>1
      <3>2. CASE a = x
        BY <1>1, <1>4, <2>1, <3>2
      <3> QED BY <1>7, <3>1, <3>2
    <2> QED BY <2>4, <2>5
  <1>9. Cardinality(DOMAIN entries') <= MaxEntries
    <2>1. /\ DOMAIN entries \in SUBSET Keys /\ IsFiniteSet(Keys)
          /\ Cardinality(DOMAIN entries) <= MaxEntries
      BY FS_AddElement DEF LimitsInv, LimitsTypeOK, Keys
    <2>2. IsFiniteSet(DOMAIN entries) /\ Cardinality(DOMAIN entries) \in Nat
      BY <2>1, FS_Subset, FS_CardinalityType
    <2>3. /\ IsFiniteSet(DOMAIN entries \cup {key})
          /\ Cardinality(DOMAIN entries \cup {key}) <= MaxEntries
      <3>1. CASE key \in DOMAIN entries
        <4>1. DOMAIN entries \cup {key} = DOMAIN entries
          BY <3>1
        <4> QED BY <2>1, <2>2, <4>1
      <3>2. CASE key \notin DOMAIN entries
        <4>1. /\ IsFiniteSet(DOMAIN entries \cup {key})
              /\ Cardinality(DOMAIN entries \cup {key}) = Cardinality(DOMAIN entries) + 1
          BY <2>2, <3>2, FS_AddElement
        <4>2. Cardinality(DOMAIN entries) < MaxEntries
          BY <3>2
        <4> QED BY <2>2, <4>1, <4>2
      <3> QED BY <3>1, <3>2
    <2>4. /\ Cardinality(DOMAIN entries') <= Cardinality(DOMAIN entries \cup {key})
          /\ Cardinality(DOMAIN entries') \in Nat /\ Cardinality(DOMAIN entries \cup {key}) \in Nat
      BY <1>2, <2>3, FS_Subset, FS_CardinalityType
    <2> QED BY <2>3, <2>4
  <1>10. LimitsTypeOK'
    <2>1. \A k \in DOMAIN entries' : entries'[k] \in Entry
      BY <1>2, <1>5 DEF LimitsInv, LimitsTypeOK
    <2>2. /\ DOMAIN states \subseteq Users /\ \A u \in DOMAIN states : states[u] \in State
          /\ searched \in [Users -> SUBSET Passage]
      BY DEF LimitsInv, LimitsTypeOK
    <2>3. DOMAIN entries' \subseteq Keys
      BY <1>2 DEF LimitsInv, LimitsTypeOK
    <2>4. now' \in 0..Horizon /\ requests' \in 0..MaxRequests
      BY <1>1, <1>3, <1>7
    <2>5. verdict'.by \in {"none", "source", "search"} /\ verdict'.ok \in BOOLEAN
      BY <1>3, <1>6
    <2>6. \A a \in admitted' : a \in Admission /\ now' - a.at < Window
      BY <1>7, <1>8
    <2> QED BY <1>2, <1>6, <1>7, <1>9, <2>1, <2>2, <2>3, <2>4, <2>5, <2>6 DEF LimitsTypeOK
  <1>11. \A k : k # key => Through(k)' = Through(k)
    BY <1>4, <1>7 DEF Through
  <1>12. /\ verdict'.ok => Through(key)' = Through(key) \cup {x}
         /\ ~verdict'.ok => Through(key)' = Through(key)
    BY <1>4, <1>6 DEF Through
  <1>13. \A k \in Keys : EntryOK(k)'
    <2> SUFFICES ASSUME NEW k \in Keys PROVE EntryOK(k)'
      OBVIOUS
    <2>1. CASE k = key
      <3>1. \A a \in Through(key)' : a.at <= now
        BY <1>7, <1>8 DEF Through
      <3>2. WindowOK(Through(key)', new.start, new.count, Limit, now)
        BY <1>5, <1>6, <1>12
      <3>3. new.start # Zero /\ new.start <= now /\ new.count > 0 /\ new.count <= requests + 1
        BY <1>1, <1>5 DEF Zero
      <3>4. WindowOK(Through(key)', entries'[key].start, entries'[key].count, Limit, now')
        BY <1>2, <1>7, <3>2
      <3>5. /\ key \in DOMAIN entries' /\ entries'[key].start # Zero /\ entries'[key].count > 0
            /\ entries'[key].start <= entries'[key].seen /\ entries'[key].seen <= now'
            /\ entries'[key].count <= requests'
            /\ \A a \in Through(key)' : a.at <= entries'[key].seen
        BY <1>1, <1>2, <1>3, <1>5, <1>7, <3>1, <3>3
      <3> QED BY <2>1, <3>4, <3>5 DEF EntryOK
    <2>2. CASE k # key
      <3>1. Through(k)' = Through(k)
        BY <1>11, <2>2
      <3>2. EntryOK(k)
        BY DEF LimitsInv
      <3>3. CASE k \in DOMAIN entries'
        <4>1. entries'[k] = entries[k] /\ k \in DOMAIN entries
          BY <1>2, <2>2, <3>3
        <4>2. entries[k].count <= requests + 1
          BY <1>1, <4>1, EntryFacts
        <4> QED BY <1>3, <1>7, <3>1, <3>2, <3>3, <4>1, <4>2 DEF EntryOK
      <3>4. CASE k \notin DOMAIN entries'
        <4>1. Through(k) = {}
          <5>1. CASE k \notin DOMAIN entries
            BY <3>2, <5>1 DEF EntryOK
          <5>2. CASE k \in DOMAIN entries
            <6>1. now - entries[k].seen > PruneAge /\ entries[k].seen \in Int
              BY <1>2, <3>4, <5>2, EntryFacts
            <6>2. \A a \in Through(k) :
                     a.at <= entries[k].seen /\ a.at \in Int /\ now - a.at < Window
              BY <5>2, EntryFacts, ThroughFacts
            <6> QED BY <1>1, <6>1, <6>2
          <5> QED BY <5>1, <5>2
        <4> QED BY <3>1, <3>4, <4>1 DEF EntryOK
      <3> QED BY <3>3, <3>4
    <2> QED BY <2>1, <2>2
  <1>14. \A s \in Networks : SourceOK(s)'
    <2> SUFFICES ASSUME NEW s \in Networks PROVE SourceOK(s)'
      OBVIOUS
    <2>1. SourceOK(s) /\ s \in Keys /\ s # Overflow
      BY DEF LimitsInv, Keys
    <2>2. \A a \in admitted' : a.payer = s => a.key \in {s, Overflow}
      BY <1>4, <1>7, <2>1 DEF SourceOK
    <2>3. s \in DOMAIN entries => Overflowed(s)' = Overflowed(s)
      BY <1>4, <1>7 DEF Overflowed
    <2>4. Overflowed(s) \subseteq admitted
      BY DEF Overflowed
    <2>5. ASSUME s \in DOMAIN entries', Overflowed(s)' # {}
          PROVE  /\ \A a \in Overflowed(s)' : a.at <= entries'[s].start
                 /\ \A a \in Through(s)' : a.at >= entries'[s].start
      <3>1. CASE s \in DOMAIN entries
        <4>1. /\ \A a \in Overflowed(s) : a.at <= entries[s].start
              /\ \A a \in Through(s) : a.at >= entries[s].start
              /\ Overflowed(s) # {} /\ Overflowed(s)' = Overflowed(s)
          BY <2>1, <2>3, <2>5, <3>1 DEF SourceOK
        <4>2. CASE s # key
          <5>1. entries'[s] = entries[s] /\ Through(s)' = Through(s)
            BY <1>2, <1>11, <2>5, <4>2
          <5> QED BY <4>1, <5>1
        <4>3. CASE s = key
          <5>1. entries[s].start \in Int /\ entries[s].start <= now
            BY <3>1, EntryFacts
          <5>2. ~(entries[s].start = Zero \/ now - entries[s].start >= Window)
            <6>1. PICK a \in Overflowed(s) : TRUE
              BY <4>1
            <6>2. a.at <= entries[s].start /\ a.at >= 0 /\ now - a.at < Window /\ a.at \in Int
              BY <1>1, <2>4, <4>1, <6>1
            <6> QED BY <1>1, <5>1, <6>2 DEF Zero
          <5>3. entries'[s].start = entries[s].start
            BY <1>2, <1>5, <3>1, <4>3, <5>2
          <5>4. \A a \in Through(s)' : a.at >= entries[s].start
            BY <1>4, <1>6, <1>12, <4>1, <4>3, <5>1
          <5> QED BY <4>1, <5>3, <5>4
        <4> QED BY <4>2, <4>3
      <3>2. CASE s \notin DOMAIN entries
        <4>1. s = key /\ entries'[s].start = now
          BY <1>2, <1>5, <2>5, <3>2
        <4>2. Through(s) = {}
          <5>1. EntryOK(s)
            BY <2>1 DEF LimitsInv
          <5> QED BY <3>2, <5>1 DEF EntryOK
        <4>3. \A a \in Through(s)' : a.at >= now
          BY <1>1, <1>4, <1>6, <1>12, <4>1, <4>2
        <4>4. \A a \in Overflowed(s)' : a.at <= now
          BY <1>8 DEF Overflowed
        <4> QED BY <4>1, <4>3, <4>4
      <3> QED BY <3>1, <3>2
    <2> QED BY <2>2, <2>5 DEF SourceOK
  <1>15. \A u \in Users : UserOK(u)'
    <2> SUFFICES ASSUME NEW u \in Users PROVE UserOK(u)'
      OBVIOUS
    <2>1. UserOK(u) /\ searched \in [Users -> SUBSET Passage]
      BY DEF LimitsInv, LimitsTypeOK
    <2>2. \A s \in searched[u] : s.n <= requests /\ s.n \in Int
      BY <2>1 DEF UserOK, Passage
    <2>3. \A s \in searched[u] : s.n <= requests + 1 /\ s.n < requests + 1
      BY <1>1, <2>2
    <2> QED BY <1>3, <1>7, <2>1, <2>3 DEF UserOK
  <1>16. RefusalIsJustified'
    <2> SUFFICES ASSUME ~verdict'.ok
                 PROVE  Cardinality({a \in admitted' : a.key = verdict'.key}) >= Limit
      BY <1>3 DEF RefusalIsJustified
    <2>1. {a \in admitted' : a.key = verdict'.key} = Through(key)
      BY <1>3, <1>6 DEF Through
    <2> QED BY <1>5, <1>6, <2>1
  <1>17. /\ \A u \in Users : IsFiniteSet(searched'[u])
         /\ \A a \in admitted' : a.at <= now' /\ a.n <= requests'
         /\ requests' > 0
    <2>1. \A u \in Users : IsFiniteSet(searched[u])
      BY DEF LimitsInv
    <2> QED BY <1>1, <1>3, <1>7, <1>8, <2>1
  <1> QED BY <1>8, <1>10, <1>13, <1>14, <1>15, <1>16, <1>17 DEF LimitsInv

\* Request: whoever sends it, along whichever route, with whatever in its header.
LEMMA RequestInv ==
  ASSUME LimitsInv, NEW origin \in Origins, NEW proxies \in Routes, NEW forged \in Forgeries,
         Request(origin, proxies, forged)
  PROVE  LimitsInv'
  <1> DEFINE hops  == <<origin>> \o proxies
             peer  == hops[Len(hops)]
             chain == forged.hops \o SubSeq(hops, 1, Len(hops) - 1)
             payer == IF Dropped(chain, forged.long) THEN peer ELSE origin
             key   == KeyOf(clientAddress(peer, chain, forged.long))
             x     == [n |-> requests + 1, key |-> key, payer |-> NetworkOf[payer], at |-> now]
  <1>1. peer \in Addresses /\ clientAddress(peer, chain, forged.long) = payer
    BY ClientIsSeen
  <1>2. payer \in Addresses /\ NetworkOf[payer] \in Networks
    <2> HIDE DEF payer, chain, peer
    <2>1. payer \in Addresses
      BY <1>1, AddressIsReal
    <2> QED BY <2>1, LimitsAssumption
  <1>3. /\ requests < MaxRequests /\ Allow(key) /\ requests' = requests + 1
        /\ verdict'.ok => /\ admitted' = admitted \cup {x}
                          /\ \E more \in SUBSET (Users \ waiting) : waiting' = waiting \cup more
        /\ ~verdict'.ok => UNCHANGED <<admitted, waiting>>
        /\ UNCHANGED <<now, states, searched>>
    BY DEF Request, Allow
  <1>4. verdict'.ok => waiting' \subseteq Users
    BY <1>3 DEF LimitsInv, LimitsTypeOK
  <1>5. /\ key \in Keys
        /\ key \in DOMAIN entries \/ Cardinality(DOMAIN entries) < MaxEntries
        /\ key \in {NetworkOf[payer], Overflow}
        /\ key = Overflow => NetworkOf[payer] \notin DOMAIN entries
    <2> HIDE DEF peer, chain, payer
    <2> QED BY <1>1, <1>2, RequestKey
  <1>6. x = [n |-> requests + 1, key |-> key, payer |-> NetworkOf[payer], at |-> now]
    OBVIOUS
  <1> HIDE DEF hops, peer, chain, payer, key, x
  <1> QED BY <1>2, <1>3, <1>4, <1>5, <1>6, CountedInv

-----------------------------------------------------------------------------
(* The second limiter.                                                     *)

\* What the invariant says of a user.
LEMMA UserFacts ==
  ASSUME LimitsInv, NEW u \in Users
  PROVE  /\ IsFiniteSet(searched[u])
         /\ \A s \in searched[u] : /\ s \in Passage /\ s.at \in Int /\ s.n \in Int /\ s.at <= now
                                   /\ now - s.at < Window /\ s.n <= requests
         /\ u \in waiting => requests > 0 /\ \A s \in searched[u] : s.n < requests
         /\ u \in DOMAIN states =>
              /\ states[u] = [started |-> states[u].started, requests |-> states[u].requests]
              /\ states[u].started \in 0..now /\ states[u].requests \in 1..SearchLimit
              /\ WindowOK(searched[u], states[u].started, states[u].requests, SearchLimit, now)
         /\ u \notin DOMAIN states =>
              Cardinality(searched[u]) < SearchLimit /\ \A s \in searched[u] : s.at < now
  <1>1. UserOK(u) /\ IsFiniteSet(searched[u]) /\ (u \in waiting => requests > 0)
    BY DEF LimitsInv
  <1>2. /\ searched[u] \subseteq Passage
        /\ u \in DOMAIN states => states[u] \in State
    BY DEF LimitsInv, LimitsTypeOK
  <1>3. now \in Int /\ SearchLimit \in Nat /\ Horizon \in Nat
    BY HistoryFacts, LimitsAssumption
  <1>4. \A s \in searched[u] : s \in Passage /\ s.at \in Int /\ s.n \in Int
    BY <1>2, LimitsAssumption DEF Passage
  <1>5. /\ \A s \in searched[u] : s.at <= now /\ now - s.at < Window /\ s.n <= requests
        /\ u \in waiting => \A s \in searched[u] : s.n < requests
        /\ u \notin DOMAIN states =>
             Cardinality(searched[u]) < SearchLimit /\ \A s \in searched[u] : s.at < now
    BY <1>1 DEF UserOK
  <1>6. u \in DOMAIN states =>
          /\ states[u] = [started |-> states[u].started, requests |-> states[u].requests]
          /\ states[u].started \in Int /\ states[u].requests \in 0..SearchLimit
    BY <1>2, <1>3 DEF State, Times, Zero
  <1>7. u \in DOMAIN states =>
          /\ 0 <= states[u].started /\ states[u].started <= now /\ states[u].requests > 0
          /\ WindowOK(searched[u], states[u].started, states[u].requests, SearchLimit, now)
    BY <1>1 DEF UserOK
  <1>8. u \in DOMAIN states =>
          states[u].started \in 0..now /\ states[u].requests \in 1..SearchLimit
    BY <1>3, <1>6, <1>7
  <1> QED BY <1>1, <1>4, <1>5, <1>6, <1>7, <1>8

\* What is left of a user whose window is over: a new one may begin.
LEMMA UserStartsOver ==
  ASSUME LimitsInv, NEW u \in Users, u \in DOMAIN states => Expired(states[u])
  PROVE  Cardinality(searched[u]) < SearchLimit /\ \A s \in searched[u] : s.at < now
  <1>1. CASE u \notin DOMAIN states
    BY <1>1, UserFacts
  <1>2. CASE u \in DOMAIN states
    <2>1. now \in Int /\ SearchLimit \in Nat
      BY HistoryFacts, LimitsAssumption
    <2>2. /\ IsFiniteSet(searched[u])
          /\ \A s \in searched[u] : s.at \in Int /\ now - s.at < Window
          /\ states[u].started \in Int /\ states[u].requests \in Nat
          /\ states[u].started <= now
          /\ WindowOK(searched[u], states[u].started, states[u].requests, SearchLimit, now)
      <3>1. /\ IsFiniteSet(searched[u])
            /\ \A s \in searched[u] : s.at \in Int /\ now - s.at < Window
            /\ states[u].started \in 0..now /\ states[u].requests \in 1..SearchLimit
            /\ WindowOK(searched[u], states[u].started, states[u].requests, SearchLimit, now)
        BY <1>2, UserFacts
      <3> QED BY <2>1, <3>1
    <2>3. now - states[u].started >= Window
      BY <1>2, <2>1, <2>2 DEF Expired
    <2> QED BY <2>1, <2>2, <2>3, WindowOver
  <1> QED BY <1>1, <1>2

\* A search that passes is counted in the user's window, running or new; one that is
\* refused finds a limit's worth of searches in it.
LEMMA SearchCounted ==
  ASSUME LimitsInv, NEW user \in Users, user \in waiting,
         NEW e, e = [n |-> requests, at |-> now]
  PROVE  /\ Current(user) = [started |-> Current(user).started,
                             requests |-> Current(user).requests]
         /\ Current(user).started \in 0..now /\ now - Current(user).started < Window
         /\ Current(user).requests \in 0..SearchLimit
         /\ Current(user).requests < SearchLimit =>
              WindowOK(searched[user] \cup {e}, Current(user).started,
                       Current(user).requests + 1, SearchLimit, now)
         /\ ~(Current(user).requests < SearchLimit) =>
              Cardinality(searched[user]) >= SearchLimit
  <1> DEFINE S == searched[user]
             cur == Current(user)
  <1>1. /\ now \in 0..Horizon /\ SearchLimit \in Nat \ {0} /\ requests \in Nat
        /\ Window \in Nat \ {0} /\ Horizon \in Nat
    BY HistoryFacts, LimitsAssumption
  <1>2. /\ IsFiniteSet(S)
        /\ \A s \in S : s.at \in Int /\ s.n \in Int /\ s.n < requests
    BY UserFacts
  <1>3. e.at = now /\ e \notin S
    BY <1>1, <1>2
  <1>4. CASE user \in DOMAIN states => Expired(states[user])
    <2>1. cur = [started |-> now, requests |-> 0]
      BY <1>4 DEF Current, NoState
    <2>2. Cardinality(S) < SearchLimit /\ \A s \in S : s.at < now
      BY <1>4, UserStartsOver
    <2>3. WindowOK(S \cup {e}, now, 1, SearchLimit, now)
      <3> HIDE DEF S
      <3>1. now \in Int
        BY <1>1
      <3> QED BY ONLY <1>1, <1>2, <1>3, <2>2, <3>1, WindowOpens
    <2>4. cur.started = now /\ cur.requests = 0
      BY <2>1
    <2> HIDE DEF S, cur
    <2>5. /\ cur = [started |-> cur.started, requests |-> cur.requests]
          /\ cur.started \in 0..now /\ now - cur.started < Window
          /\ cur.requests \in 0..SearchLimit /\ cur.requests < SearchLimit
          /\ cur.requests + 1 = 1
      BY <1>1, <2>1, <2>4
    <2>6. WindowOK(S \cup {e}, cur.started, cur.requests + 1, SearchLimit, now)
      BY <2>3, <2>4, <2>5
    <2> QED BY <2>5, <2>6 DEF S, cur
  <1>5. CASE user \in DOMAIN states /\ ~Expired(states[user])
    <2>1. /\ states[user] = [started |-> states[user].started,
                             requests |-> states[user].requests]
          /\ states[user].started \in 0..now /\ states[user].requests \in 1..SearchLimit
          /\ WindowOK(S, states[user].started, states[user].requests, SearchLimit, now)
      BY <1>5, UserFacts
    <2>2. cur = states[user]
      BY <1>1, <1>5, <2>1 DEF Current, Zero
    <2>3. now - states[user].started < Window
      BY <1>1, <1>5, <2>1 DEF Expired
    <2> HIDE DEF S, cur
    <2>4. /\ cur = [started |-> cur.started, requests |-> cur.requests]
          /\ cur.started \in 0..now /\ cur.requests \in 1..SearchLimit
          /\ WindowOK(S, cur.started, cur.requests, SearchLimit, now)
          /\ now - cur.started < Window
      BY <2>1, <2>2, <2>3
    <2>5. /\ cur.started \in Int /\ cur.requests \in Nat /\ cur.started <= now /\ now \in Int
          /\ SearchLimit \in Nat /\ cur.requests \in 0..SearchLimit
          /\ \A s \in S : s.at \in Int
      BY <1>1, <1>2, <2>4
    <2>6. cur.requests < SearchLimit =>
            WindowOK(S \cup {e}, cur.started, cur.requests + 1, SearchLimit, now)
      BY ONLY <1>2, <1>3, <2>4, <2>5, WindowCounts
    <2>7. ~(cur.requests < SearchLimit) => Cardinality(S) >= SearchLimit
      <3>1. ~(cur.requests < SearchLimit) => cur.requests >= SearchLimit
        BY <2>5
      <3> QED BY ONLY <1>2, <2>4, <2>5, <3>1, WindowTotal
    <2> QED BY <2>4, <2>5, <2>6, <2>7 DEF S, cur
  <1> QED BY <1>4, <1>5

\* What the second limiter does to its table.
LEMMA SearchEffect ==
  ASSUME LimitsInv, NEW user \in Users, SearchAllow(user), Current(user).requests < SearchLimit
  PROVE  /\ DOMAIN states' \subseteq DOMAIN states \cup {user} /\ user \in DOMAIN states'
         /\ states'[user] = [Current(user) EXCEPT !.requests = @ + 1]
         /\ \A u \in DOMAIN states' : u # user => states'[u] = states[u]
         /\ \A u \in DOMAIN states : u \notin DOMAIN states' => u # user /\ Expired(states[u])
         /\ searched' = [searched EXCEPT ![user] = @ \cup {[n |-> requests, at |-> now]}]
         /\ verdict'.ok
  <1> DEFINE new   == [Current(user) EXCEPT !.requests = @ + 1]
             table == [u \in DOMAIN states \cup {user} |-> IF u = user THEN new ELSE states[u]]
             kept  == KeptStates(table)
  <1>1. /\ states' = [u \in kept |-> table[u]]
        /\ searched' = [searched EXCEPT ![user] = @ \cup {[n |-> requests, at |-> now]}]
        /\ verdict' = [by |-> "search", key |-> user, ok |-> Current(user).requests < SearchLimit]
    BY DEF SearchAllow, Restrict
  <1>2. user \in waiting
    BY DEF SearchAllow
  <1>3. ~Expired(new)
    <2>1. now \in Int /\ Window \in Int
      BY HistoryFacts, LimitsAssumption
    <2>2. Current(user).started \in 0..now /\ now - Current(user).started < Window
          /\ Current(user) = [started |-> Current(user).started,
                              requests |-> Current(user).requests]
      BY <1>2, SearchCounted
    <2>3. new.started = Current(user).started
      BY <2>2
    <2> HIDE DEF new
    <2> QED BY <2>1, <2>2, <2>3 DEF Expired
  <1>4. verdict'.ok
    BY <1>1
  <1> HIDE DEF new
  <1>5. DOMAIN table = DOMAIN states \cup {user} /\ table[user] = new
    OBVIOUS
  <1>6. kept \subseteq DOMAIN states \cup {user} /\ user \in kept
    BY <1>3, <1>5 DEF KeptStates
  <1>7. \A u \in DOMAIN states : u \notin kept => u # user /\ Expired(states[u])
    BY <1>6 DEF KeptStates
  <1> HIDE DEF kept
  <1>8. /\ DOMAIN states' = kept
        /\ \A u \in kept : states'[u] = IF u = user THEN new ELSE states[u]
    BY <1>1, <1>6
  <1> QED BY <1>1, <1>4, <1>6, <1>7, <1>8 DEF new

\* SearchAllow: the other users keep what they have; the state of one is dropped only when
\* its window is over.
LEMMA SearchAllowInv ==
  ASSUME LimitsInv, NEW user \in Users, SearchAllow(user)
  PROVE  LimitsInv'
  <1> DEFINE e == [n |-> requests, at |-> now]
  <1> USE LimitsAssumption
  <1>1. /\ now' = now /\ entries' = entries /\ requests' = requests /\ admitted' = admitted
        /\ user \in waiting /\ waiting' = waiting \ {user}
        /\ verdict' = [by |-> "search", key |-> user, ok |-> Current(user).requests < SearchLimit]
        /\ ~(Current(user).requests < SearchLimit) => states' = states /\ searched' = searched
    BY DEF SearchAllow
  <1>2. /\ now \in 0..Horizon /\ requests \in 0..MaxRequests /\ requests > 0
    BY <1>1, HistoryFacts, UserFacts
  <1>3. /\ Current(user) = [started |-> Current(user).started,
                            requests |-> Current(user).requests]
        /\ Current(user).started \in 0..now /\ Current(user).requests \in 0..SearchLimit
        /\ Current(user).requests < SearchLimit =>
             WindowOK(searched[user] \cup {e}, Current(user).started,
                      Current(user).requests + 1, SearchLimit, now)
        /\ ~(Current(user).requests < SearchLimit) =>
             Cardinality(searched[user]) >= SearchLimit
    BY <1>1, SearchCounted
  <1> HIDE DEF e
  <1>4. /\ verdict'.by = "search" /\ verdict'.key = user
        /\ verdict'.ok \in BOOLEAN
        /\ ~verdict'.ok => ~(Current(user).requests < SearchLimit)
    <2> DEFINE ok == Current(user).requests < SearchLimit
    <2>1. ok \in BOOLEAN
      OBVIOUS
    <2>2. verdict' = [by |-> "search", key |-> user, ok |-> ok]
      BY <1>1
    <2>3. verdict'.by = "search" /\ verdict'.key = user /\ verdict'.ok \in BOOLEAN
          /\ (~verdict'.ok => ~ok)
      <3> HIDE DEF ok
      <3> QED BY <2>1, <2>2
    <2> QED BY <2>3
  <1>5. \A k \in Keys : EntryOK(k)'
    BY <1>1 DEF LimitsInv, EntryOK, Through
  <1>6. \A s \in Networks : SourceOK(s)'
    BY <1>1 DEF LimitsInv, SourceOK, Overflowed, Through
  <1>7. /\ IsFiniteSet(admitted') /\ \A a \in admitted' : a.at <= now' /\ a.n <= requests'
        /\ waiting' # {} => requests' > 0
    BY <1>1 DEF LimitsInv
  <1>8. CASE ~(Current(user).requests < SearchLimit)
    <2>1. states' = states /\ searched' = searched
      BY <1>1, <1>8
    <2>2. LimitsTypeOK'
      BY <1>1, <1>4, <2>1 DEF LimitsInv, LimitsTypeOK
    <2>3. \A u \in Users : UserOK(u)' /\ IsFiniteSet(searched'[u])
      BY <1>1, <2>1 DEF LimitsInv, UserOK
    <2>4. RefusalIsJustified'
      BY <1>3, <1>4, <1>8, <2>1 DEF RefusalIsJustified
    <2> QED BY <1>5, <1>6, <1>7, <2>2, <2>3, <2>4 DEF LimitsInv
  <1>9. CASE Current(user).requests < SearchLimit
    <2>1. /\ DOMAIN states' \subseteq DOMAIN states \cup {user} /\ user \in DOMAIN states'
          /\ states'[user] = [Current(user) EXCEPT !.requests = @ + 1]
          /\ \A u \in DOMAIN states' : u # user => states'[u] = states[u]
          /\ \A u \in DOMAIN states : u \notin DOMAIN states' => u # user /\ Expired(states[u])
          /\ searched' = [searched EXCEPT ![user] = @ \cup {e}]
          /\ verdict'.ok
      BY <1>9, SearchEffect DEF e
    <2>2. /\ states'[user].started = Current(user).started
          /\ states'[user].requests = Current(user).requests + 1
          /\ states'[user] \in State
      <3>1. states'[user] = [started |-> Current(user).started,
                             requests |-> Current(user).requests + 1]
        BY <1>3, <2>1
      <3>2. Current(user).started \in Times /\ Current(user).requests + 1 \in 0..SearchLimit
        BY <1>2, <1>3, <1>9 DEF Times, Zero
      <3> QED BY <3>1, <3>2 DEF State
    <2>3. e \in Passage /\ e.at = now /\ e.n = requests
      BY <1>2 DEF e, Passage
    <2>4. /\ searched \in [Users -> SUBSET Passage]
          /\ searched'[user] = searched[user] \cup {e}
          /\ \A u \in Users : u # user => searched'[u] = searched[u]
      BY <2>1 DEF LimitsInv, LimitsTypeOK
    <2>5. LimitsTypeOK'
      <3>1. searched' \in [Users -> SUBSET Passage]
        BY <2>1, <2>3, <2>4
      <3>2. DOMAIN states' \subseteq Users /\ \A u \in DOMAIN states' : states'[u] \in State
        BY <2>1, <2>2 DEF LimitsInv, LimitsTypeOK
      <3> QED BY <1>1, <1>4, <3>1, <3>2 DEF LimitsInv, LimitsTypeOK
    <2>6. \A u \in Users : IsFiniteSet(searched'[u])
      <3>1. \A u \in Users : IsFiniteSet(searched[u])
        BY DEF LimitsInv
      <3>2. IsFiniteSet(searched[user] \cup {e})
        BY <3>1, FS_AddElement
      <3> QED BY <2>4, <3>1, <3>2
    <2>7. UserOK(user)'
      <3>1. \A s \in searched'[user] : now' - s.at < Window /\ s.at <= now' /\ s.n <= requests'
        <4>1. \A s \in searched[user] : now - s.at < Window /\ s.at <= now /\ s.n <= requests
          BY UserFacts
        <4> QED BY <1>1, <1>2, <2>3, <2>4, <4>1
      <3>2. user \notin waiting'
        BY <1>1
      <3>3. WindowOK(searched'[user], states'[user].started, states'[user].requests,
                     SearchLimit, now')
        BY <1>1, <1>3, <1>9, <2>2, <2>4
      <3>4. /\ 0 <= states'[user].started /\ states'[user].started <= now'
            /\ states'[user].requests > 0
        BY <1>1, <1>2, <1>3, <2>2
      <3> QED BY <2>1, <3>1, <3>2, <3>3, <3>4 DEF UserOK
    <2>8. ASSUME NEW u \in Users, u # user PROVE UserOK(u)'
      <3>1. UserOK(u) /\ searched'[u] = searched[u]
        BY <2>4, <2>8 DEF LimitsInv
      <3>2. CASE u \in DOMAIN states'
        <4>1. u \in DOMAIN states /\ states'[u] = states[u]
          BY <2>1, <2>8, <3>2
        <4> QED BY <1>1, <3>1, <3>2, <4>1 DEF UserOK
      <3>3. CASE u \notin DOMAIN states'
        <4>1. Cardinality(searched[u]) < SearchLimit /\ \A s \in searched[u] : s.at < now
          BY <2>1, <3>3, UserStartsOver
        <4> QED BY <1>1, <3>1, <3>3, <4>1 DEF UserOK
      <3> QED BY <3>2, <3>3
    <2>9. RefusalIsJustified'
      BY <2>1 DEF RefusalIsJustified
    <2> QED BY <1>5, <1>6, <1>7, <2>5, <2>6, <2>7, <2>8, <2>9 DEF LimitsInv
  <1> QED BY <1>8, <1>9

-----------------------------------------------------------------------------
(* The beginning, and the clock.                                           *)

LEMMA InitInv == LimitsInit => LimitsInv
  <1> SUFFICES ASSUME LimitsInit PROVE LimitsInv
    OBVIOUS
  <1> USE LimitsAssumption
  <1>1. /\ now = 0 /\ requests = 0 /\ waiting = {} /\ admitted = {} /\ verdict.ok
        /\ verdict.by = "none" /\ verdict.ok \in BOOLEAN
        /\ DOMAIN entries = {Overflow} /\ entries[Overflow] = NoEntry
        /\ DOMAIN states = {} /\ searched = [u \in Users |-> {}]
    BY DEF LimitsInit, NoVerdict
  <1>2. IsFiniteSet({}) /\ Cardinality({}) = 0 /\ Cardinality(DOMAIN entries) = 1
    BY <1>1, FS_EmptySet, FS_Singleton
  <1>3. LimitsTypeOK
    BY <1>1, <1>2 DEF LimitsTypeOK, Keys, Entry, NoEntry, Times, Zero
  <1>4. \A k \in Keys : EntryOK(k)
    BY <1>1 DEF EntryOK, Through, NoEntry, Zero
  <1>5. \A s \in Networks : SourceOK(s)
    BY <1>1 DEF SourceOK, Overflowed
  <1>6. \A u \in Users : UserOK(u)
    BY <1>1, <1>2 DEF UserOK
  <1>7. RefusalIsJustified
    BY <1>1 DEF RefusalIsJustified
  <1> QED BY <1>1, <1>2, <1>3, <1>4, <1>5, <1>6, <1>7 DEF LimitsInv

LEMMA TickInv == ASSUME LimitsInv, Tick PROVE LimitsInv'
  <1> USE LimitsAssumption
  <1>1. /\ now < Horizon /\ now' = now + 1
        /\ admitted' = {a \in admitted : now + 1 - a.at < Window}
        /\ searched' = [u \in Users |-> {s \in searched[u] : now + 1 - s.at < Window}]
        /\ verdict' = [by |-> "none", key |-> Overflow, ok |-> TRUE]
        /\ entries' = entries /\ requests' = requests /\ states' = states /\ waiting' = waiting
    <2>1. /\ now < Horizon /\ now' = now + 1
          /\ verdict' = [by |-> "none", key |-> Overflow, ok |-> TRUE]
          /\ entries' = entries /\ requests' = requests /\ states' = states /\ waiting' = waiting
      BY DEF Tick, NoVerdict
    <2>2. admitted' = {a \in admitted : now + 1 - a.at < Window}
      <3>1. {a \in admitted : now' - a.at < Window} = {a \in admitted : now + 1 - a.at < Window}
        <4>1. now \in Int /\ \A a \in admitted : a.at \in Int
          BY HistoryFacts
        <4> QED BY <2>1, <4>1
      <3> QED BY <3>1 DEF Tick
    <2>3. searched' = [u \in Users |-> {s \in searched[u] : now + 1 - s.at < Window}]
      <3>1. \A u \in Users : {s \in searched[u] : now' - s.at < Window}
                              = {s \in searched[u] : now + 1 - s.at < Window}
        <4>1. now \in Int /\ \A u \in Users : \A s \in searched[u] : s.at \in Int
          <5>1. \A u \in Users : \A s \in searched[u] : s.at \in Int
            BY UserFacts
          <5> QED BY <5>1, HistoryFacts
        <4> QED BY <2>1, <4>1
      <3>2. searched' = [u \in Users |-> {s \in searched[u] : now' - s.at < Window}]
        BY DEF Tick
      <3> QED BY <3>1, <3>2
    <2> QED BY <2>1, <2>2, <2>3
  <1>2. /\ now \in 0..Horizon /\ requests \in 0..MaxRequests
        /\ IsFiniteSet(admitted) /\ admitted' \in SUBSET admitted
        /\ \A a \in admitted : a \in Admission /\ a.at \in Int /\ a.at <= now /\ a.n <= requests
    BY <1>1, HistoryFacts
  <1>3. IsFiniteSet(admitted')
    BY <1>2, FS_Subset
  <1>4. \A u \in Users : searched'[u] \in SUBSET searched[u] /\ IsFiniteSet(searched'[u])
    <2> SUFFICES ASSUME NEW u \in Users
                 PROVE  searched'[u] \in SUBSET searched[u] /\ IsFiniteSet(searched'[u])
      OBVIOUS
    <2>1. searched'[u] \in SUBSET searched[u] /\ IsFiniteSet(searched[u])
      BY <1>1, UserFacts
    <2> QED BY <2>1, FS_Subset
  <1>5. LimitsTypeOK'
    <2>1. searched' \in [Users -> SUBSET Passage]
      BY <1>1 DEF LimitsInv, LimitsTypeOK
    <2>2. \A a \in admitted' : a \in Admission /\ now' - a.at < Window
      BY <1>1, <1>2
    <2>3. now' \in 0..Horizon
      BY <1>1, <1>2
    <2> QED BY <1>1, <2>1, <2>2, <2>3 DEF LimitsInv, LimitsTypeOK
  <1>6. \A k \in Keys : EntryOK(k)'
    <2> SUFFICES ASSUME NEW k \in Keys PROVE EntryOK(k)'
      OBVIOUS
    <2> DEFINE A == Through(k)
    <2>1. Through(k)' = {a \in A : now + 1 - a.at < Window}
      BY <1>1 DEF Through
    <2>2. EntryOK(k)
      BY DEF LimitsInv
    <2>3. CASE k \notin DOMAIN entries
      BY <1>1, <2>1, <2>2, <2>3 DEF EntryOK
    <2>4. CASE k \in DOMAIN entries
      <3>1. /\ entries[k].start \in Int /\ entries[k].seen \in Int /\ entries[k].count \in Nat
            /\ entries[k].start <= entries[k].seen /\ entries[k].seen <= now
            /\ entries[k].count <= requests
            /\ \A a \in A : a.at <= entries[k].seen
            /\ entries[k].start = Zero => A = {} /\ entries[k].count = 0
            /\ entries[k].start # Zero =>
                 entries[k].count > 0 /\ WindowOK(A, entries[k].start, entries[k].count, Limit, now)
        BY <2>2, <2>4, EntryFacts DEF EntryOK
      <3>2. IsFiniteSet(A) /\ (\A a \in A : a.at \in Int) /\ now \in Int /\ Limit \in Nat
        BY <1>2, ThroughFacts
      <3> HIDE DEF A
      <3>3. entries[k].start # Zero =>
              WindowOK({a \in A : now + 1 - a.at < Window}, entries[k].start, entries[k].count,
                       Limit, now + 1)
        BY ONLY <3>1, <3>2, WindowLater
      <3>4. entries[k].start # Zero =>
              WindowOK(Through(k)', entries'[k].start, entries'[k].count, Limit, now')
        BY <1>1, <2>1, <3>3
      <3>5. /\ k \in DOMAIN entries'
            /\ entries'[k].start <= entries'[k].seen /\ entries'[k].seen <= now'
            /\ entries'[k].count <= requests'
            /\ \A a \in Through(k)' : a.at <= entries'[k].seen
            /\ entries'[k].start = Zero => Through(k)' = {} /\ entries'[k].count = 0
            /\ entries'[k].start # Zero => entries'[k].count > 0
        BY <1>1, <2>1, <2>4, <3>1, <3>2
      <3> QED BY <1>1, <3>4, <3>5 DEF EntryOK
    <2> QED BY <2>3, <2>4
  <1>7. \A s \in Networks : SourceOK(s)'
    <2> SUFFICES ASSUME NEW s \in Networks PROVE SourceOK(s)'
      OBVIOUS
    <2>1. SourceOK(s)
      BY DEF LimitsInv
    <2>2. Overflowed(s)' \subseteq Overflowed(s) /\ Through(s)' \subseteq Through(s)
      BY <1>2 DEF Overflowed, Through
    <2> QED BY <1>1, <1>2, <2>1, <2>2 DEF SourceOK
  <1>8. \A u \in Users : UserOK(u)'
    <2> SUFFICES ASSUME NEW u \in Users PROVE UserOK(u)'
      OBVIOUS
    <2> DEFINE S == searched[u]
    <2>1. searched'[u] = {s \in S : now + 1 - s.at < Window}
      BY <1>1
    <2>2. UserOK(u)
      BY DEF LimitsInv
    <2>3. /\ IsFiniteSet(S)
          /\ \A s \in S : s.at \in Int /\ s.at <= now /\ s.n <= requests
      BY UserFacts
    <2>4. /\ \A s \in searched'[u] : now' - s.at < Window /\ s.at <= now' /\ s.n <= requests'
          /\ u \in waiting' => \A s \in searched'[u] : s.n < requests'
      BY <1>1, <1>2, <2>1, <2>2, <2>3 DEF UserOK
    <2>5. CASE u \in DOMAIN states
      <3>1. /\ states[u].started \in 0..now /\ states[u].requests \in 1..SearchLimit
            /\ WindowOK(S, states[u].started, states[u].requests, SearchLimit, now)
        BY <2>5, UserFacts
      <3>2. /\ states[u].started \in Int /\ states[u].requests \in Nat /\ now \in Int
            /\ SearchLimit \in Nat /\ \A s \in S : s.at \in Int
        BY <1>2, <2>3, <3>1
      <3> HIDE DEF S
      <3>3. WindowOK({s \in S : now + 1 - s.at < Window}, states[u].started, states[u].requests,
                     SearchLimit, now + 1)
        BY ONLY <2>3, <3>1, <3>2, WindowLater
      <3>4. WindowOK(searched'[u], states'[u].started, states'[u].requests, SearchLimit, now')
        BY <1>1, <2>1, <3>3
      <3>5. /\ u \in DOMAIN states' /\ 0 <= states'[u].started
            /\ states'[u].started <= now' /\ states'[u].requests > 0
        BY <1>1, <1>2, <2>5, <3>1
      <3> QED BY <2>4, <3>4, <3>5 DEF UserOK
    <2>6. CASE u \notin DOMAIN states
      <3>1. Cardinality(S) < SearchLimit /\ \A s \in S : s.at < now
        BY <2>6, UserFacts
      <3>2. searched'[u] \in SUBSET S
        BY <2>1
      <3>3. /\ Cardinality(searched'[u]) <= Cardinality(S) /\ Cardinality(S) \in Nat
            /\ Cardinality(searched'[u]) \in Nat
        BY <1>4, <2>3, <3>2, FS_Subset, FS_CardinalityType
      <3>4. Cardinality(searched'[u]) < SearchLimit
        BY <3>1, <3>3
      <3>5. \A s \in searched'[u] : s.at < now'
        BY <1>1, <1>2, <2>3, <3>1, <3>2
      <3> QED BY <1>1, <2>4, <2>6, <3>4, <3>5 DEF UserOK
    <2> QED BY <2>5, <2>6
  <1>9. RefusalIsJustified'
    BY <1>1 DEF RefusalIsJustified
  <1>10. /\ \A a \in admitted' : a.at <= now' /\ a.n <= requests'
         /\ waiting' # {} => requests' > 0
    <2>1. waiting # {} => requests > 0
      BY DEF LimitsInv
    <2> QED BY <1>1, <1>2, <2>1
  <1> QED BY <1>3, <1>4, <1>5, <1>6, <1>7, <1>8, <1>9, <1>10 DEF LimitsInv

LEMMA StepInv == LimitsInv /\ [LimitsNext]_limitsVars => LimitsInv'
  <1> SUFFICES ASSUME LimitsInv, [LimitsNext]_limitsVars PROVE LimitsInv'
    OBVIOUS
  <1>1. ASSUME NEW o \in Origins, NEW p \in Routes, NEW f \in Forgeries, Request(o, p, f)
        PROVE  LimitsInv'
    BY <1>1, RequestInv
  <1>2. ASSUME NEW u \in Users, SearchAllow(u) PROVE LimitsInv'
    BY <1>2, SearchAllowInv
  <1>3. CASE UNCHANGED limitsVars
    BY <1>3 DEF limitsVars, LimitsInv, LimitsTypeOK, EntryOK, SourceOK, UserOK, RefusalIsJustified,
                Through, Overflowed
  <1>4. CASE Quiescent
    BY <1>3, <1>4 DEF Quiescent
  <1> QED BY <1>1, <1>2, <1>3, <1>4, TickInv DEF LimitsNext

\* The invariant that carries the others: what each bucket let through fits its window.
THEOREM LimitsInvariance == LimitsSpec => []LimitsInv
  BY InitInv, StepInv, PTL DEF LimitsSpec

\* LimitsTypeOK holds; in particular the table of networks never outgrows its bound.
THEOREM LimitsTypeCorrect == LimitsSpec => []LimitsTypeOK
  <1>1. LimitsInv => LimitsTypeOK
    BY DEF LimitsInv
  <1> QED BY <1>1, LimitsInvariance, PTL

\* Fewer than three limits' worth of requests get through on a network's account in any
\* minute (SourceIsLimited), whatever clients write into the header, however long it is, and
\* whenever an entry is evicted, made anew, or replaced by the overflow bucket.
THEOREM SourcesAreLimited == LimitsSpec => []SourceIsLimited
  <1>1. ASSUME LimitsInv, NEW s \in Networks
        PROVE  Cardinality({a \in admitted : a.payer = s}) < 3 * Limit
    <2> DEFINE All == {a \in admitted : a.payer = s}
               Far == Overflowed(s)
               Near == {a \in All : a.key = s}
    <2>1. SourceOK(s) /\ s \in Keys /\ Overflow \in Keys /\ Overflow \in DOMAIN entries
      BY <1>1 DEF LimitsInv, LimitsTypeOK, Keys
    <2>2. /\ All \in SUBSET (Near \cup Far) /\ Near \in SUBSET Through(s)
          /\ Far \in SUBSET Through(Overflow)
      BY <2>1 DEF SourceOK, Overflowed, Through
    <2>3. Limit \in Nat \ {0} /\ now \in Int
      BY <1>1, HistoryFacts, LimitsAssumption
    <2>4. \A k \in Keys : IsFiniteSet(Through(k)) /\ Cardinality(Through(k)) < 2 * Limit
      <3> SUFFICES ASSUME NEW k \in Keys
                   PROVE  IsFiniteSet(Through(k)) /\ Cardinality(Through(k)) < 2 * Limit
        OBVIOUS
      <3>1. IsFiniteSet(Through(k)) /\ \A a \in Through(k) : a.at \in Int
        BY <1>1, ThroughFacts
      <3>2. CASE Through(k) = {}
        BY <2>3, <3>1, <3>2, FS_EmptySet
      <3>3. CASE Through(k) # {}
        <4>1. EntryOK(k)
          BY <1>1 DEF LimitsInv
        <4>2. k \in DOMAIN entries /\ entries[k].start # Zero
          BY <3>3, <4>1 DEF EntryOK
        <4>3. /\ WindowOK(Through(k), entries[k].start, entries[k].count, Limit, now)
              /\ entries[k].start \in Int /\ entries[k].count \in Nat /\ Limit \in Nat
          BY <1>1, <2>3, <4>2, EntryFacts
        <4> QED BY ONLY <2>3, <3>1, <4>3, WindowTotal
      <3> QED BY <3>2, <3>3
    <2> HIDE DEF All, Far, Near
    <2>5. /\ IsFiniteSet(Near) /\ Cardinality(Near) <= Cardinality(Through(s))
          /\ IsFiniteSet(Far) /\ Cardinality(Far) <= Cardinality(Through(Overflow))
      BY <2>1, <2>2, <2>4, FS_Subset
    <2>6. /\ Cardinality(Near) \in Nat /\ Cardinality(Far) \in Nat
          /\ Cardinality(Through(s)) \in Nat /\ Cardinality(Through(Overflow)) \in Nat
          /\ Cardinality(Near \cap Far) \in Nat
      <3>1. IsFiniteSet(Near \cap Far)
        BY <2>5, FS_Intersection
      <3> QED BY <2>1, <2>4, <2>5, <3>1, FS_CardinalityType
    <2>7. Cardinality(All) <= Cardinality(Near) + Cardinality(Far) /\ Cardinality(All) \in Nat
      <3>1. /\ IsFiniteSet(Near \cup Far)
            /\ Cardinality(Near \cup Far)
                 = Cardinality(Near) + Cardinality(Far) - Cardinality(Near \cap Far)
        BY <2>5, FS_Union
      <3>2. /\ IsFiniteSet(All) /\ Cardinality(All) <= Cardinality(Near \cup Far)
            /\ Cardinality(Near \cup Far) \in Nat
        BY <2>2, <3>1, FS_Subset, FS_CardinalityType
      <3>3. Cardinality(All) \in Nat
        BY <3>2, FS_CardinalityType
      <3> QED BY <2>6, <3>1, <3>2, <3>3
    <2>8. CASE Far = {} \/ s \notin DOMAIN entries
      <3>1. Cardinality(Near) = 0 \/ Cardinality(Far) = 0
        <4>1. CASE Far = {}
          BY <4>1, FS_EmptySet
        <4>2. CASE s \notin DOMAIN entries
          <5>1. EntryOK(s)
            BY <1>1, <2>1 DEF LimitsInv
          <5>2. Near = {}
            BY <2>2, <4>2, <5>1 DEF EntryOK
          <5> QED BY <5>2, FS_EmptySet
        <4> QED BY <2>8, <4>1, <4>2
      <3>2. Cardinality(Near) < 2 * Limit /\ Cardinality(Far) < 2 * Limit
        BY <2>1, <2>3, <2>4, <2>5, <2>6
      <3>3. Cardinality(All) < 3 * Limit
        BY <2>3, <2>6, <2>7, <3>1, <3>2
      <3> QED BY <3>3 DEF All
    <2>9. CASE Far # {} /\ s \in DOMAIN entries
      <3>1. \A a \in Through(s) : a.at >= entries[s].start
        BY <2>1, <2>9 DEF SourceOK, Far
      <3>2. Cardinality(Near) <= Limit
        <4>1. IsFiniteSet(Through(s)) /\ \A a \in Through(s) : a.at \in Int
          BY <1>1, ThroughFacts
        <4>2. CASE entries[s].start = Zero
          <5>1. Near = {}
            BY <1>1, <2>2, <2>9, <4>2, EntryFacts
          <5> QED BY <2>3, <5>1, FS_EmptySet
        <4>3. CASE entries[s].start # Zero
          <5>1. /\ WindowOK(Through(s), entries[s].start, entries[s].count, Limit, now)
                /\ entries[s].start \in Int /\ entries[s].count \in Nat /\ Limit \in Nat
            BY <1>1, <2>3, <2>9, <4>3, EntryFacts
          <5>2. Cardinality(Own(Through(s), entries[s].start)) <= Limit
            BY ONLY <2>3, <4>1, <5>1, WindowTotal
          <5>3. Own(Through(s), entries[s].start) = Through(s)
            BY <3>1 DEF Own
          <5> QED BY <2>3, <2>5, <2>6, <5>2, <5>3
        <4> QED BY <4>2, <4>3
      <3>3. Cardinality(Far) < 2 * Limit
        BY <2>1, <2>3, <2>4, <2>5, <2>6
      <3>4. Cardinality(All) < 3 * Limit
        BY <2>3, <2>6, <2>7, <3>2, <3>3
      <3> QED BY <3>4 DEF All
    <2> QED BY <2>8, <2>9
  <1>2. LimitsInv => SourceIsLimited
    BY <1>1 DEF SourceIsLimited
  <1> QED BY <1>2, LimitsInvariance, PTL

\* The searches of a user in any minute stay below two limits (UserIsLimited), however
\* many others search and are pruned.
THEOREM UsersAreLimited == LimitsSpec => []UserIsLimited
  <1>1. ASSUME LimitsInv, NEW u \in Users PROVE Cardinality(searched[u]) < 2 * SearchLimit
    <2>1. /\ IsFiniteSet(searched[u]) /\ \A s \in searched[u] : s.at \in Int
      BY <1>1, UserFacts
    <2>2. now \in Int /\ SearchLimit \in Nat /\ SearchLimit > 0
      BY <1>1, HistoryFacts, LimitsAssumption
    <2>3. CASE u \in DOMAIN states
      <3>1. /\ states[u].started \in 0..now /\ states[u].requests \in 1..SearchLimit
            /\ WindowOK(searched[u], states[u].started, states[u].requests, SearchLimit, now)
        BY <1>1, <2>3, UserFacts
      <3>2. states[u].started \in Int /\ states[u].requests \in Nat
        BY <3>1
      <3> QED BY ONLY <2>1, <2>2, <3>1, <3>2, WindowTotal
    <2>4. CASE u \notin DOMAIN states
      <3>1. Cardinality(searched[u]) < SearchLimit /\ Cardinality(searched[u]) \in Nat
        BY <1>1, <2>1, <2>4, UserFacts, FS_CardinalityType
      <3> QED BY <2>2, <3>1
    <2> QED BY <2>3, <2>4
  <1>2. LimitsInv => UserIsLimited
    BY <1>1 DEF UserIsLimited
  <1> QED BY <1>2, LimitsInvariance, PTL

\* Whoever is refused has used up the bucket within the last minute (RefusalIsJustified):
\* a request in vain does not prolong the wait.
THEOREM RefusalsAreJustified == LimitsSpec => []RefusalIsJustified
  <1>1. LimitsInv => RefusalIsJustified
    BY DEF LimitsInv
  <1> QED BY <1>1, LimitsInvariance, PTL
=============================================================================
