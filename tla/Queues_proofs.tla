----------------------------- MODULE Queues_proofs -----------------------------
(***************************************************************************)
(* Proofs about PageQueue, for every set of producers, every number of     *)
(* calls and of pages, and about SimpleQueue, for every set of producers,  *)
(* every capacity and every number of calls.                               *)
(***************************************************************************)
EXTENDS SimpleQueue, PageQueue, FiniteSetTheorems, FunctionTheorems, SequenceTheorems, WellFoundedInduction, TLAPS

\* The smallest number of a set: what stands for an induction.
LEMMA SmallestOf ==
    ASSUME NEW T, T \subseteq Nat, T # {}
    PROVE  \E x \in T : \A y \in T : x <= y
<1> DEFINE below == {ss \in Nat \X Nat : ss[1] < ss[2]}
<1>1. IsWellFoundedOn(below, Nat)
  BY NatLessThanWellFounded, Zenon DEF OpToRel
<1>2. PICK x \in T : \A y \in T : ~ (<<y, x>> \in below)
  <2> HIDE DEF below
  <2> QED
    BY <1>1, WFMin
<1>3. \A y \in T : ~ (y < x)
  BY <1>2
<1> QED
  BY <1>3

-----------------------------------------------------------------------------
(* PageQueue: pages and the list of them.                                  *)

PageItem == [number : Nat, after : Nat]
Storages == UNION {[0 .. n - 1 -> PageItem \cup {NoPage}] : n \in Nat}
Headers ==
    [previous : 0 .. MaxPages, readi : Nat, readendi : Nat, writei : Nat,
     capacity : Nat, storage : Storages]

\* A page of the list or a new one: the indices are inside the storage, and of two ways around
\* the ring from readi to readendi and to writei the second is the longer.
Lap(a, b, n) == IF a <= b THEN b - a ELSE n - a + b

SoundPage(P) ==
    /\ P \in Headers /\ P.capacity > 0 /\ P.storage \in [0 .. P.capacity - 1 -> PageItem \cup {NoPage}]
    /\ P.readi < P.capacity /\ P.readendi < P.capacity /\ P.writei < P.capacity
    /\ Lap(P.readi, P.readendi, P.capacity) <= Lap(P.readi, P.writei, P.capacity)

\* c lists the n pages, from the oldest to the one that write_header points to.
Listing(n, c) ==
    /\ n \in Nat /\ c \in [1 .. n -> Pages]
    /\ page \in [0 .. MaxPages -> Headers \cup {NoPage}] /\ page[Empty] = Header(Empty, 0)
    /\ write_header = IF n = 0 THEN Empty ELSE c[n]
    /\ \A i, j \in 1 .. n : c[i] = c[j] => i = j
    /\ \A i \in 1 .. n : SoundPage(page[c[i]]) /\ page[c[i]].previous = IF i = 1 THEN Empty ELSE c[i - 1]

\* There are no more than there are addresses.
LEMMA ListingLength ==
    ASSUME NEW n \in Nat, NEW c \in [1 .. n -> Pages], \A i, j \in 1 .. n : c[i] = c[j] => i = j
    PROVE  n <= MaxPages
<1>1. IsFiniteSet(1 .. n) /\ Cardinality(1 .. n) = n /\ IsFiniteSet(Pages) /\ Cardinality(Pages) = MaxPages
  BY FS_Interval, PageQueueAssumption DEF PageQueueAssumption, Pages
<1>2. c \in Injection(1 .. n, Pages)
  BY DEF Injection, IsInjective
<1> QED
  BY <1>1, <1>2, FS_Injection

\* Back follows the list, and is Empty behind it.
LEMMA BackIs ==
    ASSUME NEW n, NEW c, Listing(n, c)
    PROVE  \A k \in 0 .. MaxPages : Back[k] = IF k < n THEN c[n - k] ELSE Empty
<1> DEFINE g == [k \in 0 .. MaxPages |-> IF k < n THEN c[n - k] ELSE Empty]
           Follows(f) == f = [k \in 0 .. MaxPages |-> IF k = 0 THEN write_header ELSE page[f[k - 1]].previous]
<1>1. n <= MaxPages /\ n \in Nat /\ MaxPages \in Nat
  BY ListingLength, PageQueueAssumption DEF Listing, PageQueueAssumption
<1>2. page[Empty].previous = Empty
  BY DEF Listing, Header
<1>3. ASSUME NEW k \in 0 .. MaxPages PROVE g[k] = IF k = 0 THEN write_header ELSE page[g[k - 1]].previous
  <2>1. CASE k = 0
    BY <2>1, <1>1 DEF Listing
  <2>2. CASE k # 0 /\ k - 1 < n
    <3>1. g[k - 1] = c[n - k + 1] /\ n - k + 1 \in 1 .. n
      BY <2>2, <1>1
    <3>2. page[c[n - k + 1]].previous = IF n - k + 1 = 1 THEN Empty ELSE c[n - k + 1 - 1]
      BY <3>1 DEF Listing
    <3> QED
      BY <3>1, <3>2, <2>2, <1>1
  <2>3. CASE k # 0 /\ ~ (k - 1 < n)
    BY <2>3, <1>2, <1>1
  <2> QED
    BY <2>1, <2>2, <2>3
<1>4. Follows(g)
  BY <1>3
<1>5. Follows(Back)
  <2> HIDE DEF g
  <2>1. Back = CHOOSE f : Follows(f)
    BY Zenon DEF Back
  <2> HIDE DEF Follows
  <2> QED
    BY <1>4, <2>1
<1> DEFINE T == {k \in 0 .. MaxPages : Back[k] # g[k]}
<1>6. SUFFICES ASSUME T # {} PROVE FALSE
  BY DEF g
<1>7. PICK k \in T : \A l \in T : k <= l
  <2>1. T \subseteq Nat
    BY <1>1
  <2> HIDE DEF T
  <2> QED
    BY <2>1, <1>6, SmallestOf
<1>8. CASE k = 0
  BY <1>8, <1>3, <1>5, <1>7
<1>9. CASE k # 0
  <2> HIDE DEF g, Follows
  <2>1. k - 1 \in 0 .. MaxPages /\ Back[k - 1] = g[k - 1]
    BY <1>9, <1>7, <1>1
  <2>2. Back[k] = page[Back[k - 1]].previous
    BY <1>9, <1>7, <1>5, Zenon DEF Follows
  <2>3. g[k] = page[g[k - 1]].previous
    BY <1>9, <1>7, <1>3
  <2> QED
    BY <2>1, <2>2, <2>3, <1>7
<1> QED
  BY <1>8, <1>9


\* So the oldest page is the first of the list.
LEMMA OldestIs ==
    ASSUME NEW n, NEW c, Listing(n, c)
    PROVE  /\ Oldest = (IF n = 0 THEN 0 ELSE n - 1)
           /\ Back[Oldest] = (IF n = 0 THEN Empty ELSE c[1])
           /\ n > 1 => Back[Oldest - 1] = c[2]
           /\ Linked = {c[i] : i \in 1 .. n}
<1> DEFINE last == IF n = 0 THEN 0 ELSE n - 1
           Ends(k) == page[Back[k]].previous = Empty /\ \A j \in 0 .. k - 1 : page[Back[j]].previous # Empty
<1>1. n <= MaxPages /\ n \in Nat /\ MaxPages \in Nat
  BY ListingLength, PageQueueAssumption DEF Listing, PageQueueAssumption
<1>2. \A k \in 0 .. MaxPages : Back[k] = IF k < n THEN c[n - k] ELSE Empty
  BY BackIs
<1>3. page[Empty].previous = Empty /\ Empty \notin Pages
  BY DEF Listing, Header, Empty, Pages
<1>4. last \in 0 .. MaxPages /\ Back[last] = IF n = 0 THEN Empty ELSE c[1]
  BY <1>1, <1>2
<1>5. page[Back[last]].previous = Empty
  BY <1>1, <1>3, <1>4 DEF Listing
<1>6. ASSUME NEW j \in 0 .. MaxPages, j < last PROVE page[Back[j]].previous # Empty
  <2>1. Back[j] = c[n - j] /\ n - j \in 1 .. n /\ n - j # 1 /\ n - j - 1 \in 1 .. n
    BY <1>1, <1>2, <1>6
  <2>2. page[c[n - j]].previous = c[n - j - 1]
    BY <2>1 DEF Listing
  <2> QED
    BY <2>1, <2>2, <1>3 DEF Listing
<1>7. Oldest = last
  <2> HIDE DEF last
  <2>1. Ends(last)
    BY <1>1, <1>4, <1>5, <1>6
  <2>2. ASSUME NEW k \in 0 .. MaxPages, Ends(k) PROVE k = last
    <3>1. ~ (k < last)
      BY <1>6, <2>2
    <3>2. ~ (last < k)
      BY <1>1, <1>4, <1>5, <2>2
    <3> QED
      BY <3>1, <3>2, <1>1, <1>4
  <2>3. Oldest = CHOOSE k \in 0 .. MaxPages : Ends(k)
    BY DEF Oldest
  <2> HIDE DEF Ends
  <2> QED
    BY <2>1, <2>2, <2>3, <1>4
<1>8. n > 1 => Back[Oldest - 1] = c[2]
  BY <1>1, <1>2, <1>7
<1>9. ASSUME NEW i \in 1 .. n PROVE c[i] \in Linked
  <2>1. n - i \in 0 .. Oldest /\ Back[n - i] = c[i]
    BY <1>1, <1>2, <1>7
  <2>2. c[i] # Empty
    BY <1>3 DEF Listing
  <2> QED
    BY <2>1, <2>2 DEF Linked
<1>10. ASSUME NEW h \in Linked PROVE h \in {c[i] : i \in 1 .. n}
  <2>1. PICK k \in 0 .. Oldest : h = Back[k]
    BY DEF Linked
  <2>2. h # Empty
    BY DEF Linked
  <2>3. k < n /\ h = c[n - k] /\ n - k \in 1 .. n
    BY <1>1, <1>2, <1>7, <2>1, <2>2
  <2> QED
    BY <2>3
<1> QED
  BY <1>4, <1>7, <1>8, <1>9, <1>10

\* Laps: a step of the far index makes one longer, unless the indices meet; a step of the
\* near one shorter, unless they had met.
LEMMA LapMore ==
    ASSUME NEW n \in Nat, NEW a \in 0 .. n - 1, NEW b \in 0 .. n - 1
    PROVE  /\ Lap(a, b, n) \in 0 .. n - 1 /\ (Lap(a, b, n) = 0 <=> a = b)
           /\ page_wrap_reset(b + 1, n) \in 0 .. n - 1
           /\ page_wrap_reset(b + 1, n) # a => Lap(a, page_wrap_reset(b + 1, n), n) = Lap(a, b, n) + 1
           /\ page_wrap_reset(b + 1, n) = a => Lap(a, b, n) = n - 1
           /\ a # b => Lap(page_wrap_reset(a + 1, n), b, n) = Lap(a, b, n) - 1
  BY DEF Lap, page_wrap_reset

\* A lap is a number less than the capacity.
LEMMA LapType ==
    ASSUME NEW n \in Nat, NEW a \in 0 .. n - 1
    PROVE  \A b \in 0 .. n - 1 :
             /\ Lap(a, b, n) \in Nat /\ (Lap(a, b, n) = 0 <=> a = b)
             /\ a # b => Lap(page_wrap_reset(a + 1, n), b, n) = Lap(a, b, n) - 1
  BY DEF Lap, page_wrap_reset

\* And tell indices apart.
LEMMA LapApart ==
    ASSUME NEW n \in Nat, NEW a \in 0 .. n - 1
    PROVE  \A b, d \in 0 .. n - 1 : Lap(a, b, n) = Lap(a, d, n) => b = d
  BY DEF Lap

-----------------------------------------------------------------------------
(* PageQueue: the invariant of pages, as long as no producer is held up.   *)

Claimed(p) == pagePc[p] \in {"construct", "checkin"}
Inside(p) == pagePc[p] \notin {"idle", "cas_header"}

PagesTyped ==
    /\ pagePc \in [PageProducers -> {"idle", "load_writei", "load_readi", "cas_writei", "allocate", "cas_header",
                                     "construct", "checkin"}]
    /\ header \in [PageProducers -> 0 .. MaxPages \cup {NoPage}]
    /\ fresh \in [PageProducers -> Pages \cup {NoPage}]
    /\ pageSlot \in [PageProducers -> Nat] /\ pageNext \in [PageProducers -> Nat]
    /\ pageItem \in [PageProducers -> PageItem \cup {NoPage}]
    /\ pageRpc \in {"idle", "oldest", "free", "check", "move", "store"}
    /\ pageIssued \in Nat /\ pagePushed \in Seq(PageItem) /\ alive \in BOOLEAN

\* A page that is not in the list is the one that a producer allocated.
FreshPage(p, n, c) ==
    IF pagePc[p] = "cas_header"
    THEN /\ fresh[p] \in Pages /\ SoundPage(page[fresh[p]]) /\ page[fresh[p]].previous = header[p]
         /\ page[fresh[p]].readi = 0 /\ page[fresh[p]].readendi = 0 /\ page[fresh[p]].writei = 0
         /\ \A i \in 1 .. n : c[i] # fresh[p]
         /\ \A q \in PageProducers \ {p} : fresh[q] # fresh[p]
    ELSE fresh[p] = NoPage

PagesFresh(n, c) ==
    /\ \A p \in PageProducers : FreshPage(p, n, c)
    /\ \A h \in Pages : page[h] # NoPage => (\E i \in 1 .. n : c[i] = h) \/ (\E p \in PageProducers : fresh[p] = h)

\* A producer is inside a page of the list, and its slot in the storage.
InPage(p, n, c) ==
    /\ Inside(p) => header[p] = Empty \/ \E i \in 1 .. n : header[p] = c[i]
    /\ IF pagePc[p] = "idle" THEN header[p] = NoPage ELSE pageItem[p] \in PageItem
    /\ pagePc[p] = "load_readi" /\ header[p] # Empty => pageSlot[p] < page[header[p]].capacity
    /\ pagePc[p] \in {"cas_writei", "construct", "checkin"} =>
         /\ header[p] # Empty /\ pageSlot[p] < page[header[p]].capacity
         /\ pageNext[p] = page_wrap_reset(pageSlot[p] + 1, page[header[p]].capacity)

\* The slots that are claimed are between readendi and writei, and different ones.
Between(Q, s) ==
    /\ Lap(Q.readi, Q.readendi, Q.capacity) <= Lap(Q.readi, s, Q.capacity)
    /\ Lap(Q.readi, s, Q.capacity) < Lap(Q.readi, Q.writei, Q.capacity)

PagesClaimed ==
    /\ \A p \in PageProducers : Claimed(p) => Between(page[header[p]], pageSlot[p])
    /\ \A p, q \in PageProducers :
         Claimed(p) /\ Claimed(q) /\ header[p] = header[q] /\ pageSlot[p] = pageSlot[q] => p = q

\* The consumer is at the oldest page, and a page it frees has nothing in it.
PagesConsumer(n, c) ==
    /\ pageRpc \in {"oldest", "free"} => n > 1 /\ read_header = c[1] /\ next_header = c[2]
    /\ pageRpc = "check" => read_header = Empty \/ (n > 0 /\ read_header = c[1])
    /\ pageRpc \in {"move", "store"} => n > 0 /\ read_header = c[1] /\ page[c[1]].readi # page[c[1]].readendi
    /\ pageRpc = "free" => page[c[1]].readi = page[c[1]].writei

PagesEnded(n) == ~alive => n = 0 /\ pageRpc = "idle" /\ \A p \in PageProducers : pagePc[p] = "idle"

PagesAt(n, c) ==
    /\ Listing(n, c) /\ PagesTyped /\ PagesFresh(n, c) /\ \A p \in PageProducers : InPage(p, n, c)
    /\ PagesClaimed /\ PagesConsumer(n, c) /\ PagesEnded(n) /\ NoStalePage /\ NoStalePageClaim

\* A producer that is not in a page and a new one are told apart by where they are.
LEMMA PcApart ==
    ASSUME NEW p, pagePc[p] \in {"idle", "load_writei", "load_readi", "cas_writei", "allocate", "cas_header",
                                 "construct", "checkin"}
    PROVE  /\ Claimed(p) => Inside(p)
           /\ Inside(p) <=> pagePc[p] # "idle" /\ pagePc[p] # "cas_header"
           /\ Searching(p) <=> Inside(p) /\ ~Claimed(p)
  BY DEF Claimed, Inside, Searching

\* Steps of one producer that change nothing but its locals.
LEMMA PageLocalStep ==
    ASSUME NEW n, NEW c, PagesAt(n, c), PagesTyped', NoStalePage', NoStalePageClaim',
           NEW p \in PageProducers, alive, ~Claimed(p), ~Claimed(p)', pagePc[p] # "cas_header", pagePc'[p] # "cas_header",
           InPage(p, n, c)',
           \A q \in PageProducers \ {p} :
               /\ pagePc'[q] = pagePc[q] /\ header'[q] = header[q] /\ pageSlot'[q] = pageSlot[q]
               /\ pageNext'[q] = pageNext[q] /\ pageItem'[q] = pageItem[q],
           UNCHANGED <<page, write_header, fresh, consumerVars, alive>>
    PROVE  PagesAt(n, c)'
<1>1. Listing(n, c)'
  BY DEF PagesAt, Listing
<1>2. PagesFresh(n, c)'
  <2>1. ASSUME NEW q \in PageProducers PROVE FreshPage(q, n, c)'
    BY DEF PagesAt, PagesFresh, FreshPage
  <2> QED
    BY <2>1 DEF PagesAt, PagesFresh
<1>3. ASSUME NEW q \in PageProducers PROVE InPage(q, n, c)'
  <2>1. CASE q = p
    BY <2>1
  <2>2. CASE q # p
    BY <2>2 DEF PagesAt, InPage, Inside
  <2> QED
    BY <2>1, <2>2
<1>4. PagesClaimed'
  <2>1. \A q \in PageProducers : Claimed(q)' => q # p /\ Claimed(q)
    BY DEF Claimed
  <2> QED
    BY <2>1 DEF PagesAt, PagesClaimed
<1>5. PagesConsumer(n, c)' /\ PagesEnded(n)'
  BY DEF PagesAt, PagesConsumer, PagesEnded, consumerVars
<1> QED
  BY <1>1, <1>2, <1>3, <1>4, <1>5 DEF PagesAt

\* Where a step of the consumer leaves the pages alone.
LEMMA ConsumerStep ==
    ASSUME NEW n, NEW c, PagesAt(n, c), NoStalePage', NoStalePageClaim', PagesConsumer(n, c)', alive,
           pageRpc' \in {"idle", "oldest", "free", "check", "move", "store"},
           UNCHANGED <<page, write_header, pageProducerVars, pageIssued, pagePushed, alive>>
    PROVE  PagesAt(n, c)'
<1> USE DEF pageProducerVars
<1>1. Listing(n, c)' /\ PagesTyped'
  BY DEF PagesAt, Listing, PagesTyped
<1>2. PagesFresh(n, c)'
  <2>1. ASSUME NEW q \in PageProducers PROVE FreshPage(q, n, c)'
    BY DEF PagesAt, PagesFresh, FreshPage
  <2> QED
    BY <2>1 DEF PagesAt, PagesFresh
<1>3. ASSUME NEW q \in PageProducers PROVE InPage(q, n, c)'
  BY DEF PagesAt, InPage, Inside
<1>4. PagesClaimed'
  BY DEF PagesAt, PagesClaimed, Claimed
<1>5. PagesEnded(n)'
  BY DEF PagesEnded
<1> QED
  BY <1>1, <1>2, <1>3, <1>4, <1>5 DEF PagesAt

\* The page that a producer is in, unless that is Empty, is one of the list.
LEMMA PageOf ==
    ASSUME NEW n, NEW c, Listing(n, c), NEW p, InPage(p, n, c), Inside(p), header[p] # Empty
    PROVE  /\ header[p] \in Pages /\ SoundPage(page[header[p]])
           /\ page[header[p]].capacity \in Nat /\ page[header[p]].readi \in 0 .. page[header[p]].capacity - 1
           /\ page[header[p]].readendi \in 0 .. page[header[p]].capacity - 1
           /\ page[header[p]].writei \in 0 .. page[header[p]].capacity - 1
           /\ \E i \in 1 .. n : header[p] = c[i]
<1>1. PICK i \in 1 .. n : header[p] = c[i]
  BY DEF InPage
<1>2. header[p] \in Pages /\ SoundPage(page[header[p]])
  BY <1>1 DEF Listing
<1> QED
  BY <1>1, <1>2 DEF SoundPage, Headers

\* try_emplace is called.
LEMMA LoadHeaderKeeps ==
    ASSUME NEW n, NEW c, PagesAt(n, c), NoStalePage', NoStalePageClaim', NEW p \in PageProducers, LoadHeader(p)
    PROVE  PagesAt(n, c)'
<1> USE DEF LoadHeader
<1>1. PagesTyped'
  <2>1. pageItem'[p] \in PageItem
    BY DEF PagesAt, PagesTyped, PageItem
  <2>2. write_header \in 0 .. MaxPages
    BY PageQueueAssumption DEF PagesAt, Listing, Pages, Empty, PageQueueAssumption
  <2>3. pageItem' \in [PageProducers -> PageItem \cup {NoPage}]
    BY <2>1 DEF PagesAt, PagesTyped
  <2> QED
    BY <2>2, <2>3 DEF PagesAt, PagesTyped, consumerVars
<1>2. InPage(p, n, c)'
  <2>1. pagePc'[p] = "load_writei" /\ header'[p] = write_header /\ pageItem'[p] \in PageItem
    BY DEF PagesAt, PagesTyped, PageItem
  <2>2. write_header = Empty \/ \E i \in 1 .. n : write_header = c[i]
    BY DEF PagesAt, Listing
  <2> QED
    BY <2>1, <2>2 DEF InPage, Inside
<1>3. ~Claimed(p) /\ ~Claimed(p)' /\ pagePc[p] # "cas_header" /\ pagePc'[p] # "cas_header"
  BY DEF Claimed, PagesAt, PagesTyped
<1> QED
  BY <1>1, <1>2, <1>3, PageLocalStep DEF PagesAt, PagesTyped

\* checkout_write_slot loads writei_, and readi_, or its compare-exchange fails.
LEMMA SearchKeeps ==
    ASSUME NEW n, NEW c, PagesAt(n, c), NoStalePage', NoStalePageClaim', NEW p \in PageProducers,
           PageLoadWritei(p) \/ PageLoadReadi(p) \/ PageCasWriteiFails(p)
    PROVE  PagesAt(n, c)'
<1> DEFINE P == page[header[p]]
<1>1. /\ pagePc[p] \in {"load_writei", "load_readi", "cas_writei"} /\ pagePc'[p] \in {"load_readi", "cas_writei", "allocate"}
      /\ header' = header /\ pageItem' = pageItem /\ UNCHANGED <<page, write_header, fresh, consumerVars, pageIssued, pagePushed, alive>>
      /\ \A q \in PageProducers \ {p} : pagePc'[q] = pagePc[q] /\ pageSlot'[q] = pageSlot[q] /\ pageNext'[q] = pageNext[q]
  BY DEF PageLoadWritei, PageLoadReadi, PageCasWriteiFails, PagesAt, PagesTyped
<1>2. Inside(p) /\ InPage(p, n, c) /\ alive
  BY <1>1 DEF Inside, PagesAt, PagesEnded
<1>3. header[p] # Empty => P.capacity \in Nat /\ P.readi \in 0 .. P.capacity - 1 /\ P.writei \in 0 .. P.capacity - 1
  BY <1>2, PageOf DEF PagesAt
<1>4. header[p] = Empty => P.capacity = 0 /\ P.readi = 0 /\ P.writei = 0
  BY DEF PagesAt, Listing, Header
<1>5. pageSlot[p] \in Nat /\ header[p] \in 0 .. MaxPages
  <2>1. header[p] = Empty \/ header[p] \in Pages
    BY <1>2, PageOf DEF PagesAt
  <2> QED
    BY <2>1, PageQueueAssumption DEF PagesAt, PagesTyped, Pages, Empty, PageQueueAssumption
<1>6. PagesTyped' /\ InPage(p, n, c)'
  <2>1. CASE PageLoadWritei(p)
    <3>1. pageSlot'[p] = P.writei /\ pagePc'[p] = "load_readi" /\ pageNext' = pageNext /\ P.writei \in Nat
      BY <2>1, <1>3, <1>4 DEF PageLoadWritei, PagesAt, PagesTyped
    <3>2. PagesTyped'
      BY <2>1, <3>1, <1>1 DEF PageLoadWritei, PagesAt, PagesTyped, consumerVars
    <3> QED
      BY <3>1, <3>2, <1>1, <1>2, <1>3 DEF InPage, Inside
  <2>2. CASE PageCasWriteiFails(p)
    <3>1. pageSlot'[p] = P.writei /\ pagePc'[p] = "load_readi" /\ pageNext' = pageNext /\ P.writei \in Nat
      BY <2>2, <1>3, <1>4 DEF PageCasWriteiFails, PagesAt, PagesTyped
    <3>2. PagesTyped'
      BY <2>2, <3>1, <1>1 DEF PageCasWriteiFails, PagesAt, PagesTyped, consumerVars
    <3> QED
      BY <3>1, <3>2, <1>1, <1>2, <1>3 DEF InPage, Inside
  <2>3. CASE PageLoadReadi(p)
    <3> DEFINE following == page_wrap_reset(pageSlot[p] + 1, P.capacity)
    <3>1. /\ pagePc[p] = "load_readi" /\ pageNext' = [pageNext EXCEPT ![p] = following] /\ pageSlot' = pageSlot
          /\ pagePc' = [pagePc EXCEPT ![p] = IF P.readi = following THEN "allocate" ELSE "cas_writei"]
      BY <2>3 DEF PageLoadReadi, PagesAt, PagesTyped
    <3>2. following \in Nat /\ (header[p] = Empty => following = 0)
      BY <1>4, <1>5 DEF page_wrap_reset
    <3> HIDE DEF following
    <3>3. PagesTyped'
      BY <3>1, <3>2, <1>1 DEF PagesAt, PagesTyped, consumerVars
    <3>4. pagePc'[p] = "cas_writei" => header[p] # Empty /\ pageSlot[p] < P.capacity /\ pageNext'[p] = following
      BY <3>1, <3>2, <1>2, <1>4 DEF InPage, PagesAt, PagesTyped
    <3>5. InPage(p, n, c)'
      BY <3>1, <3>4, <1>1, <1>2 DEF InPage, Inside, PagesAt, PagesTyped, following
    <3> QED
      BY <3>3, <3>5
  <2> QED
    BY <2>1, <2>2, <2>3
<1>7. ~Claimed(p) /\ ~Claimed(p)' /\ pagePc[p] # "cas_header" /\ pagePc'[p] # "cas_header"
  BY <1>1 DEF Claimed
<1> QED
  BY <1>1, <1>2, <1>6, <1>7, PageLocalStep

\* The allocator returns no page.
LEMMA AllocateFailsKeeps ==
    ASSUME NEW n, NEW c, PagesAt(n, c), NoStalePage', NoStalePageClaim', NEW p \in PageProducers, AllocateFails(p)
    PROVE  PagesAt(n, c)'
<1> USE DEF AllocateFails, Returns
<1>1. PagesTyped'
  BY DEF PagesAt, PagesTyped, consumerVars
<1>2. pagePc'[p] = "idle" /\ header'[p] = NoPage
  BY DEF PagesAt, PagesTyped
<1>3. InPage(p, n, c)'
  BY <1>2 DEF InPage, Inside
<1>4. ~Claimed(p) /\ ~Claimed(p)' /\ pagePc[p] # "cas_header" /\ pagePc'[p] # "cas_header" /\ alive
  BY <1>2 DEF Claimed, PagesAt, PagesEnded
<1> QED
  BY <1>1, <1>3, <1>4, PageLocalStep DEF PagesAt, PagesTyped

\* A step that changes fields of one page of the list, other than previous_ and capacity_.
LEMMA FieldStep ==
    ASSUME NEW n, NEW c, PagesAt(n, c), NEW i \in 1 .. n, NEW P, page' = [page EXCEPT ![c[i]] = P],
           SoundPage(P), P.previous = page[c[i]].previous, P.capacity = page[c[i]].capacity,
           \A q \in PageProducers : pagePc'[q] = "cas_header" <=> pagePc[q] = "cas_header",
           \A q \in PageProducers : pagePc[q] = "cas_header" => header'[q] = header[q],
           UNCHANGED <<write_header, fresh>>
    PROVE  /\ Listing(n, c)' /\ PagesFresh(n, c)'
           /\ page'[c[i]] = P /\ \A g \in 0 .. MaxPages : g # c[i] => page'[g] = page[g]
<1>1. c[i] \in Pages /\ c[i] \in 0 .. MaxPages /\ c[i] # Empty /\ P \in Headers
  BY PageQueueAssumption DEF PagesAt, Listing, Pages, Empty, SoundPage, PageQueueAssumption
<1>2. page'[c[i]] = P /\ \A g \in 0 .. MaxPages : g # c[i] => page'[g] = page[g]
  BY <1>1 DEF PagesAt, Listing
<1>3. Listing(n, c)'
  <2>1. page' \in [0 .. MaxPages -> Headers \cup {NoPage}] /\ page'[Empty] = Header(Empty, 0)
    BY <1>1, <1>2, PageQueueAssumption DEF PagesAt, Listing, Empty, PageQueueAssumption
  <2>2. ASSUME NEW j \in 1 .. n
        PROVE  SoundPage(page'[c[j]]) /\ page'[c[j]].previous = IF j = 1 THEN Empty ELSE c[j - 1]
    <3>1. c[j] \in 0 .. MaxPages
      BY DEF PagesAt, Listing, Pages
    <3>2. SoundPage(page[c[j]]) /\ page[c[j]].previous = IF j = 1 THEN Empty ELSE c[j - 1]
      BY DEF PagesAt, Listing
    <3>3. SoundPage(page'[c[j]]) /\ page'[c[j]].previous = page[c[j]].previous
      BY <3>1, <3>2, <1>2
    <3> QED
      BY <3>2, <3>3
  <2>3. write_header' = IF n = 0 THEN Empty ELSE c[n]
    BY DEF PagesAt, Listing
  <2> QED
    BY <2>1, <2>2, <2>3 DEF PagesAt, Listing
<1>4. PagesFresh(n, c)'
  <2>1. ASSUME NEW q \in PageProducers PROVE FreshPage(q, n, c)'
    <3>1. CASE pagePc[q] = "cas_header"
      <4>1. FreshPage(q, n, c) /\ fresh[q] \in Pages /\ fresh[q] # c[i]
        BY <3>1 DEF PagesAt, PagesFresh, FreshPage
      <4>2. page'[fresh[q]] = page[fresh[q]]
        BY <4>1, <1>2 DEF Pages
      <4>3. header'[q] = header[q] /\ pagePc'[q] = "cas_header" /\ fresh' = fresh
        BY <3>1
      <4> QED
        BY <4>1, <4>2, <4>3, <3>1 DEF FreshPage
    <3>2. CASE pagePc[q] # "cas_header"
      BY <3>2 DEF PagesAt, PagesFresh, FreshPage
    <3> QED
      BY <3>1, <3>2
  <2>2. ASSUME NEW h \in Pages, page'[h] # NoPage
        PROVE  (\E j \in 1 .. n : c[j] = h) \/ (\E p \in PageProducers : fresh'[p] = h)
    <3>1. CASE h = c[i]
      BY <3>1
    <3>2. CASE h # c[i]
      <4>1. page[h] # NoPage
        BY <3>2, <2>2, <1>2 DEF Pages
      <4> QED
        BY <4>1 DEF PagesAt, PagesFresh
    <3> QED
      BY <3>1, <3>2
  <2> QED
    BY <2>1, <2>2 DEF PagesFresh
<1> QED
  BY <1>2, <1>3, <1>4

\* It leaves the producers where they are that it does not move.
LEMMA InPageKept ==
    ASSUME NEW n, NEW c, PagesAt(n, c), NEW i \in 1 .. n, page'[c[i]].capacity = page[c[i]].capacity,
           \A g \in 0 .. MaxPages : g # c[i] => page'[g] = page[g],
           NEW q \in PageProducers, pagePc'[q] = pagePc[q], header'[q] = header[q], pageSlot'[q] = pageSlot[q],
           pageNext'[q] = pageNext[q], pageItem'[q] = pageItem[q]
    PROVE  InPage(q, n, c)'
<1>1. InPage(q, n, c)
  BY DEF PagesAt
<1>2. Inside(q)' <=> Inside(q)
  BY DEF Inside
<1>3. Inside(q) => page'[header[q]].capacity = page[header[q]].capacity
  <2>1. SUFFICES ASSUME Inside(q) PROVE page'[header[q]].capacity = page[header[q]].capacity
    OBVIOUS
  <2>2. header[q] = Empty \/ header[q] \in Pages
    BY <1>1, <2>1, PageOf DEF PagesAt
  <2>3. header[q] \in 0 .. MaxPages
    BY <2>2, PageQueueAssumption DEF Pages, Empty, PageQueueAssumption
  <2> QED
    BY <2>3
<1>4. pagePc[q] \in {"load_readi", "cas_writei", "construct", "checkin"} => Inside(q)
  BY DEF Inside
<1> QED
  BY <1>1, <1>2, <1>3, <1>4 DEF InPage

\* What SoundPage says of a page of the list.
LEMMA PageParts ==
    ASSUME NEW P, SoundPage(P)
    PROVE  /\ P \in Headers /\ P.capacity \in Nat /\ P.readi \in 0 .. P.capacity - 1
           /\ P.readendi \in 0 .. P.capacity - 1 /\ P.writei \in 0 .. P.capacity - 1
           /\ Lap(P.readi, P.readendi, P.capacity) \in 0 .. P.capacity - 1
           /\ Lap(P.readi, P.writei, P.capacity) \in 0 .. P.capacity - 1
           /\ Lap(P.readi, P.readendi, P.capacity) <= Lap(P.readi, P.writei, P.capacity)
<1>1. /\ P \in Headers /\ P.capacity \in Nat /\ P.readi \in 0 .. P.capacity - 1
      /\ P.readendi \in 0 .. P.capacity - 1 /\ P.writei \in 0 .. P.capacity - 1
  BY DEF SoundPage, Headers
<1> QED
  BY <1>1, LapMore DEF SoundPage

\* A slot more is claimed.
LEMMA RingClaims ==
    ASSUME NEW Q, SoundPage(Q), NEW v, v = page_wrap_reset(Q.writei + 1, Q.capacity), v # Q.readi,
           NEW P, P = [Q EXCEPT !.writei = v]
    PROVE  /\ SoundPage(P) /\ P.previous = Q.previous /\ P.capacity = Q.capacity /\ P.readi = Q.readi
           /\ P.readendi = Q.readendi /\ P.writei = v /\ P.storage = Q.storage
           /\ Between(P, Q.writei)
           /\ \A s \in 0 .. Q.capacity - 1 : Between(Q, s) => Between(P, s) /\ s # Q.writei
<1>1. /\ Q \in Headers /\ Q.capacity \in Nat /\ Q.readi \in 0 .. Q.capacity - 1 /\ Q.writei \in 0 .. Q.capacity - 1
      /\ Q.readendi \in 0 .. Q.capacity - 1
      /\ Lap(Q.readi, Q.readendi, Q.capacity) <= Lap(Q.readi, Q.writei, Q.capacity)
      /\ Lap(Q.readi, Q.readendi, Q.capacity) \in Nat /\ Lap(Q.readi, Q.writei, Q.capacity) \in Nat
  BY PageParts
<1>2. v \in 0 .. Q.capacity - 1 /\ Lap(Q.readi, v, Q.capacity) = Lap(Q.readi, Q.writei, Q.capacity) + 1
  BY <1>1, LapMore
<1>3. /\ P.previous = Q.previous /\ P.capacity = Q.capacity /\ P.readi = Q.readi
      /\ P.readendi = Q.readendi /\ P.writei = v /\ P.storage = Q.storage /\ P \in Headers
  BY <1>1, <1>2 DEF Headers
<1>4. SoundPage(P) /\ Between(P, Q.writei)
  BY <1>1, <1>2, <1>3 DEF SoundPage, Between
<1>5. ASSUME NEW s \in 0 .. Q.capacity - 1, Between(Q, s) PROVE Between(P, s) /\ s # Q.writei
  <2>1. Lap(Q.readi, s, Q.capacity) \in Nat
    BY <1>1, LapType
  <2> QED
    BY <2>1, <1>1, <1>2, <1>3, <1>5 DEF Between
<1> QED
  BY <1>3, <1>4, <1>5

\* The first of the slots that are claimed is published.
LEMMA RingPublishes ==
    ASSUME NEW Q, SoundPage(Q), Between(Q, Q.readendi), NEW v, v = page_wrap_reset(Q.readendi + 1, Q.capacity),
           NEW P, P = [Q EXCEPT !.readendi = v]
    PROVE  /\ SoundPage(P) /\ P.previous = Q.previous /\ P.capacity = Q.capacity /\ P.readi = Q.readi
           /\ P.readendi = v /\ P.writei = Q.writei /\ P.storage = Q.storage
           /\ Lap(Q.readi, v, Q.capacity) = Lap(Q.readi, Q.readendi, Q.capacity) + 1 /\ v # Q.readi
           /\ \A s \in 0 .. Q.capacity - 1 : Between(Q, s) /\ s # Q.readendi => Between(P, s)
<1>1. /\ Q \in Headers /\ Q.capacity \in Nat /\ Q.readi \in 0 .. Q.capacity - 1 /\ Q.writei \in 0 .. Q.capacity - 1
      /\ Q.readendi \in 0 .. Q.capacity - 1
      /\ Lap(Q.readi, Q.readendi, Q.capacity) < Lap(Q.readi, Q.writei, Q.capacity)
      /\ Lap(Q.readi, Q.readendi, Q.capacity) \in Nat /\ Lap(Q.readi, Q.writei, Q.capacity) \in 0 .. Q.capacity - 1
  BY PageParts DEF Between
<1>2. v # Q.readi
  BY <1>1, LapMore
<1>3. v \in 0 .. Q.capacity - 1 /\ Lap(Q.readi, v, Q.capacity) = Lap(Q.readi, Q.readendi, Q.capacity) + 1
  BY <1>1, <1>2, LapMore
<1>4. /\ P.previous = Q.previous /\ P.capacity = Q.capacity /\ P.readi = Q.readi
      /\ P.readendi = v /\ P.writei = Q.writei /\ P.storage = Q.storage /\ P \in Headers
  BY <1>1, <1>3 DEF Headers
<1>5. SoundPage(P)
  BY <1>1, <1>3, <1>4 DEF SoundPage
<1>6. ASSUME NEW s \in 0 .. Q.capacity - 1, Between(Q, s), s # Q.readendi PROVE Between(P, s)
  <2>1. Lap(Q.readi, s, Q.capacity) \in Nat /\ Lap(Q.readi, s, Q.capacity) # Lap(Q.readi, Q.readendi, Q.capacity)
    BY <1>1, <1>6, LapType, LapApart
  <2> QED
    BY <2>1, <1>1, <1>3, <1>4, <1>6 DEF Between
<1> QED
  BY <1>2, <1>3, <1>4, <1>5, <1>6

\* The oldest of the items that are published is popped.
LEMMA RingPops ==
    ASSUME NEW Q, SoundPage(Q), Q.readi # Q.readendi, NEW v, v = page_wrap_reset(Q.readi + 1, Q.capacity),
           NEW P, P = [Q EXCEPT !.readi = v]
    PROVE  /\ SoundPage(P) /\ P.previous = Q.previous /\ P.capacity = Q.capacity /\ P.readi = v
           /\ P.readendi = Q.readendi /\ P.writei = Q.writei /\ P.storage = Q.storage
           /\ Lap(v, Q.readendi, Q.capacity) = Lap(Q.readi, Q.readendi, Q.capacity) - 1
           /\ \A s \in 0 .. Q.capacity - 1 : Between(Q, s) => Between(P, s)
<1>1. /\ Q \in Headers /\ Q.capacity \in Nat /\ Q.readi \in 0 .. Q.capacity - 1 /\ Q.writei \in 0 .. Q.capacity - 1
      /\ Q.readendi \in 0 .. Q.capacity - 1
      /\ Lap(Q.readi, Q.readendi, Q.capacity) <= Lap(Q.readi, Q.writei, Q.capacity)
      /\ Lap(Q.readi, Q.readendi, Q.capacity) \in Nat /\ Lap(Q.readi, Q.writei, Q.capacity) \in Nat
      /\ Lap(Q.readi, Q.readendi, Q.capacity) # 0
  BY PageParts, LapMore
<1>2. Q.readi # Q.writei
  BY <1>1, LapMore
<1>3. /\ v \in 0 .. Q.capacity - 1
      /\ Lap(v, Q.readendi, Q.capacity) = Lap(Q.readi, Q.readendi, Q.capacity) - 1
      /\ Lap(v, Q.writei, Q.capacity) = Lap(Q.readi, Q.writei, Q.capacity) - 1
  BY <1>1, <1>2, LapMore
<1>4. /\ P.previous = Q.previous /\ P.capacity = Q.capacity /\ P.readi = v
      /\ P.readendi = Q.readendi /\ P.writei = Q.writei /\ P.storage = Q.storage /\ P \in Headers
  BY <1>1, <1>3 DEF Headers
<1>5. SoundPage(P)
  BY <1>1, <1>3, <1>4 DEF SoundPage
<1>6. ASSUME NEW s \in 0 .. Q.capacity - 1, Between(Q, s) PROVE Between(P, s)
  <2>1. Lap(Q.readi, s, Q.capacity) \in Nat
    BY <1>1, LapType
  <2>2. Q.readi # s
    BY <2>1, <1>1, <1>6, LapType DEF Between
  <2>3. Lap(v, s, Q.capacity) = Lap(Q.readi, s, Q.capacity) - 1
    BY <2>2, <1>1, LapType
  <2> QED
    BY <2>1, <2>3, <1>1, <1>3, <1>4, <1>6 DEF Between
<1> QED
  BY <1>3, <1>4, <1>5, <1>6

\* A slot of the storage is written to.
LEMMA StorageWritten ==
    ASSUME NEW Q, SoundPage(Q), NEW s \in 0 .. Q.capacity - 1, NEW x \in PageItem \cup {NoPage},
           NEW P, P = [Q EXCEPT !.storage[s] = x]
    PROVE  /\ SoundPage(P) /\ P.previous = Q.previous /\ P.capacity = Q.capacity /\ P.readi = Q.readi
           /\ P.readendi = Q.readendi /\ P.writei = Q.writei /\ P.storage[s] = x
           /\ \A r \in 0 .. Q.capacity - 1 : r # s => P.storage[r] = Q.storage[r]
           /\ \A r \in 0 .. Q.capacity - 1 : Between(Q, r) => Between(P, r)
<1>1. Q \in Headers /\ Q.capacity \in Nat /\ Q.storage \in [0 .. Q.capacity - 1 -> PageItem \cup {NoPage}]
  BY PageParts DEF SoundPage
<1> DEFINE t == [Q.storage EXCEPT ![s] = x]
<1>2. t \in [0 .. Q.capacity - 1 -> PageItem \cup {NoPage}] /\ t[s] = x /\ \A r \in 0 .. Q.capacity - 1 : r # s => t[r] = Q.storage[r]
  BY <1>1
<1>3. t \in Storages
  BY <1>1, <1>2 DEF Storages
<1>4. P = [Q EXCEPT !.storage = t]
  OBVIOUS
<1> HIDE DEF t
<1>5. /\ P.previous = Q.previous /\ P.capacity = Q.capacity /\ P.readi = Q.readi
      /\ P.readendi = Q.readendi /\ P.writei = Q.writei /\ P.storage = t /\ P \in Headers
  BY <1>1, <1>3, <1>4 DEF Headers
<1> QED
  BY <1>2, <1>5 DEF SoundPage, Between

\* Producers other than p stay where they are, and keep what they claimed in the page that becomes P.
OthersKept(p, h, P) ==
    \A q \in PageProducers \ {p} :
        /\ pagePc'[q] = pagePc[q] /\ header'[q] = header[q] /\ pageSlot'[q] = pageSlot[q]
        /\ pageNext'[q] = pageNext[q] /\ pageItem'[q] = pageItem[q]
        /\ Claimed(q) /\ header[q] = h => Between(P, pageSlot[q])

\* p, if it is a producer, has a claim of its own there if any.
MoverKept(p, n, c, h, P) ==
    p \in PageProducers =>
        /\ pagePc[p] # "cas_header" /\ pagePc'[p] # "cas_header" /\ InPage(p, n, c)'
        /\ Claimed(p)' =>
             /\ header'[p] = h /\ Between(P, pageSlot'[p])
             /\ \A r \in PageProducers \ {p} : Claimed(r) /\ header[r] = h => pageSlot[r] # pageSlot'[p]

\* A step that changes such fields and moves no producer but p, if that is one.
LEMMA PageStep ==
    ASSUME NEW n, NEW c, PagesAt(n, c), NEW i \in 1 .. n, NEW P, page' = [page EXCEPT ![c[i]] = P],
           SoundPage(P), P.previous = page[c[i]].previous, P.capacity = page[c[i]].capacity,
           NEW p, OthersKept(p, c[i], P), MoverKept(p, n, c, c[i], P), UNCHANGED <<write_header, fresh>>
    PROVE  /\ Listing(n, c)' /\ PagesFresh(n, c)' /\ PagesClaimed' /\ \A q \in PageProducers : InPage(q, n, c)'
           /\ page'[c[i]] = P /\ \A g \in 0 .. MaxPages : g # c[i] => page'[g] = page[g]
<1> USE DEF OthersKept, MoverKept
<1>1. /\ Listing(n, c)' /\ PagesFresh(n, c)'
      /\ page'[c[i]] = P /\ \A g \in 0 .. MaxPages : g # c[i] => page'[g] = page[g]
  <2>1. \A q \in PageProducers : pagePc'[q] = "cas_header" <=> pagePc[q] = "cas_header"
    OBVIOUS
  <2>2. \A q \in PageProducers : pagePc[q] = "cas_header" => header'[q] = header[q]
    OBVIOUS
  <2>3. write_header' = write_header /\ fresh' = fresh
    OBVIOUS
  <2> QED
    BY ONLY <2>1, <2>2, <2>3, FieldStep, PagesAt(n, c), i \in 1 .. n, page' = [page EXCEPT ![c[i]] = P],
           SoundPage(P), P.previous = page[c[i]].previous, P.capacity = page[c[i]].capacity
<1>2. ASSUME NEW q \in PageProducers PROVE InPage(q, n, c)'
  <2>1. CASE q = p
    BY <2>1
  <2>2. CASE q # p
    BY <2>2, <1>1, InPageKept
  <2> QED
    BY <2>1, <2>2
<1>3. ASSUME NEW q \in PageProducers, q # p, Claimed(q)'
      PROVE  Claimed(q) /\ Between(page'[header'[q]], pageSlot'[q])
  <2>1. Claimed(q) /\ header'[q] = header[q] /\ pageSlot'[q] = pageSlot[q] /\ Between(page[header[q]], pageSlot[q])
    BY <1>3 DEF Claimed, PagesAt, PagesClaimed
  <2>2. CASE header[q] = c[i]
    BY <1>1, <1>3, <2>1, <2>2
  <2>3. CASE header[q] # c[i]
    <3>1. Inside(q) /\ InPage(q, n, c) /\ header[q] # Empty
      BY <2>1 DEF PagesAt, InPage, Claimed, Inside
    <3>2. header[q] \in 0 .. MaxPages
      BY <3>1, PageOf DEF PagesAt, Pages
    <3> QED
      BY <1>1, <2>1, <2>3, <3>2
  <2> QED
    BY <2>2, <2>3
<1>4. ASSUME NEW q \in PageProducers, NEW r \in PageProducers, Claimed(q)', Claimed(r)', header'[q] = header'[r],
             pageSlot'[q] = pageSlot'[r]
      PROVE  q = r
  <2>1. CASE q = p /\ r = p
    BY <2>1
  <2>2. CASE q # p /\ r # p
    BY <2>2, <1>3, <1>4 DEF PagesAt, PagesClaimed
  <2>3. CASE q = p /\ r # p
    BY <2>3, <1>3, <1>4
  <2>4. CASE q # p /\ r = p
    BY <2>4, <1>3, <1>4
  <2> QED
    BY <2>1, <2>2, <2>3, <2>4
<1>5. PagesClaimed'
  <2>1. ASSUME NEW q \in PageProducers, Claimed(q)' PROVE Between(page'[header'[q]], pageSlot'[q])
    BY <1>1, <1>3, <2>1
  <2> QED
    BY <2>1, <1>4 DEF PagesClaimed
<1> QED
  BY <1>1, <1>2, <1>5

\* The consumer sees of it the readi_ and readendi_, and of a page that it frees the writei_.
LEMMA ConsumerKept ==
    ASSUME NEW n, NEW c, PagesAt(n, c), NEW i \in 1 .. n, NEW P, page'[c[i]] = P,
           P.readi = page[c[i]].readi, P.readendi = page[c[i]].readendi \/ P.readendi # P.readi,
           P.writei = page[c[i]].writei \/ pageRpc # "free" \/ i # 1,
           \A g \in 0 .. MaxPages : g # c[i] => page'[g] = page[g], UNCHANGED consumerVars
    PROVE  PagesConsumer(n, c)'
<1>1. n \in Nat /\ (n > 0 => c[1] \in 0 .. MaxPages)
  BY DEF PagesAt, Listing, Pages
<1>2. CASE i = 1
  BY <1>1, <1>2 DEF PagesAt, PagesConsumer, consumerVars
<1>3. CASE i # 1
  <2>1. n > 0 /\ c[i] # c[1]
    BY <1>3 DEF PagesAt, Listing
  <2>2. page'[c[1]] = page[c[1]]
    BY <2>1, <1>1
  <2> QED
    BY <2>2 DEF PagesAt, PagesConsumer, consumerVars
<1> QED
  BY <1>2, <1>3

\* A slot is claimed: writei_ moves past it, but not as far as readi_.
LEMMA PageCasWriteiKeeps ==
    ASSUME NEW n, NEW c, PagesAt(n, c), NoStalePage', NoStalePageClaim', NEW p \in PageProducers, PageCasWritei(p)
    PROVE  PagesAt(n, c)'
<1> DEFINE h == header[p]
           Q == page[h]
<1>1. /\ pagePc[p] = "cas_writei" /\ Q.writei = pageSlot[p] /\ Inside(p) /\ Searching(p) /\ ~Claimed(p) /\ alive
      /\ pagePc' = [pagePc EXCEPT ![p] = "construct"]
      /\ UNCHANGED <<write_header, header, fresh, pageSlot, pageNext, pageItem, pageRpc, read_header, next_header,
                     pageIssued, pagePushed, pagePopped, alive>>
  BY DEF PageCasWritei, Inside, Searching, Claimed, PagesAt, PagesEnded, consumerVars
<1>2. /\ InPage(p, n, c) /\ h # Empty /\ pageSlot[p] < Q.capacity
      /\ pageNext[p] = page_wrap_reset(Q.writei + 1, Q.capacity)
  BY <1>1 DEF PagesAt, InPage
<1>3. PICK i \in 1 .. n : h = c[i]
  BY <1>1, <1>2, PageOf DEF PagesAt
<1>4. SoundPage(Q) /\ pageNext[p] # Q.readi
  BY <1>1, <1>3 DEF PagesAt, Listing, NoStalePageClaim
<1>5. PICK P : P = [Q EXCEPT !.writei = pageNext[p]]
  OBVIOUS
<1>6. page' = [page EXCEPT ![c[i]] = P]
  BY <1>3, <1>5 DEF PageCasWritei
<1>7. /\ SoundPage(P) /\ P.previous = Q.previous /\ P.capacity = Q.capacity /\ P.readi = Q.readi
      /\ P.readendi = Q.readendi /\ P.writei = pageNext[p] /\ Between(P, Q.writei)
      /\ \A s \in 0 .. Q.capacity - 1 : Between(Q, s) => Between(P, s) /\ s # Q.writei
  <2> HIDE DEF Q
  <2> QED
    BY <1>2, <1>4, <1>5, RingClaims
<1>8. ASSUME NEW q \in PageProducers, q # p, Claimed(q), header[q] = c[i]
      PROVE  Between(P, pageSlot[q]) /\ pageSlot[q] # Q.writei
  <2>1. Between(Q, pageSlot[q]) /\ pageSlot[q] \in 0 .. Q.capacity - 1
    BY <1>3, <1>4, <1>8, PageParts DEF PagesAt, PagesClaimed, PagesTyped, InPage, Claimed
  <2> QED
    BY <2>1, <1>7
<1>9. InPage(p, n, c)'
  <2>1. page'[header'[p]] = P /\ pagePc'[p] = "construct"
    <3>1. c[i] \in DOMAIN page
      BY DEF PagesAt, Listing, Pages
    <3> QED
      BY <3>1, <1>1, <1>3, <1>6 DEF PagesAt, PagesTyped
  <2> QED
    BY <2>1, <1>1, <1>2, <1>3, <1>7 DEF InPage, Inside
<1>10. \A q \in PageProducers \ {p} : pagePc'[q] = pagePc[q]
  BY <1>1 DEF PagesAt, PagesTyped
<1>11. pagePc'[p] = "construct"
  BY <1>1 DEF PagesAt, PagesTyped
<1>12. /\ Listing(n, c)' /\ PagesFresh(n, c)' /\ PagesClaimed' /\ \A q \in PageProducers : InPage(q, n, c)'
       /\ page'[c[i]] = P /\ \A g \in 0 .. MaxPages : g # c[i] => page'[g] = page[g]
  <2>1. OthersKept(p, c[i], P)
    BY <1>1, <1>8, <1>10 DEF OthersKept
  <2>2. MoverKept(p, n, c, c[i], P)
    BY <1>1, <1>3, <1>7, <1>8, <1>9, <1>11 DEF MoverKept
  <2>3. P.previous = page[c[i]].previous /\ P.capacity = page[c[i]].capacity /\ SoundPage(P)
    BY <1>3, <1>7
  <2> QED
    BY <1>1, <1>6, <2>1, <2>2, <2>3, PageStep
<1>13. PagesTyped'
  BY <1>1 DEF PagesAt, PagesTyped
<1>14. PagesConsumer(n, c)'
  <2>1. pageRpc = "free" => i # 1
    BY <1>1, <1>3 DEF PagesAt, PagesConsumer, NoStalePage
  <2> QED
    BY <2>1, <1>1, <1>3, <1>7, <1>12, ConsumerKept DEF consumerVars
<1>15. PagesEnded(n)'
  BY <1>1 DEF PagesEnded
<1> QED
  BY <1>12, <1>13, <1>14, <1>15 DEF PagesAt

-----------------------------------------------------------------------------
(* PageQueue: steps that change the list.                                  *)

\* Where the pages of the list are left alone.
LEMMA ListKept ==
    ASSUME NEW n, NEW c, Listing(n, c), page' \in [0 .. MaxPages -> Headers \cup {NoPage}],
           page'[Empty] = page[Empty], \A i \in 1 .. n : page'[c[i]] = page[c[i]]
    PROVE  /\ write_header' = write_header => Listing(n, c)'
           /\ \A q : InPage(q, n, c) /\ Inside(q) => page'[header[q]] = page[header[q]]
<1>1. ASSUME write_header' = write_header PROVE Listing(n, c)'
  <2>1. \A i \in 1 .. n : SoundPage(page'[c[i]]) /\ page'[c[i]].previous = IF i = 1 THEN Empty ELSE c[i - 1]
    BY DEF Listing
  <2> QED
    BY <1>1, <2>1 DEF Listing
<1>2. ASSUME NEW q, InPage(q, n, c), Inside(q) PROVE page'[header[q]] = page[header[q]]
  <2>1. header[q] = Empty \/ \E i \in 1 .. n : header[q] = c[i]
    BY <1>2 DEF InPage
  <2> QED
    BY <2>1
<1> QED
  BY <1>1, <1>2

\* And no producer is moved but p, which claims nothing.
LEMMA ClaimsKept ==
    ASSUME NEW n, NEW c, PagesAt(n, c), \A q : InPage(q, n, c) /\ Inside(q) => page'[header[q]] = page[header[q]],
           NEW p, ~Claimed(p)', UNCHANGED pageSlot,
           \A q \in PageProducers \ {p} : pagePc'[q] = pagePc[q] /\ header'[q] = header[q]
    PROVE  PagesClaimed'
<1>1. ASSUME NEW q \in PageProducers, Claimed(q)' PROVE q # p /\ Claimed(q) /\ header'[q] = header[q]
  BY <1>1 DEF Claimed
<1>2. ASSUME NEW q \in PageProducers, Claimed(q)' PROVE Between(page'[header'[q]], pageSlot'[q])
  <2>1. Claimed(q) /\ header'[q] = header[q]
    BY <1>1, <1>2
  <2>2. Inside(q) /\ InPage(q, n, c) /\ Between(page[header[q]], pageSlot[q])
    BY <2>1 DEF Claimed, Inside, PagesAt, PagesClaimed
  <2> QED
    BY <2>1, <2>2
<1>3. \A q, r \in PageProducers :
        Claimed(q)' /\ Claimed(r)' /\ header'[q] = header'[r] /\ pageSlot'[q] = pageSlot'[r] => q = r
  BY <1>1 DEF PagesAt, PagesClaimed
<1> QED
  BY <1>2, <1>3 DEF PagesClaimed

\* A page that is allocated is not NoPage.
LEMMA PagesLive ==
    ASSUME NoPage \notin Headers, NEW n, NEW c, PagesAt(n, c)
    PROVE  /\ NoPage \notin Pages /\ Empty \notin Pages /\ Empty \in 0 .. MaxPages /\ Pages \subseteq 0 .. MaxPages
           /\ \A i \in 1 .. n : c[i] \in Live
           /\ \A q \in PageProducers : pagePc[q] = "cas_header" => fresh[q] \in Live
<1>1. NoPage \notin Pages /\ Empty \notin Pages /\ Empty \in 0 .. MaxPages /\ Pages \subseteq 0 .. MaxPages
  BY PageQueueAssumption DEF PageQueueAssumption, Pages, Empty
<1>2. ASSUME NEW i \in 1 .. n PROVE c[i] \in Live
  BY DEF PagesAt, Listing, Live, SoundPage
<1>3. ASSUME NEW q \in PageProducers, pagePc[q] = "cas_header" PROVE fresh[q] \in Live
  BY <1>3 DEF PagesAt, PagesFresh, FreshPage, Live, SoundPage
<1> QED
  BY <1>1, <1>2, <1>3

\* A new page is empty, and has slots.
LEMMA NewPage ==
    ASSUME NEW v \in 0 .. MaxPages, NEW m \in Nat, m > 0
    PROVE  LET P == Header(v, m)
           IN  /\ SoundPage(P) /\ P.previous = v /\ P.readi = 0 /\ P.readendi = 0 /\ P.writei = 0 /\ P.capacity = m
<1> DEFINE t == [s \in 0 .. m - 1 |-> NoPage]
           P == Header(v, m)
<1>1. t \in [0 .. m - 1 -> PageItem \cup {NoPage}]
  OBVIOUS
<1>2. t \in Storages
  BY <1>1 DEF Storages
<1>3. P = [previous |-> v, readi |-> 0, readendi |-> 0, writei |-> 0, capacity |-> m, storage |-> t]
  BY DEF Header
<1> HIDE DEF t, P
<1>4. P.previous = v /\ P.readi = 0 /\ P.readendi = 0 /\ P.writei = 0 /\ P.capacity = m /\ P.storage = t /\ P \in Headers
  BY <1>2, <1>3 DEF Headers
<1>5. SoundPage(P)
  BY <1>1, <1>4 DEF SoundPage, Lap
<1> QED
  BY <1>4, <1>5 DEF P

\* The free address that the allocator hands out.
LEMMA AddressFree ==
    ASSUME Live # Pages
    PROVE  Address \in Pages \ Live
<1> DEFINE T == Pages \ Live
<1>1. T \subseteq Nat /\ T # {}
  BY DEF Pages, Live
<1>2. Address = CHOOSE h \in T : \A g \in T : h <= g
  BY DEF Address
<1> HIDE DEF T
<1>3. \E h \in T : \A g \in T : h <= g
  BY <1>1, SmallestOf
<1>4. Address \in T
  BY <1>2, <1>3
<1> QED
  BY <1>4 DEF T

\* The page is full: a larger one is allocated.
LEMMA AllocateKeeps ==
    ASSUME NoPage \notin Headers, NEW n, NEW c, PagesAt(n, c), NoStalePage', NoStalePageClaim', NEW p \in PageProducers,
           Allocate(p)
    PROVE  PagesAt(n, c)'
<1>1. /\ pagePc[p] = "allocate" /\ Inside(p) /\ InPage(p, n, c) /\ Live # Pages /\ alive /\ fresh[p] = NoPage
      /\ page' = [page EXCEPT ![Address] = Header(header[p], Grown(page[header[p]].capacity))]
      /\ fresh' = [fresh EXCEPT ![p] = Address] /\ pagePc' = [pagePc EXCEPT ![p] = "cas_header"]
      /\ UNCHANGED <<write_header, header, pageSlot, pageNext, pageItem, pageRpc, read_header, next_header,
                     pageIssued, pagePushed, pagePopped, alive>>
  BY DEF Allocate, Inside, PagesAt, PagesFresh, FreshPage, PagesEnded, consumerVars
<1>2. PICK a : a = Address
  OBVIOUS
<1>3. PICK P : P = Header(header[p], Grown(page[header[p]].capacity))
  OBVIOUS
<1>4. a \in Pages \ Live /\ a \in 0 .. MaxPages /\ a # Empty /\ a # NoPage
  BY <1>1, <1>2, AddressFree, PagesLive
<1>5. /\ SoundPage(P) /\ P.previous = header[p] /\ P.readi = 0 /\ P.readendi = 0 /\ P.writei = 0
  <2>1. header[p] = Empty \/ (header[p] \in Pages /\ page[header[p]].capacity \in Nat)
    BY <1>1, PageOf DEF PagesAt
  <2>2. page[Empty].capacity = 0
    BY DEF PagesAt, Listing, Header
  <2>3. header[p] \in 0 .. MaxPages /\ page[header[p]].capacity \in Nat
    BY <2>1, <2>2, PagesLive
  <2>4. Grown(page[header[p]].capacity) \in Nat /\ Grown(page[header[p]].capacity) > 0
    BY <2>3 DEF Grown
  <2> QED
    BY <2>3, <2>4, <1>3, NewPage
<1>6. /\ page' \in [0 .. MaxPages -> Headers \cup {NoPage}] /\ page'[a] = P
      /\ \A g \in 0 .. MaxPages : g # a => page'[g] = page[g]
  BY <1>1, <1>2, <1>3, <1>4, <1>5 DEF PagesAt, Listing, SoundPage
<1>7. ASSUME NEW i \in 1 .. n PROVE c[i] # a /\ page'[c[i]] = page[c[i]]
  <2>1. c[i] \in Live /\ c[i] \in 0 .. MaxPages
    BY PagesLive DEF PagesAt, Listing
  <2> QED
    BY <2>1, <1>4, <1>6
<1>8. /\ \A q \in PageProducers \ {p} : pagePc'[q] = pagePc[q] /\ header'[q] = header[q] /\ fresh'[q] = fresh[q]
      /\ pagePc'[p] = "cas_header" /\ fresh'[p] = a
  BY <1>1, <1>2 DEF PagesAt, PagesTyped
<1>9. /\ Listing(n, c)' /\ \A q : InPage(q, n, c) /\ Inside(q) => page'[header[q]] = page[header[q]]
  BY <1>1, <1>4, <1>6, <1>7, PagesLive, ListKept DEF PagesAt
<1>10. PagesTyped'
  BY <1>1, <1>2, <1>4 DEF PagesAt, PagesTyped
<1>11. PagesFresh(n, c)'
  <2>1. ASSUME NEW q \in PageProducers, q # p PROVE FreshPage(q, n, c)' /\ fresh[q] # a
    <3>1. FreshPage(q, n, c) /\ pagePc'[q] = pagePc[q] /\ fresh'[q] = fresh[q] /\ header'[q] = header[q]
      BY <2>1, <1>8 DEF PagesAt, PagesFresh
    <3>2. CASE pagePc[q] = "cas_header"
      <4>1. fresh[q] # a /\ fresh[q] \in Pages
        BY <3>2, <1>4, PagesLive DEF Live
      <4>2. page'[fresh[q]] = page[fresh[q]]
        BY <4>1, <1>6, PagesLive
      <4>3. \A r \in PageProducers \ {q} : fresh'[r] # fresh'[q]
        BY <3>1, <3>2, <4>1, <1>8 DEF FreshPage
      <4> QED
        BY <3>1, <3>2, <4>1, <4>2, <4>3 DEF FreshPage
    <3>3. CASE pagePc[q] # "cas_header"
      BY <3>1, <3>3, <1>4 DEF FreshPage
    <3> QED
      BY <3>2, <3>3
  <2>2. FreshPage(p, n, c)'
    BY <2>1, <1>1, <1>4, <1>5, <1>6, <1>7, <1>8 DEF FreshPage
  <2>3. ASSUME NEW h \in Pages, page'[h] # NoPage
        PROVE  (\E i \in 1 .. n : c[i] = h) \/ (\E q \in PageProducers : fresh'[q] = h)
    <3>1. CASE h = a
      BY <3>1, <1>8
    <3>2. CASE h # a
      <4>1. page[h] # NoPage
        BY <2>3, <3>2, <1>6, PagesLive
      <4>2. (\E i \in 1 .. n : c[i] = h) \/ (\E q \in PageProducers : fresh[q] = h)
        BY <4>1 DEF PagesAt, PagesFresh
      <4> QED
        BY <4>2, <1>1, <1>8, PagesLive
    <3> QED
      BY <3>1, <3>2
  <2> QED
    BY <2>1, <2>2, <2>3 DEF PagesFresh
<1>12. ASSUME NEW q \in PageProducers PROVE InPage(q, n, c)'
  <2>1. CASE q = p
    BY <2>1, <1>1, <1>8 DEF InPage, Inside
  <2>2. CASE q # p
    BY <2>2, <1>1, <1>8, <1>9 DEF PagesAt, InPage, Inside
  <2> QED
    BY <2>1, <2>2
<1>13. PagesClaimed'
  <2>1. ~Claimed(p)'
    BY <1>8 DEF Claimed
  <2> QED
    BY <2>1, <1>1, <1>8, <1>9, ClaimsKept
<1>14. PagesConsumer(n, c)' /\ PagesEnded(n)'
  <2>1. n \in Nat /\ (n > 0 => page'[c[1]] = page[c[1]])
    BY <1>7 DEF PagesAt, Listing
  <2> QED
    BY <2>1, <1>1 DEF PagesAt, PagesConsumer, PagesEnded
<1> QED
  BY <1>9, <1>10, <1>11, <1>12, <1>13, <1>14 DEF PagesAt

\* What FreshPage says of a step that moves p from cas_header and leaves the other producers and their new pages.
LEMMA FreshKept ==
    ASSUME NoPage \notin Headers, NEW n, NEW c, PagesAt(n, c), NEW m, NEW d, NEW p \in PageProducers,
           pagePc'[p] # "cas_header", fresh'[p] = NoPage,
           \A q \in PageProducers \ {p} : pagePc'[q] = pagePc[q] /\ header'[q] = header[q] /\ fresh'[q] = fresh[q],
           \A q \in PageProducers \ {p} : pagePc[q] = "cas_header" =>
               page'[fresh[q]] = page[fresh[q]] /\ \A i \in 1 .. m : d[i] # fresh[q]
    PROVE  \A q \in PageProducers : FreshPage(q, m, d)'
<1>1. FreshPage(p, m, d)'
  BY DEF FreshPage
<1>2. ASSUME NEW q \in PageProducers, q # p PROVE FreshPage(q, m, d)'
  <2>1. FreshPage(q, n, c) /\ pagePc'[q] = pagePc[q] /\ fresh'[q] = fresh[q] /\ header'[q] = header[q]
    BY <1>2 DEF PagesAt, PagesFresh
  <2>2. CASE pagePc[q] = "cas_header"
    <3>1. page'[fresh[q]] = page[fresh[q]] /\ \A i \in 1 .. m : d[i] # fresh[q]
      BY <1>2, <2>2
    <3>2. fresh[q] # NoPage /\ \A r \in PageProducers \ {q} : fresh'[r] # fresh'[q]
      BY <2>1, <2>2, PagesLive DEF FreshPage
    <3> QED
      BY <2>1, <2>2, <3>1, <3>2 DEF FreshPage
  <2>3. CASE pagePc[q] # "cas_header"
    BY <2>1, <2>3 DEF FreshPage
  <2> QED
    BY <2>2, <2>3
<1> QED
  BY <1>1, <1>2

\* What CasHeader does to its thread.
LEMMA CasHeaderParts ==
    ASSUME NoPage \notin Headers, NEW n, NEW c, PagesAt(n, c), NEW p \in PageProducers, CasHeader(p)
    PROVE  /\ pagePc[p] = "cas_header" /\ fresh[p] \in Pages /\ fresh[p] # NoPage /\ alive
           /\ \A i \in 1 .. n : c[i] # fresh[p]
           /\ header' = [header EXCEPT ![p] = write_header'] /\ fresh' = [fresh EXCEPT ![p] = NoPage]
           /\ pagePc' = [pagePc EXCEPT ![p] = "load_writei"]
           /\ UNCHANGED <<pageSlot, pageNext, pageItem, pageRpc, read_header, next_header, pageIssued, pagePushed,
                          pagePopped, alive>>
           /\ \A q \in PageProducers \ {p} : pagePc'[q] = pagePc[q] /\ header'[q] = header[q] /\ fresh'[q] = fresh[q]
           /\ pagePc'[p] = "load_writei" /\ header'[p] = write_header' /\ fresh'[p] = NoPage /\ ~Claimed(p)'
           /\ pageItem[p] \in PageItem
           /\ \A q \in PageProducers \ {p} : pagePc[q] = "cas_header" => fresh[q] # fresh[p] /\ fresh[q] \in Pages
<1>1. pagePc[p] = "cas_header" /\ FreshPage(p, n, c) /\ InPage(p, n, c)
  BY DEF CasHeader, PagesAt, PagesFresh
<1>2. fresh[p] \in Pages /\ fresh[p] # NoPage /\ alive /\ (\A i \in 1 .. n : c[i] # fresh[p]) /\ pageItem[p] \in PageItem
  BY <1>1, PagesLive DEF FreshPage, InPage, PagesAt, PagesEnded
<1>3. ASSUME NEW q \in PageProducers, q # p, pagePc[q] = "cas_header" PROVE fresh[q] # fresh[p] /\ fresh[q] \in Pages
  BY <1>3, <1>1 DEF FreshPage, PagesAt, PagesFresh
<1>4. /\ header' = [header EXCEPT ![p] = write_header'] /\ fresh' = [fresh EXCEPT ![p] = NoPage]
      /\ pagePc' = [pagePc EXCEPT ![p] = "load_writei"]
      /\ UNCHANGED <<pageSlot, pageNext, pageItem, pageRpc, read_header, next_header, pageIssued, pagePushed,
                     pagePopped, alive>>
  BY DEF CasHeader, consumerVars
<1>5. /\ \A q \in PageProducers \ {p} : pagePc'[q] = pagePc[q] /\ header'[q] = header[q] /\ fresh'[q] = fresh[q]
      /\ pagePc'[p] = "load_writei" /\ header'[p] = write_header' /\ fresh'[p] = NoPage
  BY <1>4 DEF PagesAt, PagesTyped
<1>6. ~Claimed(p)'
  BY <1>5 DEF Claimed
<1> QED
  BY <1>1, <1>2, <1>3, <1>4, <1>5, <1>6

\* Another producer put a page in front: the new one is deallocated.
LEMMA CasHeaderFailsKeeps ==
    ASSUME NoPage \notin Headers, NEW n, NEW c, PagesAt(n, c), NoStalePage', NoStalePageClaim', NEW p \in PageProducers,
           CasHeader(p), write_header # header[p]
    PROVE  PagesAt(n, c)'
<1>1. /\ page' = [page EXCEPT ![fresh[p]] = NoPage] /\ write_header' = write_header
  BY DEF CasHeader
<1>2. /\ pagePc[p] = "cas_header" /\ fresh[p] \in Pages /\ fresh[p] # NoPage /\ alive
      /\ (\A i \in 1 .. n : c[i] # fresh[p])
      /\ header' = [header EXCEPT ![p] = write_header'] /\ fresh' = [fresh EXCEPT ![p] = NoPage]
      /\ pagePc' = [pagePc EXCEPT ![p] = "load_writei"]
      /\ UNCHANGED <<pageSlot, pageNext, pageItem, pageRpc, read_header, next_header, pageIssued, pagePushed,
                     pagePopped, alive>>
  BY CasHeaderParts
<1>3. /\ \A q \in PageProducers \ {p} : pagePc'[q] = pagePc[q] /\ header'[q] = header[q] /\ fresh'[q] = fresh[q]
      /\ pagePc'[p] = "load_writei" /\ header'[p] = write_header' /\ fresh'[p] = NoPage /\ ~Claimed(p)'
      /\ pageItem[p] \in PageItem
      /\ \A q \in PageProducers \ {p} : pagePc[q] = "cas_header" => fresh[q] # fresh[p] /\ fresh[q] \in Pages
  BY CasHeaderParts
<1>4. NoPage \notin Pages /\ Empty \notin Pages /\ Empty \in 0 .. MaxPages /\ Pages \subseteq 0 .. MaxPages
  BY PagesLive
<1>5. /\ page' \in [0 .. MaxPages -> Headers \cup {NoPage}] /\ page'[fresh[p]] = NoPage
      /\ \A g \in 0 .. MaxPages : g # fresh[p] => page'[g] = page[g]
  BY <1>1, <1>2, <1>4 DEF PagesAt, Listing
<1>6. \A i \in 1 .. n : page'[c[i]] = page[c[i]]
  BY <1>2, <1>4, <1>5 DEF PagesAt, Listing
<1>7. Listing(n, c)' /\ \A q : InPage(q, n, c) /\ Inside(q) => page'[header[q]] = page[header[q]]
  BY <1>1, <1>2, <1>4, <1>5, <1>6, ListKept DEF PagesAt
<1>8. PagesTyped'
  <2>1. write_header \in 0 .. MaxPages
    <3>1. write_header = Empty \/ \E i \in 1 .. n : write_header = c[i]
      BY DEF PagesAt, Listing
    <3>2. \A i \in 1 .. n : c[i] \in Pages
      BY DEF PagesAt, Listing
    <3> QED
      BY <3>1, <3>2, <1>4
  <2> QED
    BY <2>1, <1>1, <1>2 DEF PagesAt, PagesTyped
<1>9. PagesFresh(n, c)'
  <2>1. ASSUME NEW q \in PageProducers \ {p}, pagePc[q] = "cas_header"
        PROVE  page'[fresh[q]] = page[fresh[q]] /\ \A i \in 1 .. n : c[i] # fresh[q]
    BY <2>1, <1>3, <1>4, <1>5 DEF PagesAt, PagesFresh, FreshPage
  <2>2. \A q \in PageProducers : FreshPage(q, n, c)'
    BY <2>1, <1>3, FreshKept
  <2>3. ASSUME NEW h \in Pages, page'[h] # NoPage
        PROVE  (\E i \in 1 .. n : c[i] = h) \/ (\E q \in PageProducers : fresh'[q] = h)
    <3>1. h # fresh[p] /\ page[h] # NoPage
      BY <2>3, <1>4, <1>5
    <3>2. (\E i \in 1 .. n : c[i] = h) \/ (\E q \in PageProducers : fresh[q] = h)
      BY <3>1 DEF PagesAt, PagesFresh
    <3> QED
      BY <3>1, <3>2, <1>3
  <2> QED
    BY <2>2, <2>3 DEF PagesFresh
<1>10. ASSUME NEW q \in PageProducers PROVE InPage(q, n, c)'
  <2>1. CASE q = p
    <3>1. write_header = Empty \/ \E i \in 1 .. n : write_header = c[i]
      BY DEF PagesAt, Listing
    <3> QED
      BY <2>1, <3>1, <1>1, <1>2, <1>3 DEF InPage, Inside
  <2>2. CASE q # p
    BY <2>2, <1>2, <1>3, <1>7 DEF PagesAt, InPage, Inside
  <2> QED
    BY <2>1, <2>2
<1>11. PagesClaimed'
  BY <1>2, <1>3, <1>7, ClaimsKept
<1>12. PagesConsumer(n, c)' /\ PagesEnded(n)'
  <2>1. n \in Nat /\ (n > 0 => page'[c[1]] = page[c[1]])
    BY <1>6 DEF PagesAt, Listing
  <2> QED
    BY <2>1, <1>2 DEF PagesAt, PagesConsumer, PagesEnded
<1> QED
  BY <1>7, <1>8, <1>9, <1>10, <1>11, <1>12 DEF PagesAt

\* The new page is put in front.
LEMMA CasHeaderKeeps ==
    ASSUME NoPage \notin Headers, NEW n, NEW c, PagesAt(n, c), NoStalePage', NoStalePageClaim', NEW p \in PageProducers,
           CasHeader(p), write_header = header[p], NEW d, d = [j \in 1 .. n + 1 |-> IF j = n + 1 THEN fresh[p] ELSE c[j]]
    PROVE  PagesAt(n + 1, d)'
<1>1. page' = page /\ write_header' = fresh[p]
  BY DEF CasHeader
<1>2. /\ pagePc[p] = "cas_header" /\ fresh[p] \in Pages /\ fresh[p] # NoPage /\ alive
      /\ (\A i \in 1 .. n : c[i] # fresh[p])
      /\ header' = [header EXCEPT ![p] = write_header'] /\ fresh' = [fresh EXCEPT ![p] = NoPage]
      /\ pagePc' = [pagePc EXCEPT ![p] = "load_writei"]
      /\ UNCHANGED <<pageSlot, pageNext, pageItem, pageRpc, read_header, next_header, pageIssued, pagePushed,
                     pagePopped, alive>>
  BY CasHeaderParts
<1>3. /\ \A q \in PageProducers \ {p} : pagePc'[q] = pagePc[q] /\ header'[q] = header[q] /\ fresh'[q] = fresh[q]
      /\ pagePc'[p] = "load_writei" /\ header'[p] = write_header' /\ fresh'[p] = NoPage /\ ~Claimed(p)'
      /\ pageItem[p] \in PageItem
      /\ \A q \in PageProducers \ {p} : pagePc[q] = "cas_header" => fresh[q] # fresh[p] /\ fresh[q] \in Pages
  BY CasHeaderParts
<1>4. NoPage \notin Pages /\ Empty \notin Pages /\ Empty \in 0 .. MaxPages /\ Pages \subseteq 0 .. MaxPages
  BY PagesLive
<1>5. /\ n \in Nat /\ n + 1 \in Nat /\ n + 1 > 0 /\ d \in [1 .. n + 1 -> Pages] /\ d[n + 1] = fresh[p]
      /\ \A i \in 1 .. n : d[i] = c[i] /\ i \in 1 .. n + 1 /\ i # n + 1
      /\ \A j \in 1 .. n + 1 : j = n + 1 \/ j \in 1 .. n
  BY <1>2 DEF PagesAt, Listing
<1>6. /\ SoundPage(page[fresh[p]]) /\ page[fresh[p]].previous = write_header
  BY <1>2 DEF PagesAt, PagesFresh, FreshPage
<1>7. Listing(n + 1, d)'
  <2>1. \A i, j \in 1 .. n + 1 : d[i] = d[j] => i = j
    BY <1>2, <1>5 DEF PagesAt, Listing
  <2>2. ASSUME NEW i \in 1 .. n + 1 PROVE SoundPage(page[d[i]]) /\ page[d[i]].previous = IF i = 1 THEN Empty ELSE d[i - 1]
    <3>1. CASE i \in 1 .. n
      <4>1. SoundPage(page[c[i]]) /\ page[c[i]].previous = IF i = 1 THEN Empty ELSE c[i - 1]
        BY <3>1 DEF PagesAt, Listing
      <4>2. i # 1 => d[i - 1] = c[i - 1]
        BY <3>1, <1>5
      <4> QED
        BY <3>1, <4>1, <4>2, <1>5
    <3>2. CASE i = n + 1
      <4>1. write_header = IF n = 0 THEN Empty ELSE c[n]
        BY DEF PagesAt, Listing
      <4>2. n # 0 => d[i - 1] = c[n]
        BY <3>2, <1>5
      <4> QED
        BY <3>2, <4>1, <4>2, <1>5, <1>6
    <3> QED
      BY <3>1, <3>2, <1>5
  <2>3. write_header' = IF n + 1 = 0 THEN Empty ELSE d[n + 1]
    BY <1>1, <1>5
  <2> QED
    BY <2>1, <2>2, <2>3, <1>1, <1>5 DEF PagesAt, Listing
<1>8. PagesTyped'
  BY <1>1, <1>2, <1>4 DEF PagesAt, PagesTyped
<1>9. PagesFresh(n + 1, d)'
  <2>1. ASSUME NEW q \in PageProducers \ {p}, pagePc[q] = "cas_header"
        PROVE  page'[fresh[q]] = page[fresh[q]] /\ \A i \in 1 .. n + 1 : d[i] # fresh[q]
    BY <2>1, <1>1, <1>3, <1>5 DEF PagesAt, PagesFresh, FreshPage
  <2>2. \A q \in PageProducers : FreshPage(q, n + 1, d)'
    BY <2>1, <1>3, FreshKept
  <2>3. ASSUME NEW h \in Pages, page'[h] # NoPage
        PROVE  (\E i \in 1 .. n + 1 : d[i] = h) \/ (\E q \in PageProducers : fresh'[q] = h)
    <3>1. (\E i \in 1 .. n : c[i] = h) \/ (\E q \in PageProducers : fresh[q] = h)
      BY <2>3, <1>1 DEF PagesAt, PagesFresh
    <3>2. CASE h = fresh[p]
      BY <3>2, <1>5
    <3>3. CASE h # fresh[p]
      BY <3>1, <3>3, <1>3, <1>5
    <3> QED
      BY <3>2, <3>3
  <2> QED
    BY <2>2, <2>3 DEF PagesFresh
<1>10. ASSUME NEW q \in PageProducers PROVE InPage(q, n + 1, d)'
  <2>1. CASE q = p
    <3>1. header'[p] = d[n + 1] /\ n + 1 \in 1 .. n + 1
      BY <1>1, <1>3, <1>5
    <3> QED
      BY <2>1, <3>1, <1>1, <1>2, <1>3 DEF InPage, Inside
  <2>2. CASE q # p
    <3>1. InPage(q, n, c)
      BY DEF PagesAt
    <3>2. (\E i \in 1 .. n : header[q] = c[i]) => \E i \in 1 .. n + 1 : header[q] = d[i]
      BY <1>5
    <3> QED
      BY <2>2, <3>1, <3>2, <1>1, <1>2, <1>3 DEF InPage, Inside
  <2> QED
    BY <2>1, <2>2
<1>11. PagesClaimed'
  BY <1>1, <1>2, <1>3, ClaimsKept
<1>12. PagesConsumer(n + 1, d)' /\ PagesEnded(n + 1)'
  <2>1. (n > 0 => d[1] = c[1]) /\ (n > 1 => d[2] = c[2])
    BY <1>5
  <2>2. PagesConsumer(n, c) /\ n \in Nat
    BY <1>5 DEF PagesAt
  <2> QED
    BY <2>1, <2>2, <1>1, <1>2 DEF PagesConsumer, PagesEnded
<1> QED
  BY <1>7, <1>8, <1>9, <1>10, <1>11, <1>12 DEF PagesAt

-----------------------------------------------------------------------------
(* PageQueue: the other steps.                                             *)

\* The item is constructed in the slot that p claimed.
LEMMA PageConstructKeeps ==
    ASSUME NEW n, NEW c, PagesAt(n, c), NoStalePage', NoStalePageClaim', NEW p \in PageProducers, PageConstruct(p)
    PROVE  PagesAt(n, c)'
<1> DEFINE Q == page[header[p]]
<1>1. /\ pagePc[p] = "construct" /\ Inside(p) /\ Claimed(p) /\ alive /\ InPage(p, n, c)
      /\ pagePc' = [pagePc EXCEPT ![p] = "checkin"]
      /\ UNCHANGED <<write_header, header, fresh, pageSlot, pageNext, pageItem, pageRpc, read_header, next_header,
                     pageIssued, pagePushed, pagePopped, alive>>
  BY DEF PageConstruct, Inside, Claimed, PagesAt, PagesEnded, consumerVars
<1>2. /\ header[p] # Empty /\ pageSlot[p] < Q.capacity /\ pageItem[p] \in PageItem
      /\ pageNext[p] = page_wrap_reset(pageSlot[p] + 1, Q.capacity)
  BY <1>1 DEF InPage
<1>3. PICK i \in 1 .. n : header[p] = c[i]
  BY <1>1, <1>2, PageOf DEF PagesAt
<1>4. SoundPage(Q) /\ pageSlot[p] \in 0 .. Q.capacity - 1
  <2>1. SoundPage(Q)
    BY <1>3 DEF PagesAt, Listing
  <2>2. Q.capacity \in Nat /\ pageSlot[p] \in Nat
    BY <2>1, PageParts DEF PagesAt, PagesTyped
  <2> QED
    BY <2>1, <2>2, <1>2
<1>5. PICK P : P = [Q EXCEPT !.storage[pageSlot[p]] = pageItem[p]]
  OBVIOUS
<1>6. page' = [page EXCEPT ![c[i]] = P]
  BY <1>3, <1>5 DEF PageConstruct
<1>7. /\ SoundPage(P) /\ P.previous = Q.previous /\ P.capacity = Q.capacity /\ P.readi = Q.readi
      /\ P.readendi = Q.readendi /\ P.writei = Q.writei
      /\ \A s \in 0 .. Q.capacity - 1 : Between(Q, s) => Between(P, s)
  <2> HIDE DEF Q
  <2> QED
    BY <1>2, <1>4, <1>5, StorageWritten
<1>8. ASSUME NEW q \in PageProducers, Claimed(q), header[q] = c[i] PROVE Between(P, pageSlot[q])
  <2>1. Between(Q, pageSlot[q]) /\ pageSlot[q] \in 0 .. Q.capacity - 1
    BY <1>3, <1>4, <1>8, PageParts DEF PagesAt, PagesClaimed, PagesTyped, InPage, Claimed
  <2> QED
    BY <2>1, <1>7
<1>9. /\ \A q \in PageProducers \ {p} : pagePc'[q] = pagePc[q]
      /\ pagePc'[p] = "checkin"
  BY <1>1 DEF PagesAt, PagesTyped
<1>10. InPage(p, n, c)'
  <2>1. page'[header'[p]] = P
    <3>1. c[i] \in DOMAIN page
      BY DEF PagesAt, Listing, Pages
    <3> QED
      BY <3>1, <1>1, <1>3, <1>6
  <2> QED
    BY <2>1, <1>1, <1>2, <1>3, <1>7, <1>9 DEF InPage, Inside
<1>11. /\ Listing(n, c)' /\ PagesFresh(n, c)' /\ PagesClaimed' /\ \A q \in PageProducers : InPage(q, n, c)'
       /\ page'[c[i]] = P /\ \A g \in 0 .. MaxPages : g # c[i] => page'[g] = page[g]
  <2>1. OthersKept(p, c[i], P)
    BY <1>1, <1>8, <1>9 DEF OthersKept
  <2>2. \A r \in PageProducers \ {p} : Claimed(r) /\ header[r] = c[i] => pageSlot[r] # pageSlot[p]
    BY <1>1, <1>3 DEF PagesAt, PagesClaimed
  <2>3. MoverKept(p, n, c, c[i], P)
    BY <1>1, <1>3, <1>8, <1>9, <1>10, <2>2 DEF MoverKept
  <2>4. P.previous = page[c[i]].previous /\ P.capacity = page[c[i]].capacity /\ SoundPage(P)
    BY <1>3, <1>7
  <2> QED
    BY <1>1, <1>6, <2>1, <2>3, <2>4, PageStep
<1>12. PagesTyped'
  BY <1>1 DEF PagesAt, PagesTyped
<1>13. PagesConsumer(n, c)'
  BY <1>1, <1>3, <1>7, <1>11, ConsumerKept DEF consumerVars
<1>14. PagesEnded(n)'
  BY <1>1 DEF PagesEnded
<1> QED
  BY <1>11, <1>12, <1>13, <1>14 DEF PagesAt

\* It is published once readendi_ is there.
LEMMA PageCheckinKeeps ==
    ASSUME NEW n, NEW c, PagesAt(n, c), NoStalePage', NoStalePageClaim', NEW p \in PageProducers, PageCheckin(p)
    PROVE  PagesAt(n, c)'
<1> DEFINE Q == page[header[p]]
<1>1. /\ pagePc[p] = "checkin" /\ Inside(p) /\ Claimed(p) /\ alive /\ InPage(p, n, c) /\ Q.readendi = pageSlot[p]
      /\ pagePc' = [pagePc EXCEPT ![p] = "idle"] /\ header' = [header EXCEPT ![p] = NoPage]
      /\ pageSlot' = [pageSlot EXCEPT ![p] = 0] /\ pageNext' = [pageNext EXCEPT ![p] = 0]
      /\ pageItem' = [pageItem EXCEPT ![p] = NoPage] /\ pagePushed' = Append(pagePushed, pageItem[p])
      /\ UNCHANGED <<write_header, fresh, pageRpc, read_header, next_header, pageIssued, pagePopped, alive>>
  BY DEF PageCheckin, Returns, Inside, Claimed, PagesAt, PagesEnded, consumerVars
<1>2. /\ header[p] # Empty /\ pageSlot[p] < Q.capacity /\ pageItem[p] \in PageItem
      /\ pageNext[p] = page_wrap_reset(Q.readendi + 1, Q.capacity)
  BY <1>1 DEF InPage
<1>3. PICK i \in 1 .. n : header[p] = c[i]
  BY <1>1, <1>2, PageOf DEF PagesAt
<1>4. SoundPage(Q) /\ Between(Q, Q.readendi)
  BY <1>1, <1>3 DEF PagesAt, Listing, PagesClaimed
<1>5. PICK P : P = [Q EXCEPT !.readendi = pageNext[p]]
  OBVIOUS
<1>6. page' = [page EXCEPT ![c[i]] = P]
  BY <1>3, <1>5 DEF PageCheckin
<1>7. /\ SoundPage(P) /\ P.previous = Q.previous /\ P.capacity = Q.capacity /\ P.readi = Q.readi
      /\ P.readendi = pageNext[p] /\ P.readendi # Q.readi /\ P.writei = Q.writei
      /\ \A s \in 0 .. Q.capacity - 1 : Between(Q, s) /\ s # Q.readendi => Between(P, s)
  <2> HIDE DEF Q
  <2> QED
    BY <1>2, <1>4, <1>5, RingPublishes
<1>8. ASSUME NEW q \in PageProducers, q # p, Claimed(q), header[q] = c[i] PROVE Between(P, pageSlot[q])
  <2>1. Between(Q, pageSlot[q]) /\ pageSlot[q] \in 0 .. Q.capacity - 1
    BY <1>3, <1>4, <1>8, PageParts DEF PagesAt, PagesClaimed, PagesTyped, InPage, Claimed
  <2>2. pageSlot[q] # Q.readendi
    BY <1>1, <1>3, <1>8 DEF PagesAt, PagesClaimed
  <2> QED
    BY <2>1, <2>2, <1>7
<1>9. /\ \A q \in PageProducers \ {p} :
           /\ pagePc'[q] = pagePc[q] /\ header'[q] = header[q] /\ pageSlot'[q] = pageSlot[q]
           /\ pageNext'[q] = pageNext[q] /\ pageItem'[q] = pageItem[q]
      /\ pagePc'[p] = "idle" /\ header'[p] = NoPage
  BY <1>1 DEF PagesAt, PagesTyped
<1>10. InPage(p, n, c)'
  BY <1>9 DEF InPage, Inside
<1>11. /\ Listing(n, c)' /\ PagesFresh(n, c)' /\ PagesClaimed' /\ \A q \in PageProducers : InPage(q, n, c)'
       /\ page'[c[i]] = P /\ \A g \in 0 .. MaxPages : g # c[i] => page'[g] = page[g]
  <2>1. OthersKept(p, c[i], P)
    BY <1>8, <1>9 DEF OthersKept
  <2>2. ~Claimed(p)'
    BY <1>9 DEF Claimed
  <2>3. MoverKept(p, n, c, c[i], P)
    BY <1>1, <1>9, <1>10, <2>2 DEF MoverKept
  <2>4. P.previous = page[c[i]].previous /\ P.capacity = page[c[i]].capacity /\ SoundPage(P)
    BY <1>3, <1>7
  <2> QED
    BY <1>1, <1>6, <2>1, <2>3, <2>4, PageStep
<1>12. PagesTyped'
  <2>1. pagePushed' \in Seq(PageItem)
    BY <1>1, <1>2 DEF PagesAt, PagesTyped
  <2> QED
    BY <2>1, <1>1 DEF PagesAt, PagesTyped
<1>13. PagesConsumer(n, c)'
  BY <1>1, <1>3, <1>7, <1>11, ConsumerKept DEF consumerVars
<1>14. PagesEnded(n)'
  BY <1>1 DEF PagesEnded
<1> QED
  BY <1>11, <1>12, <1>13, <1>14 DEF PagesAt

\* try_pop is called and finds the oldest page.
LEMMA PopLoadKeeps ==
    ASSUME NEW n, NEW c, PagesAt(n, c), NoStalePage', NoStalePageClaim', PopLoad
    PROVE  PagesAt(n, c)'
<1>1. /\ alive /\ read_header' = Back[Oldest] /\ pageRpc' = (IF Oldest = 0 THEN "check" ELSE "oldest")
      /\ next_header' = IF Oldest = 0 THEN NoPage ELSE Back[Oldest - 1]
      /\ UNCHANGED <<page, write_header, pageProducerVars, pageIssued, pagePushed, alive>>
  BY DEF PopLoad
<1>2. n \in Nat /\ Oldest = (IF n = 0 THEN 0 ELSE n - 1) /\ Back[Oldest] = (IF n = 0 THEN Empty ELSE c[1])
  BY OldestIs DEF PagesAt, Listing
<1>3. n > 1 => Back[Oldest - 1] = c[2]
  BY OldestIs DEF PagesAt
<1>4. PagesConsumer(n, c)'
  BY <1>1, <1>2, <1>3 DEF PagesConsumer
<1> QED
  BY <1>1, <1>4, ConsumerStep

\* It is found drained, or not.
LEMMA PopOldestKeeps ==
    ASSUME NEW n, NEW c, PagesAt(n, c), NoStalePage', NoStalePageClaim', PopOldest
    PROVE  PagesAt(n, c)'
<1>1. /\ alive /\ pageRpc = "oldest" /\ pageRpc' \in {"free", "check"}
      /\ pageRpc' = (IF page[read_header].readi = page[read_header].writei THEN "free" ELSE "check")
      /\ UNCHANGED <<page, write_header, pageProducerVars, read_header, next_header, pageIssued, pagePushed, alive>>
  BY DEF PopOldest, PagesAt, PagesEnded
<1>2. PagesConsumer(n, c)'
  BY <1>1 DEF PagesConsumer, PagesAt, Listing
<1> QED
  BY <1>1, <1>2, ConsumerStep

\* It has something to read, or not.
LEMMA PagePopCheckKeeps ==
    ASSUME NEW n, NEW c, PagesAt(n, c), NoStalePage', NoStalePageClaim', PagePopCheck
    PROVE  PagesAt(n, c)'
<1>1. /\ alive /\ pageRpc = "check" /\ UNCHANGED <<page, write_header, pageProducerVars, pageIssued, pagePushed, alive>>
  BY DEF PagePopCheck, PagesAt, PagesEnded
<1>2. CASE page[read_header].readi = page[read_header].readendi
  <2>1. pageRpc' = "idle"
    BY <1>2 DEF PagePopCheck
  <2>2. PagesConsumer(n, c)'
    BY <2>1 DEF PagesConsumer
  <2> QED
    BY <1>1, <2>1, <2>2, ConsumerStep
<1>3. CASE page[read_header].readi # page[read_header].readendi
  <2>1. pageRpc' = "move" /\ UNCHANGED <<read_header, next_header>>
    BY <1>3 DEF PagePopCheck
  <2>2. page[Empty].readi = page[Empty].readendi
    BY DEF PagesAt, Listing, Header
  <2>3. PagesConsumer(n, c)'
    BY <1>1, <1>3, <2>1, <2>2 DEF PagesConsumer, PagesAt
  <2> QED
    BY <1>1, <2>1, <2>3, ConsumerStep
<1> QED
  BY <1>2, <1>3

\* The slots claimed in Q are still so in P.
ClaimsIn(Q, P) == \A s \in 0 .. P.capacity - 1 : Between(Q, s) => Between(P, s)

\* What the consumer changes in the oldest page.
LEMMA ConsumerPageStep ==
    ASSUME NEW n, NEW c, PagesAt(n, c), n > 0, NEW P, page' = [page EXCEPT ![c[1]] = P],
           SoundPage(P), P.previous = page[c[1]].previous, P.capacity = page[c[1]].capacity,
           ClaimsIn(page[c[1]], P),
           UNCHANGED <<pageProducerVars, write_header>>
    PROVE  /\ Listing(n, c)' /\ PagesFresh(n, c)' /\ PagesClaimed' /\ \A q \in PageProducers : InPage(q, n, c)'
           /\ page'[c[1]] = P /\ \A g \in 0 .. MaxPages : g # c[1] => page'[g] = page[g]
<1>1. PICK p : p \notin PageProducers
  BY NoSetContainsEverything
<1>2. 1 \in 1 .. n
  BY DEF PagesAt, Listing
<1>3. ASSUME NEW q \in PageProducers, Claimed(q), header[q] = c[1] PROVE Between(P, pageSlot[q])
  <2>1. Between(page[c[1]], pageSlot[q]) /\ pageSlot[q] < P.capacity /\ pageSlot[q] \in Nat
    BY <1>3 DEF PagesAt, PagesClaimed, PagesTyped, InPage, Claimed
  <2>2. P.capacity \in Nat
    BY PageParts
  <2> QED
    BY <2>1, <2>2 DEF ClaimsIn
<1>4. OthersKept(p, c[1], P)
  BY <1>3 DEF OthersKept, pageProducerVars
<1>5. MoverKept(p, n, c, c[1], P)
  BY <1>1 DEF MoverKept
<1>6. UNCHANGED <<write_header, fresh>>
  BY DEF pageProducerVars
<1> QED
  BY <1>2, <1>4, <1>5, <1>6, PageStep

\* The item is moved out.
LEMMA PagePopMoveKeeps ==
    ASSUME NEW n, NEW c, PagesAt(n, c), NoStalePage', NoStalePageClaim', PagePopMove
    PROVE  PagesAt(n, c)'
<1> DEFINE Q == page[c[1]]
<1>1. /\ n > 0 /\ n \in Nat /\ read_header = c[1] /\ Q.readi # Q.readendi /\ alive /\ SoundPage(Q) /\ pageRpc' = "store"
      /\ page' = [page EXCEPT ![c[1]].storage[Q.readi] = NoPage]
      /\ UNCHANGED <<write_header, pageProducerVars, read_header, next_header, pageIssued, pagePushed, alive>>
  <2>1. n > 0 /\ n \in Nat /\ read_header = c[1] /\ Q.readi # Q.readendi /\ alive /\ 1 \in 1 .. n
    BY DEF PagePopMove, PagesAt, PagesConsumer, PagesEnded, Listing
  <2>2. SoundPage(Q)
    BY <2>1 DEF PagesAt, Listing
  <2> QED
    BY <2>1, <2>2 DEF PagePopMove
<1>2. PICK P : P = [Q EXCEPT !.storage[Q.readi] = NoPage]
  OBVIOUS
<1>3. page' = [page EXCEPT ![c[1]] = P]
  BY <1>1, <1>2
<1>4. /\ SoundPage(P) /\ P.previous = Q.previous /\ P.capacity = Q.capacity /\ P.readi = Q.readi
      /\ P.readendi = Q.readendi /\ P.writei = Q.writei
      /\ ClaimsIn(Q, P)
  <2>1. SoundPage(Q)
    BY <1>1
  <2> HIDE DEF Q
  <2>2. Q.readi \in 0 .. Q.capacity - 1
    BY <2>1, PageParts
  <2> QED
    BY <2>1, <2>2, <1>2, StorageWritten DEF ClaimsIn
<1>5. /\ Listing(n, c)' /\ PagesFresh(n, c)' /\ PagesClaimed' /\ \A q \in PageProducers : InPage(q, n, c)'
      /\ page'[c[1]] = P
  <2>1. SoundPage(P) /\ P.previous = page[c[1]].previous /\ P.capacity = page[c[1]].capacity /\ ClaimsIn(page[c[1]], P)
    BY <1>4
  <2>2. UNCHANGED <<pageProducerVars, write_header>>
    BY <1>1
  <2>3. n > 0
    BY <1>1
  <2> QED
    BY ONLY <1>3, <2>1, <2>2, <2>3, PagesAt(n, c), ConsumerPageStep
<1>6. PagesTyped'
  BY <1>1 DEF PagesAt, PagesTyped, pageProducerVars
<1>7. PagesConsumer(n, c)' /\ PagesEnded(n)'
  BY <1>1, <1>4, <1>5 DEF PagesConsumer, PagesEnded
<1> QED
  BY <1>5, <1>6, <1>7 DEF PagesAt

\* readi_ is advanced.
LEMMA PagePopStoreKeeps ==
    ASSUME NEW n, NEW c, PagesAt(n, c), NoStalePage', NoStalePageClaim', PagePopStore
    PROVE  PagesAt(n, c)'
<1> DEFINE Q == page[c[1]]
           v == page_wrap_reset(Q.readi + 1, Q.capacity)
<1>1. /\ n > 0 /\ n \in Nat /\ read_header = c[1] /\ Q.readi # Q.readendi /\ alive /\ SoundPage(Q) /\ pageRpc' = "idle"
      /\ page' = [page EXCEPT ![c[1]].readi = v]
      /\ UNCHANGED <<write_header, pageProducerVars, pageIssued, pagePushed, alive>>
  <2>1. n > 0 /\ n \in Nat /\ read_header = c[1] /\ Q.readi # Q.readendi /\ alive /\ 1 \in 1 .. n
    BY DEF PagePopStore, PagesAt, PagesConsumer, PagesEnded, Listing
  <2>2. SoundPage(Q)
    BY <2>1 DEF PagesAt, Listing
  <2> QED
    BY <2>1, <2>2 DEF PagePopStore
<1>2. PICK P : P = [Q EXCEPT !.readi = v]
  OBVIOUS
<1>3. page' = [page EXCEPT ![c[1]] = P]
  BY <1>1, <1>2
<1>4. /\ SoundPage(P) /\ P.previous = Q.previous /\ P.capacity = Q.capacity
      /\ ClaimsIn(Q, P)
  <2>1. SoundPage(Q) /\ Q.readi # Q.readendi /\ v = page_wrap_reset(Q.readi + 1, Q.capacity)
    BY <1>1
  <2> HIDE DEF Q, v
  <2> QED
    BY <2>1, <1>2, RingPops DEF ClaimsIn
<1>5. /\ Listing(n, c)' /\ PagesFresh(n, c)' /\ PagesClaimed' /\ \A q \in PageProducers : InPage(q, n, c)'
      /\ page'[c[1]] = P
  <2>1. SoundPage(P) /\ P.previous = page[c[1]].previous /\ P.capacity = page[c[1]].capacity /\ ClaimsIn(page[c[1]], P)
    BY <1>4
  <2>2. UNCHANGED <<pageProducerVars, write_header>>
    BY <1>1
  <2>3. n > 0
    BY <1>1
  <2> QED
    BY ONLY <1>3, <2>1, <2>2, <2>3, PagesAt(n, c), ConsumerPageStep
<1>6. PagesTyped'
  BY <1>1 DEF PagesAt, PagesTyped, pageProducerVars
<1>7. PagesConsumer(n, c)' /\ PagesEnded(n)'
  BY <1>1 DEF PagesConsumer, PagesEnded
<1> QED
  BY <1>5, <1>6, <1>7 DEF PagesAt

\* A drained page is freed: nobody is in it.
LEMMA PopFreeKeeps ==
    ASSUME NoPage \notin Headers, NEW n, NEW c, PagesAt(n, c), NoStalePage', NoStalePageClaim', PopFree,
           NEW d, d = [i \in 1 .. n - 1 |-> c[i + 1]]
    PROVE  PagesAt(n - 1, d)'
<1> USE DEF pageProducerVars
<1>1. /\ pageRpc = "free" /\ n > 1 /\ n \in Nat /\ read_header = c[1] /\ next_header = c[2] /\ alive
      /\ page[c[1]].readi = page[c[1]].writei
      /\ page' = [page EXCEPT ![c[2]].previous = Empty, ![c[1]] = NoPage]
      /\ read_header' = c[2] /\ pageRpc' = "check"
      /\ UNCHANGED <<write_header, pageProducerVars, next_header, pageIssued, pagePushed, alive>>
  BY DEF PopFree, PagesAt, PagesConsumer, PagesEnded, Listing
<1>2. PICK P : P = [page[c[2]] EXCEPT !.previous = Empty]
  OBVIOUS
<1>3. /\ NoPage \notin Pages /\ Empty \notin Pages /\ Empty \in 0 .. MaxPages /\ Pages \subseteq 0 .. MaxPages
  BY PagesLive
<1>4. /\ c[1] \in Pages /\ c[2] \in Pages /\ c[1] # c[2] /\ 1 \in 1 .. n /\ 2 \in 1 .. n /\ SoundPage(page[c[2]])
      /\ SoundPage(page[c[1]])
  BY <1>1 DEF PagesAt, Listing
<1>5. /\ SoundPage(P) /\ P.previous = Empty /\ P.capacity = page[c[2]].capacity /\ P.readi = page[c[2]].readi
      /\ P.readendi = page[c[2]].readendi /\ P.writei = page[c[2]].writei
  <2>1. PICK Q : Q = page[c[2]]
    OBVIOUS
  <2>2. Q \in Headers /\ P = [Q EXCEPT !.previous = Empty]
    BY <2>1, <1>2, <1>4, PageParts
  <2>3. /\ P.previous = Empty /\ P.capacity = Q.capacity /\ P.readi = Q.readi /\ P.readendi = Q.readendi
        /\ P.writei = Q.writei /\ P.storage = Q.storage /\ P \in Headers
    BY <2>2, <1>3 DEF Headers
  <2> QED
    BY <2>1, <2>3, <1>4 DEF SoundPage
<1>6. /\ page' \in [0 .. MaxPages -> Headers \cup {NoPage}] /\ page'[c[1]] = NoPage /\ page'[c[2]] = P
      /\ \A g \in 0 .. MaxPages : g # c[1] /\ g # c[2] => page'[g] = page[g]
  <2>1. page \in [0 .. MaxPages -> Headers \cup {NoPage}] /\ P \in Headers
    BY <1>5 DEF PagesAt, Listing, SoundPage
  <2> QED
    BY <2>1, <1>1, <1>2, <1>3, <1>4
<1>7. /\ n - 1 \in Nat /\ n - 1 > 0 /\ d \in [1 .. n - 1 -> Pages]
      /\ \A j \in 1 .. n - 1 : d[j] = c[j + 1] /\ j + 1 \in 1 .. n /\ j + 1 # 1 /\ (j = 1 <=> j + 1 = 2)
      /\ d[1] = c[2] /\ d[n - 1] = c[n] /\ 1 \in 1 .. n - 1
      /\ \A i \in 1 .. n : i # 1 => i - 1 \in 1 .. n - 1 /\ d[i - 1] = c[i]
  <2>1. \A i \in 1 .. n : c[i] \in Pages
    BY DEF PagesAt, Listing
  <2>2. \A j \in 1 .. n - 1 : j + 1 \in 1 .. n /\ j + 1 # 1 /\ (j = 1 <=> j + 1 = 2)
    BY <1>1
  <2>3. \A j \in 1 .. n - 1 : d[j] = c[j + 1] /\ d[j] \in Pages
    BY <2>1, <2>2
  <2>4. \A i \in 1 .. n : i # 1 => i - 1 \in 1 .. n - 1 /\ d[i - 1] = c[i]
    BY <1>1, <2>3
  <2>5. d \in [1 .. n - 1 -> Pages]
    BY <2>3
  <2>6. d[1] = c[2] /\ d[n - 1] = c[n] /\ 1 \in 1 .. n - 1
    BY <2>3, <1>1
  <2> QED
    BY <2>2, <2>3, <2>4, <2>5, <2>6, <1>1
<1>8. ASSUME NEW j \in 1 .. n - 1 PROVE page'[d[j]] = (IF j = 1 THEN P ELSE page[d[j]]) /\ d[j] # c[1]
  <2>1. d[j] \in Pages /\ d[j] # c[1] /\ (j # 1 => d[j] # c[2])
    BY <1>4, <1>7 DEF PagesAt, Listing
  <2> QED
    BY <2>1, <1>3, <1>6, <1>7
<1>9. Listing(n - 1, d)'
  <2>1. ASSUME NEW i \in 1 .. n - 1, NEW j \in 1 .. n - 1, d[i] = d[j] PROVE i = j
    <3>1. i + 1 = j + 1
      BY <2>1, <1>7 DEF PagesAt, Listing
    <3> QED
      BY <3>1
  <2>2. ASSUME NEW i \in 1 .. n - 1
        PROVE  SoundPage(page'[d[i]]) /\ page'[d[i]].previous = IF i = 1 THEN Empty ELSE d[i - 1]
    <3>1. CASE i = 1
      BY <3>1, <1>5, <1>8
    <3>2. CASE i # 1
      <4>1. page'[d[i]] = page[c[i + 1]] /\ i + 1 \in 1 .. n /\ i + 1 # 1
        BY <3>2, <1>7, <1>8
      <4>2. SoundPage(page[c[i + 1]]) /\ page[c[i + 1]].previous = c[i + 1 - 1]
        BY <4>1 DEF PagesAt, Listing
      <4>3. d[i - 1] = c[i]
        BY <3>2, <1>1, <1>7
      <4> QED
        BY <3>2, <4>1, <4>2, <4>3
    <3> QED
      BY <3>1, <3>2
  <2>3. write_header' = IF n - 1 = 0 THEN Empty ELSE d[n - 1]
    BY <1>1, <1>7 DEF PagesAt, Listing
  <2>4. page'[Empty] = Header(Empty, 0)
    BY <1>3, <1>4, <1>6 DEF PagesAt, Listing
  <2> QED
    BY <2>1, <2>2, <2>3, <2>4, <1>6, <1>7 DEF Listing
<1>10. PagesTyped'
  BY <1>1 DEF PagesAt, PagesTyped
<1>11. PagesFresh(n - 1, d)'
  <2>1. ASSUME NEW q \in PageProducers PROVE FreshPage(q, n - 1, d)'
    <3>1. FreshPage(q, n, c)
      BY DEF PagesAt, PagesFresh
    <3>2. CASE pagePc[q] = "cas_header"
      <4>1. fresh[q] \in Pages /\ fresh[q] # c[1] /\ fresh[q] # c[2] /\ \A i \in 1 .. n - 1 : d[i] # fresh[q]
        BY <3>1, <3>2, <1>4, <1>7 DEF FreshPage
      <4>2. page'[fresh[q]] = page[fresh[q]]
        BY <4>1, <1>3, <1>6
      <4> QED
        BY <3>1, <3>2, <4>1, <4>2, <1>1 DEF FreshPage
    <3>3. CASE pagePc[q] # "cas_header"
      BY <3>1, <3>3, <1>1 DEF FreshPage
    <3> QED
      BY <3>2, <3>3
  <2>2. ASSUME NEW h \in Pages, page'[h] # NoPage
        PROVE  (\E i \in 1 .. n - 1 : d[i] = h) \/ (\E q \in PageProducers : fresh'[q] = h)
    <3>1. h # c[1]
      BY <2>2, <1>6
    <3>2. CASE h = c[2]
      BY <3>2, <1>7
    <3>3. CASE h # c[2]
      <4>1. page[h] # NoPage
        BY <3>1, <3>3, <2>2, <1>3, <1>6
      <4>2. (\E i \in 1 .. n : c[i] = h) \/ (\E q \in PageProducers : fresh[q] = h)
        BY <4>1 DEF PagesAt, PagesFresh
      <4>3. ASSUME NEW i \in 1 .. n, c[i] = h PROVE \E j \in 1 .. n - 1 : d[j] = h
        BY <3>1, <4>3, <1>7
      <4> QED
        BY <4>2, <4>3, <1>1
    <3> QED
      BY <3>2, <3>3
  <2> QED
    BY <2>1, <2>2 DEF PagesFresh
<1>12. ASSUME NEW q \in PageProducers, Inside(q) PROVE header[q] # c[1]
  <2>1. CASE Claimed(q)
    <3>1. SUFFICES ASSUME header[q] = c[1] PROVE FALSE
      OBVIOUS
    <3>2. Between(page[c[1]], pageSlot[q]) /\ pageSlot[q] \in Nat /\ pageSlot[q] < page[c[1]].capacity
      BY <2>1, <3>1 DEF PagesAt, PagesClaimed, PagesTyped, InPage, Claimed
    <3>3. /\ page[c[1]].capacity \in Nat /\ page[c[1]].readi \in 0 .. page[c[1]].capacity - 1
          /\ page[c[1]].writei \in 0 .. page[c[1]].capacity - 1
      BY <1>4, PageParts
    <3>4. pageSlot[q] \in 0 .. page[c[1]].capacity - 1
      BY <3>2, <3>3
    <3>5. /\ Lap(page[c[1]].readi, pageSlot[q], page[c[1]].capacity) \in Nat
          /\ Lap(page[c[1]].readi, page[c[1]].writei, page[c[1]].capacity) = 0
      BY <3>3, <3>4, <1>1, LapType
    <3> QED
      BY <3>2, <3>5 DEF Between
  <2>2. CASE ~Claimed(q)
    <3>1. Searching(q)
      BY <2>2, <1>12, PcApart DEF PagesAt, PagesTyped
    <3> QED
      BY <3>1, <1>1 DEF PagesAt, NoStalePage
  <2> QED
    BY <2>1, <2>2
<1>13. ASSUME NEW q \in PageProducers, Inside(q)
       PROVE  /\ header[q] = Empty \/ \E i \in 1 .. n - 1 : header[q] = d[i]
              /\ page'[header[q]].capacity = page[header[q]].capacity
              /\ \A s : Between(page[header[q]], s) => Between(page'[header[q]], s)
  <2>1. CASE header[q] = Empty
    BY <2>1, <1>3, <1>4, <1>6
  <2>2. CASE header[q] # Empty
    <3>1. PICK i \in 1 .. n : header[q] = c[i]
      BY <2>2, <1>13 DEF PagesAt, InPage
    <3>2. i # 1 /\ i - 1 \in 1 .. n - 1 /\ header[q] = d[i - 1]
      BY <3>1, <1>7, <1>12, <1>13
    <3>3. page'[header[q]] = IF i - 1 = 1 THEN P ELSE page[header[q]]
      BY <3>2, <1>8
    <3>4. i - 1 = 1 => header[q] = c[2]
      BY <3>2, <1>7
    <3> QED
      BY <3>2, <3>3, <3>4, <1>5 DEF Between
  <2> QED
    BY <2>1, <2>2
<1>14. ASSUME NEW q \in PageProducers PROVE InPage(q, n - 1, d)'
  <2>1. InPage(q, n, c) /\ (pagePc[q] \in {"load_readi", "cas_writei", "construct", "checkin"} => Inside(q))
    BY DEF PagesAt, Inside
  <2>2. CASE Inside(q)
    <3>1. /\ header[q] = Empty \/ \E i \in 1 .. n - 1 : header[q] = d[i]
          /\ page'[header[q]].capacity = page[header[q]].capacity
      BY <2>2, <1>13
    <3> QED
      BY <2>1, <2>2, <3>1, <1>1 DEF InPage, Inside
  <2>3. CASE ~Inside(q)
    BY <2>1, <2>3, <1>1 DEF InPage, Inside
  <2> QED
    BY <2>2, <2>3
<1>15. PagesClaimed'
  <2>1. ASSUME NEW q \in PageProducers, Claimed(q)' PROVE Between(page'[header'[q]], pageSlot'[q])
    <3>1. Claimed(q) /\ Inside(q) /\ Between(page[header[q]], pageSlot[q])
      BY <2>1, <1>1 DEF Claimed, Inside, PagesAt, PagesClaimed
    <3> QED
      BY <3>1, <1>1, <1>13
  <2>2. \A q, r \in PageProducers :
          Claimed(q)' /\ Claimed(r)' /\ header'[q] = header'[r] /\ pageSlot'[q] = pageSlot'[r] => q = r
    BY <1>1 DEF PagesAt, PagesClaimed, Claimed
  <2> QED
    BY <2>1, <2>2 DEF PagesClaimed
<1>16. PagesConsumer(n - 1, d)' /\ PagesEnded(n - 1)'
  BY <1>1, <1>7 DEF PagesConsumer, PagesEnded
<1> QED
  BY <1>9, <1>10, <1>11, <1>14, <1>15, <1>16 DEF PagesAt

\* The queue is destructed.
LEMMA DestructKeeps ==
    ASSUME NoPage \notin Headers, NEW n, NEW c, PagesAt(n, c), NoStalePage', NoStalePageClaim', Destruct,
           NEW d, d = [i \in 1 .. 0 |-> Empty]
    PROVE  PagesAt(0, d)'
<1> USE DEF pageProducerVars, consumerVars
<1>1. /\ alive' = FALSE /\ write_header' = Empty /\ pageRpc = "idle" /\ \A p \in PageProducers : pagePc[p] = "idle"
      /\ page' = [h \in DOMAIN page |-> IF h \in Linked THEN NoPage ELSE page[h]]
      /\ UNCHANGED <<pageProducerVars, consumerVars, pageIssued, pagePushed>>
  BY DEF Destruct
<1>2. Linked = {c[i] : i \in 1 .. n}
  BY OldestIs DEF PagesAt
<1>3. /\ NoPage \notin Pages /\ Empty \notin Pages /\ Empty \in 0 .. MaxPages /\ Pages \subseteq 0 .. MaxPages
  BY PagesLive
<1>4. Empty \notin Linked
  BY DEF Linked
<1>5. page' \in [0 .. MaxPages -> Headers \cup {NoPage}] /\ page'[Empty] = Header(Empty, 0)
  BY <1>1, <1>3, <1>4 DEF PagesAt, Listing
<1>6. ASSUME NEW h \in Pages PROVE page'[h] = NoPage
  <2>1. CASE h \in Linked
    BY <2>1, <1>1, <1>3 DEF PagesAt, Listing
  <2>2. CASE h \notin Linked
    <3>1. \A p \in PageProducers : fresh[p] # h
      BY <1>1, <1>3 DEF PagesAt, PagesFresh, FreshPage
    <3>2. \A i \in 1 .. n : c[i] # h
      BY <2>2, <1>2
    <3>3. page[h] = NoPage
      BY <3>1, <3>2 DEF PagesAt, PagesFresh
    <3> QED
      BY <3>3, <1>1, <1>3 DEF PagesAt, Listing
  <2> QED
    BY <2>1, <2>2
<1>7. Listing(0, d)'
  BY <1>1, <1>5 DEF Listing
<1>8. PagesTyped'
  BY <1>1 DEF PagesAt, PagesTyped
<1>9. PagesFresh(0, d)'
  BY <1>1, <1>6 DEF PagesAt, PagesFresh, FreshPage
<1>10. ASSUME NEW q \in PageProducers PROVE InPage(q, 0, d)'
  BY <1>1 DEF PagesAt, InPage, Inside
<1>11. PagesClaimed'
  BY <1>1 DEF PagesClaimed, Claimed
<1>12. PagesConsumer(0, d)' /\ PagesEnded(0)'
  BY <1>1 DEF PagesConsumer, PagesEnded
<1> QED
  BY <1>7, <1>8, <1>9, <1>10, <1>11, <1>12 DEF PagesAt

\* At first there is one page or none.
LEMMA PagesAtFirst ==
    ASSUME PageInit
    PROVE  \E n, c : PagesAt(n, c)
<1> USE DEF PageInit
<1>1. /\ NoPage \notin Pages /\ Empty \notin Pages /\ Empty \in 0 .. MaxPages /\ Pages \subseteq 0 .. MaxPages
      /\ 1 \in Pages /\ First \in Nat /\ 1 # Empty
  BY PageQueueAssumption DEF PageQueueAssumption, Pages, Empty
<1>2. Header(Empty, 0) \in Headers
  <2> DEFINE t == [s \in 0 .. 0 - 1 |-> NoPage]
  <2>1. t \in [0 .. 0 - 1 -> PageItem \cup {NoPage}]
    OBVIOUS
  <2>2. t \in Storages
    BY <2>1 DEF Storages
  <2>3. Header(Empty, 0) = [previous |-> Empty, readi |-> 0, readendi |-> 0, writei |-> 0, capacity |-> 0, storage |-> t]
    BY DEF Header
  <2> HIDE DEF t
  <2> QED
    BY <2>2, <2>3, <1>1 DEF Headers
<1>3. First > 0 => SoundPage(Header(Empty, First)) /\ Header(Empty, First).previous = Empty
  BY <1>1, NewPage
<1> DEFINE n == IF First > 0 THEN 1 ELSE 0
           c == [i \in 1 .. n |-> 1]
<1>4. n \in Nat /\ (n = 0 \/ n = 1) /\ c \in [1 .. n -> Pages] /\ (n = 1 <=> First > 0) /\ \A i \in 1 .. n : i = 1 /\ c[i] = 1
  BY <1>1
<1>5. /\ page \in [0 .. MaxPages -> Headers \cup {NoPage}] /\ page[Empty] = Header(Empty, 0)
      /\ (n = 1 => page[1] = Header(Empty, First))
      /\ \A h \in Pages : page[h] # NoPage => n = 1 /\ h = 1
  <2> HIDE DEF n
  <2>1. First > 0 => Header(Empty, First) \in Headers
    BY <1>3 DEF SoundPage
  <2>2. page = [h \in 0 .. MaxPages |-> IF h = Empty THEN Header(Empty, 0)
                                        ELSE IF h = 1 /\ First > 0 THEN Header(Empty, First) ELSE NoPage]
    OBVIOUS
  <2>3. page[Empty] = Header(Empty, 0)
    BY <2>2, <1>1
  <2>4. n = 1 => page[1] = Header(Empty, First)
    BY <2>2, <1>1, <1>4
  <2>5. \A h \in Pages : page[h] # NoPage => n = 1 /\ h = 1
    BY <2>2, <1>1, <1>4
  <2>6. page \in [0 .. MaxPages -> Headers \cup {NoPage}]
    BY ONLY <2>1, <2>2, <1>2
  <2> QED
    BY <2>3, <2>4, <2>5, <2>6
<1> HIDE DEF n, c
<1>6. Listing(n, c)
  <2>1. write_header = IF n = 0 THEN Empty ELSE c[n]
    BY <1>4
  <2>2. \A i \in 1 .. n : SoundPage(page[c[i]]) /\ page[c[i]].previous = IF i = 1 THEN Empty ELSE c[i - 1]
    BY <1>3, <1>4, <1>5
  <2>3. \A i, j \in 1 .. n : c[i] = c[j] => i = j
    BY <1>4
  <2> QED
    BY <2>1, <2>2, <2>3, <1>4, <1>5 DEF Listing
<1>7. PagesTyped
  BY DEF PagesTyped
<1>8. PagesFresh(n, c)
  BY <1>4, <1>5 DEF PagesFresh, FreshPage
<1>9. ASSUME NEW q \in PageProducers PROVE InPage(q, n, c)
  BY DEF InPage, Inside
<1>10. PagesClaimed /\ PagesConsumer(n, c) /\ PagesEnded(n) /\ NoStalePage /\ NoStalePageClaim
  BY DEF PagesClaimed, Claimed, PagesConsumer, PagesEnded, NoStalePage, NoStalePageClaim
<1>11. PagesAt(n, c)
  BY <1>6, <1>7, <1>8, <1>9, <1>10 DEF PagesAt
<1> QED
  BY <1>11

\* Every step keeps the invariant, for the list that it leaves.
LEMMA PagesStep ==
    ASSUME NoPage \notin Headers, NEW n, NEW c, PagesAt(n, c), PagePromptNext
    PROVE  \E m, d : PagesAt(m, d)'
<1>1. NoStalePage' /\ NoStalePageClaim' /\ PageNext
  BY DEF PagePromptNext
<1>2. CASE Destruct
  BY <1>1, <1>2, DestructKeeps
<1>3. CASE PopFree
  BY <1>1, <1>3, PopFreeKeeps
<1>4. CASE PopLoad \/ PopOldest \/ PagePopCheck \/ PagePopMove \/ PagePopStore
  <2>1. PagesAt(n, c)'
    BY <1>1, <1>4, PopLoadKeeps, PopOldestKeeps, PagePopCheckKeeps, PagePopMoveKeeps, PagePopStoreKeeps
  <2> QED
    BY <2>1
<1>5. ASSUME NEW p \in PageProducers, PageProducer(p) PROVE \E m, d : PagesAt(m, d)'
  <2>1. CASE CasHeader(p) /\ write_header = header[p]
    BY <1>1, <2>1, CasHeaderKeeps
  <2>2. CASE CasHeader(p) /\ write_header # header[p]
    <3>1. PagesAt(n, c)'
      BY <1>1, <2>2, CasHeaderFailsKeeps
    <3> QED
      BY <3>1
  <2>3. CASE LoadHeader(p) \/ PageLoadWritei(p) \/ PageLoadReadi(p) \/ PageCasWriteiFails(p) \/ AllocateFails(p)
    <3>1. PagesAt(n, c)'
      BY <1>1, <2>3, LoadHeaderKeeps, SearchKeeps, AllocateFailsKeeps
    <3> QED
      BY <3>1
  <2>4. CASE PageCasWritei(p) \/ Allocate(p) \/ PageConstruct(p) \/ PageCheckin(p)
    <3>1. PagesAt(n, c)'
      BY <1>1, <2>4, PageCasWriteiKeeps, AllocateKeeps, PageConstructKeeps, PageCheckinKeeps
    <3> QED
      BY <3>1
  <2> QED
    BY <1>5, <2>1, <2>2, <2>3, <2>4 DEF PageProducer
<1> QED
  BY <1>1, <1>2, <1>3, <1>4, <1>5 DEF PageNext, PageConsumer

\* And so does a stutter.
LEMMA PagesStutter ==
    ASSUME NEW n, NEW c, PagesAt(n, c), UNCHANGED pageVars
    PROVE  PagesAt(n, c)'
<1> USE DEF pageVars, pageProducerVars, consumerVars
<1>1. Listing(n, c)' /\ PagesTyped'
  BY DEF PagesAt, Listing, PagesTyped
<1>2. PagesFresh(n, c)'
  BY DEF PagesAt, PagesFresh, FreshPage
<1>3. \A q \in PageProducers : InPage(q, n, c)'
  BY DEF PagesAt, InPage, Inside
<1>4. PagesClaimed' /\ PagesConsumer(n, c)' /\ PagesEnded(n)'
  BY DEF PagesAt, PagesClaimed, Claimed, PagesConsumer, PagesEnded
<1>5. NoStalePage' /\ NoStalePageClaim'
  BY DEF PagesAt, NoStalePage, NoStalePageClaim, Searching
<1> QED
  BY <1>1, <1>2, <1>3, <1>4, <1>5 DEF PagesAt

\* And the invariant says that memory is accounted for.
LEMMA AccountedAt ==
    ASSUME NoPage \notin Headers, NEW n, NEW c, PagesAt(n, c)
    PROVE  PagesAccounted
<1>1. Linked = {c[i] : i \in 1 .. n}
  BY OldestIs DEF PagesAt
<1>2. NoPage \notin Pages /\ Empty \notin Pages /\ \A i \in 1 .. n : c[i] \in Live
  BY PagesLive
<1>3. \A q \in PageProducers : pagePc[q] = "cas_header" => fresh[q] \in Live
  BY PagesLive
<1>4. \A q \in PageProducers : fresh[q] # NoPage => fresh[q] \in Live
  BY <1>3 DEF PagesAt, PagesFresh, FreshPage
<1>5. Live = Linked \cup {fresh[p] : p \in {q \in PageProducers : fresh[q] # NoPage}}
  <2>1. ASSUME NEW h \in Live PROVE h \in Linked \/ \E q \in PageProducers : fresh[q] # NoPage /\ h = fresh[q]
    <3>1. h \in Pages /\ page[h] # NoPage
      BY DEF Live
    <3>2. (\E i \in 1 .. n : c[i] = h) \/ (\E q \in PageProducers : fresh[q] = h)
      BY <3>1 DEF PagesAt, PagesFresh
    <3> QED
      BY <3>1, <3>2, <1>1, <1>2
  <2>2. \A h \in Linked : h \in Live
    BY <1>1, <1>2
  <2> QED
    BY <2>1, <2>2, <1>4
<1>6. ASSUME NEW p \in PageProducers, header[p] \notin {NoPage, Empty}, pagePc[p] # "cas_header" PROVE header[p] \in Live
  <2>1. InPage(p, n, c) /\ Inside(p)
    BY <1>6 DEF PagesAt, InPage, Inside
  <2> QED
    BY <2>1, <1>2, <1>6 DEF InPage
<1>7. pageRpc # "idle" => read_header \in Linked \cup {Empty}
  <2>1. n > 0 => c[1] \in Linked
    BY <1>1 DEF PagesAt, Listing
  <2>2. n > 1 => n > 0
    BY DEF PagesAt, Listing
  <2> QED
    BY <2>1, <2>2 DEF PagesAt, PagesTyped, PagesConsumer
<1> QED
  BY <1>5, <1>6, <1>7 DEF PagesAccounted

-----------------------------------------------------------------------------
(* PageQueue: the order.  o is everything that came out and will come out, *)
(* page i of the list has the items up to e[i] of it, and the ones up to   *)
(* e[0] are popped.                                                        *)

MovedOf(i) == IF pageRpc = "store" /\ i = 1 THEN 1 ELSE 0
SlotAt(P, j) == IF P.readi + j < P.capacity THEN P.readi + j ELSE P.readi + j - P.capacity

\* P has the items of o from a + 1 to b.
PageSpread(P, moved, a, b, o) ==
    /\ b + moved = a + Lap(P.readi, P.readendi, P.capacity)
    /\ \A j \in 1 .. b - a : P.storage[SlotAt(P, moved + j - 1)] = o[a + j]

Spread(n, c, o, e) ==
    /\ e \in [0 .. n -> Nat] /\ o \in [1 .. e[n] -> PageItem] /\ \A i, j \in 0 .. n : i <= j => e[i] <= e[j]
    /\ pagePopped = [x \in 1 .. e[0] |-> o[x]]
    /\ \A i \in 1 .. n : PageSpread(page[c[i]], MovedOf(i), e[i - 1], e[i], o)

\* What is pushed comes out, and not before what was pushed when it was called.
OutKept(m, o) ==
    /\ m = Len(pagePushed)
    /\ \A x \in 1 .. m : \E k \in 1 .. m : o[x] = pagePushed[k]
    /\ \A k \in 1 .. m : \E x \in 1 .. m : o[x] = pagePushed[k]
    /\ \A x \in 1 .. m : o[x].after <= m
    /\ \A x, y \in 1 .. m : x < y => \A k \in 1 .. o[x].after : pagePushed[k] # o[y]

\* What is pushed is new.
ItemsPushed ==
    /\ \A k \in 1 .. Len(pagePushed) : pagePushed[k].number <= pageIssued
    /\ \A p \in PageProducers : pagePc[p] # "idle" =>
         /\ pageItem[p].number <= pageIssued /\ pageItem[p].after <= Len(pagePushed)
         /\ \A k \in 1 .. Len(pagePushed) : pagePushed[k].number # pageItem[p].number
         /\ \A q \in PageProducers \ {p} : pagePc[q] # "idle" => pageItem[q].number # pageItem[p].number

\* What is constructed is in its slot.
ItemsStored == \A p \in PageProducers : pagePc[p] = "checkin" => page[header[p]].storage[pageSlot[p]] = pageItem[p]

\* Nothing in a page newer than the one that a producer is in was published when it was called.
InFront(n, c, o, e) ==
    \A p \in PageProducers, i \in 1 .. n :
        Inside(p) /\ header[p] = c[i] => \A y \in e[i] + 1 .. e[n] : \A k \in 1 .. pageItem[p].after : pagePushed[k] # o[y]

OrderAt(n, c, o, e) == Spread(n, c, o, e) /\ OutKept(e[n], o) /\ ItemsPushed /\ ItemsStored /\ InFront(n, c, o, e)

\* The slots from readi_ on, one after the other.
LEMMA SlotLap ==
    ASSUME NEW P, SoundPage(P)
    PROVE  \A j \in 0 .. P.capacity - 1 : SlotAt(P, j) \in 0 .. P.capacity - 1 /\ Lap(P.readi, SlotAt(P, j), P.capacity) = j
  BY PageParts DEF SlotAt, Lap

\* The list has the same slots as before, with the same in them.
SameSlots(n, c) ==
    \A i \in 1 .. n :
        /\ page'[c[i]].readi = page[c[i]].readi /\ page'[c[i]].readendi = page[c[i]].readendi
        /\ page'[c[i]].capacity = page[c[i]].capacity /\ page'[c[i]].storage = page[c[i]].storage

\* Steps after which the numbers are what they were, and where the items are.
LEMMA ItemsKept ==
    ASSUME ItemsPushed, UNCHANGED <<pagePushed, pageIssued>>,
           \A q \in PageProducers : pagePc'[q] # "idle" => pagePc[q] # "idle" /\ pageItem'[q] = pageItem[q]
    PROVE  ItemsPushed'
<1>1. \A k \in 1 .. Len(pagePushed') : pagePushed'[k].number <= pageIssued'
  BY DEF ItemsPushed
<1>2. ASSUME NEW q \in PageProducers, pagePc'[q] # "idle"
      PROVE  /\ pageItem'[q].number <= pageIssued' /\ pageItem'[q].after <= Len(pagePushed')
             /\ \A k \in 1 .. Len(pagePushed') : pagePushed'[k].number # pageItem'[q].number
             /\ \A r \in PageProducers \ {q} : pagePc'[r] # "idle" => pageItem'[r].number # pageItem'[q].number
  BY <1>2 DEF ItemsPushed
<1> QED
  BY <1>1, <1>2 DEF ItemsPushed

\* What a producer constructed stays in its slot.
LEMMA StoredKept ==
    ASSUME NEW n, NEW c, PagesAt(n, c), ItemsStored, SameSlots(n, c),
           \A q \in PageProducers : pagePc'[q] = "checkin" =>
               pagePc[q] = "checkin" /\ header'[q] = header[q] /\ pageSlot'[q] = pageSlot[q] /\ pageItem'[q] = pageItem[q]
    PROVE  ItemsStored'
<1>1. SUFFICES ASSUME NEW q \in PageProducers, pagePc'[q] = "checkin"
               PROVE  page'[header'[q]].storage[pageSlot'[q]] = pageItem'[q]
  BY DEF ItemsStored
<1>2. pagePc[q] = "checkin" /\ header'[q] = header[q] /\ pageSlot'[q] = pageSlot[q] /\ pageItem'[q] = pageItem[q]
  BY <1>1
<1>3. PICK i \in 1 .. n : header[q] = c[i]
  BY <1>2 DEF PagesAt, InPage, Inside
<1>4. page'[header[q]].storage = page[header[q]].storage
  BY <1>3 DEF SameSlots
<1> QED
  BY <1>2, <1>4 DEF ItemsStored

\* Steps that publish nothing, pop nothing and leave the list as it is.
LEMMA SpreadKept ==
    ASSUME NEW n, NEW c, NEW o, NEW e, Spread(n, c, o, e), SameSlots(n, c), pagePopped' = pagePopped,
           pageRpc' = "store" <=> pageRpc = "store"
    PROVE  Spread(n, c, o, e)'
<1>1. ASSUME NEW i \in 1 .. n PROVE PageSpread(page[c[i]], MovedOf(i), e[i - 1], e[i], o)'
  <2>1. PageSpread(page[c[i]], MovedOf(i), e[i - 1], e[i], o)
    BY DEF Spread
  <2>2. MovedOf(i)' = MovedOf(i)
    BY DEF MovedOf
  <2>3. /\ page'[c[i]].readi = page[c[i]].readi /\ page'[c[i]].readendi = page[c[i]].readendi
        /\ page'[c[i]].capacity = page[c[i]].capacity /\ page'[c[i]].storage = page[c[i]].storage
    BY DEF SameSlots
  <2> QED
    BY <2>1, <2>2, <2>3 DEF PageSpread, SlotAt
<1> QED
  BY <1>1 DEF Spread

\* So a step that publishes and pops nothing keeps the order.
LEMMA QuietStep ==
    ASSUME NEW n, NEW c, PagesAt(n, c), NEW o, NEW e, OrderAt(n, c, o, e), SameSlots(n, c),
           UNCHANGED <<pagePopped, pagePushed>>, pageRpc' = "store" <=> pageRpc = "store", ItemsPushed', ItemsStored', NEW p,
           \A q \in PageProducers \ {p} : pagePc'[q] = pagePc[q] /\ header'[q] = header[q] /\ pageItem'[q] = pageItem[q],
           Inside(p)' => \/ header'[p] = write_header
                         \/ Inside(p) /\ header'[p] = header[p] /\ pageItem'[p] = pageItem[p]
    PROVE  OrderAt(n, c, o, e)'
<1>1. Spread(n, c, o, e)' /\ OutKept(e[n], o)'
  BY SpreadKept DEF OrderAt, OutKept
<1>2. ASSUME NEW q \in PageProducers, NEW i \in 1 .. n, Inside(q)', header'[q] = c[i]
      PROVE  \A y \in e[i] + 1 .. e[n] : \A k \in 1 .. pageItem'[q].after : pagePushed'[k] # o[y]
  <2>1. CASE q = p /\ header'[p] = write_header
    <3>1. i = n /\ n \in Nat /\ n > 0
      BY <1>2, <2>1 DEF PagesAt, Listing
    <3>2. e[n] \in Nat
      BY <3>1 DEF OrderAt, Spread
    <3> QED
      BY <3>1, <3>2
  <2>2. CASE ~ (q = p /\ header'[p] = write_header)
    <3>1. Inside(q) /\ header'[q] = header[q] /\ pageItem'[q] = pageItem[q]
      BY <1>2, <2>2 DEF Inside
    <3> QED
      BY <1>2, <3>1 DEF OrderAt, InFront
  <2> QED
    BY <2>1, <2>2
<1>3. InFront(n, c, o, e)'
  BY <1>2 DEF InFront
<1> QED
  BY <1>1, <1>3 DEF OrderAt

\* try_emplace is called: the item is numbered.
LEMMA LoadHeaderOrders ==
    ASSUME NEW n, NEW c, PagesAt(n, c), NEW o, NEW e, OrderAt(n, c, o, e), NEW p \in PageProducers, LoadHeader(p)
    PROVE  OrderAt(n, c, o, e)'
<1>1. /\ pagePc[p] = "idle" /\ pageIssued' = pageIssued + 1 /\ pageIssued \in Nat /\ Len(pagePushed) \in Nat
      /\ pagePushed \in Seq(PageItem)
      /\ pageItem' = [pageItem EXCEPT ![p] = [number |-> pageIssued', after |-> Len(pagePushed)]]
      /\ header' = [header EXCEPT ![p] = write_header] /\ pagePc' = [pagePc EXCEPT ![p] = "load_writei"]
      /\ UNCHANGED <<page, pageSlot, pageRpc, pagePushed, pagePopped>>
  BY DEF LoadHeader, consumerVars, PagesAt, PagesTyped
<1>2. /\ \A q \in PageProducers \ {p} : pagePc'[q] = pagePc[q] /\ header'[q] = header[q] /\ pageItem'[q] = pageItem[q]
      /\ pagePc'[p] = "load_writei" /\ header'[p] = write_header
      /\ pageItem'[p].number = pageIssued + 1 /\ pageItem'[p].after = Len(pagePushed)
  BY <1>1 DEF PagesAt, PagesTyped
<1>3. SameSlots(n, c)
  BY <1>1 DEF SameSlots
<1>4. ASSUME NEW k \in 1 .. Len(pagePushed) PROVE pagePushed[k].number \in Nat /\ pagePushed[k].number <= pageIssued
  <2>1. pagePushed[k] \in PageItem
    BY <1>1
  <2> QED
    BY <2>1 DEF OrderAt, ItemsPushed, PageItem
<1>5. \A q \in PageProducers : pagePc[q] # "idle" => pageItem[q].number \in Nat /\ pageItem[q].number <= pageIssued
  BY DEF OrderAt, ItemsPushed, PagesAt, InPage, PageItem
<1>6. ItemsPushed'
  <2>1. ASSUME NEW q \in PageProducers, pagePc'[q] # "idle"
        PROVE  /\ pageItem'[q].number <= pageIssued' /\ pageItem'[q].after <= Len(pagePushed')
               /\ \A k \in 1 .. Len(pagePushed') : pagePushed'[k].number # pageItem'[q].number
               /\ \A r \in PageProducers \ {q} : pagePc'[r] # "idle" => pageItem'[r].number # pageItem'[q].number
    <3>1. CASE q = p
      BY <3>1, <1>1, <1>2, <1>4, <1>5
    <3>2. CASE q # p
      <4>1. /\ pagePc[q] # "idle" /\ pageItem'[q] = pageItem[q] /\ pageItem[q].number \in Nat /\ pageItem[q].number <= pageIssued
        BY <3>2, <2>1, <1>2, <1>5
      <4>2. /\ pageItem[q].after <= Len(pagePushed)
            /\ \A k \in 1 .. Len(pagePushed) : pagePushed[k].number # pageItem[q].number
            /\ \A r \in PageProducers \ {q} : pagePc[r] # "idle" => pageItem[r].number # pageItem[q].number
        BY <4>1 DEF OrderAt, ItemsPushed
      <4> QED
        BY <4>1, <4>2, <3>2, <1>1, <1>2
    <3> QED
      BY <3>1, <3>2
  <2>2. \A k \in 1 .. Len(pagePushed') : pagePushed'[k].number <= pageIssued'
    BY <1>1, <1>4
  <2> QED
    BY <2>1, <2>2 DEF ItemsPushed
<1>7. ItemsStored'
  <2>1. \A q \in PageProducers : pagePc'[q] = "checkin" =>
          pagePc[q] = "checkin" /\ header'[q] = header[q] /\ pageSlot'[q] = pageSlot[q] /\ pageItem'[q] = pageItem[q]
    BY <1>1, <1>2
  <2> QED
    BY <2>1, <1>3, StoredKept DEF OrderAt
<1> QED
  BY <1>1, <1>2, <1>3, <1>6, <1>7, QuietStep

\* What p does in its page, or when it leaves it, publishes nothing.
LEMMA QuietProducer ==
    ASSUME NEW n, NEW c, PagesAt(n, c), NEW o, NEW e, OrderAt(n, c, o, e), SameSlots(n, c), NEW p \in PageProducers,
           pagePc[p] # "idle",
           \A q \in PageProducers \ {p} :
               pagePc'[q] = pagePc[q] /\ header'[q] = header[q] /\ pageSlot'[q] = pageSlot[q] /\ pageItem'[q] = pageItem[q],
           pagePc'[p] # "checkin", pagePc'[p] = "idle" \/ pageItem'[p] = pageItem[p],
           Inside(p)' => header'[p] = write_header \/ (Inside(p) /\ header'[p] = header[p]),
           UNCHANGED <<pageIssued, pagePushed, pagePopped, pageRpc>>
    PROVE  OrderAt(n, c, o, e)'
<1>1. ItemsPushed'
  <2>1. \A q \in PageProducers : pagePc'[q] # "idle" => pagePc[q] # "idle" /\ pageItem'[q] = pageItem[q]
    OBVIOUS
  <2> QED
    BY <2>1, ItemsKept DEF OrderAt
<1>2. ItemsStored'
  <2>1. \A q \in PageProducers : pagePc'[q] = "checkin" =>
          pagePc[q] = "checkin" /\ header'[q] = header[q] /\ pageSlot'[q] = pageSlot[q] /\ pageItem'[q] = pageItem[q]
    OBVIOUS
  <2> QED
    BY <2>1, StoredKept DEF OrderAt
<1>3. \A q \in PageProducers \ {p} : pagePc'[q] = pagePc[q] /\ header'[q] = header[q] /\ pageItem'[q] = pageItem[q]
  OBVIOUS
<1>4. Inside(p)' => \/ header'[p] = write_header
                    \/ Inside(p) /\ header'[p] = header[p] /\ pageItem'[p] = pageItem[p]
  BY DEF Inside
<1>5. UNCHANGED <<pagePopped, pagePushed>> /\ (pageRpc' = "store" <=> pageRpc = "store")
  OBVIOUS
<1> QED
  BY ONLY <1>1, <1>2, <1>3, <1>4, <1>5, QuietStep, PagesAt(n, c), OrderAt(n, c, o, e), SameSlots(n, c)

\* A search, and a try_emplace that fails.
LEMMA SearchOrders ==
    ASSUME NEW n, NEW c, PagesAt(n, c), NEW o, NEW e, OrderAt(n, c, o, e), NEW p \in PageProducers,
           PageLoadWritei(p) \/ PageLoadReadi(p) \/ PageCasWriteiFails(p) \/ AllocateFails(p)
    PROVE  OrderAt(n, c, o, e)'
<1>1. /\ pagePc[p] # "idle" /\ Inside(p) /\ pagePc'[p] # "checkin"
      /\ \A q \in PageProducers \ {p} :
           pagePc'[q] = pagePc[q] /\ header'[q] = header[q] /\ pageSlot'[q] = pageSlot[q] /\ pageItem'[q] = pageItem[q]
      /\ pagePc'[p] = "idle" \/ (pageItem'[p] = pageItem[p] /\ header'[p] = header[p])
      /\ UNCHANGED <<page, write_header, pageIssued, pagePushed, pagePopped, pageRpc>>
  <2> USE DEF consumerVars, Inside, PagesAt, PagesTyped
  <2>1. CASE PageLoadWritei(p)
    BY <2>1 DEF PageLoadWritei
  <2>2. CASE PageLoadReadi(p)
    <3>1. pagePc'[p] # "checkin" /\ \A q \in PageProducers \ {p} : pagePc'[q] = pagePc[q]
      BY <2>2 DEF PageLoadReadi
    <3> QED
      BY <2>2, <3>1 DEF PageLoadReadi
  <2>3. CASE PageCasWriteiFails(p)
    BY <2>3 DEF PageCasWriteiFails
  <2>4. CASE AllocateFails(p)
    BY <2>4 DEF AllocateFails, Returns
  <2> QED
    BY <2>1, <2>2, <2>3, <2>4
<1>2. SameSlots(n, c)
  BY <1>1 DEF SameSlots
<1>3. Inside(p)' => header'[p] = write_header \/ (Inside(p) /\ header'[p] = header[p])
  BY <1>1 DEF Inside
<1> QED
  BY <1>1, <1>2, <1>3, QuietProducer

\* A slot is claimed.
LEMMA PageCasWriteiOrders ==
    ASSUME NEW n, NEW c, PagesAt(n, c), NEW o, NEW e, OrderAt(n, c, o, e), NEW p \in PageProducers, PageCasWritei(p)
    PROVE  OrderAt(n, c, o, e)'
<1>1. /\ pagePc[p] # "idle" /\ Inside(p) /\ pagePc'[p] # "checkin"
      /\ \A q \in PageProducers \ {p} :
           pagePc'[q] = pagePc[q] /\ header'[q] = header[q] /\ pageSlot'[q] = pageSlot[q] /\ pageItem'[q] = pageItem[q]
      /\ header' = header /\ pageItem' = pageItem
      /\ UNCHANGED <<pageIssued, pagePushed, pagePopped, pageRpc>>
  BY DEF PageCasWritei, consumerVars, Inside, PagesAt, PagesTyped
<1>2. SameSlots(n, c)
  <2>1. PICK i \in 1 .. n : header[p] = c[i]
    BY DEF PagesAt, InPage, Inside, PageCasWritei
  <2>2. page[c[i]] \in Headers
    BY DEF PagesAt, Listing, SoundPage
  <2>3. page' = [page EXCEPT ![c[i]] = [page[c[i]] EXCEPT !.writei = pageNext[p]]]
    BY <2>1 DEF PageCasWritei
  <2>4. ASSUME NEW j \in 1 .. n
        PROVE  /\ page'[c[j]].readi = page[c[j]].readi /\ page'[c[j]].readendi = page[c[j]].readendi
               /\ page'[c[j]].capacity = page[c[j]].capacity /\ page'[c[j]].storage = page[c[j]].storage
    <3>1. c[j] \in DOMAIN page
      BY DEF PagesAt, Listing, Pages
    <3>2. CASE c[j] = c[i]
      BY <3>1, <3>2, <2>2, <2>3 DEF Headers
    <3>3. CASE c[j] # c[i]
      BY <3>1, <3>3, <2>3
    <3> QED
      BY <3>2, <3>3
  <2> QED
    BY <2>4 DEF SameSlots
<1>3. Inside(p)' => header'[p] = write_header \/ (Inside(p) /\ header'[p] = header[p])
  BY <1>1
<1> QED
  BY <1>1, <1>2, <1>3, QuietProducer

\* A page is allocated.
LEMMA AllocateOrders ==
    ASSUME NoPage \notin Headers, NEW n, NEW c, PagesAt(n, c), NEW o, NEW e, OrderAt(n, c, o, e), NEW p \in PageProducers,
           Allocate(p)
    PROVE  OrderAt(n, c, o, e)'
<1>1. /\ pagePc[p] # "idle" /\ pagePc'[p] = "cas_header"
      /\ \A q \in PageProducers \ {p} :
           pagePc'[q] = pagePc[q] /\ header'[q] = header[q] /\ pageSlot'[q] = pageSlot[q] /\ pageItem'[q] = pageItem[q]
      /\ pageItem' = pageItem /\ Live # Pages
      /\ UNCHANGED <<pageIssued, pagePushed, pagePopped, pageRpc>>
  BY DEF Allocate, consumerVars, PagesAt, PagesTyped
<1>2. SameSlots(n, c)
  <2>1. ASSUME NEW i \in 1 .. n PROVE page'[c[i]] = page[c[i]]
    <3>1. c[i] \in Live /\ Address \notin Live
      BY <1>1, AddressFree, PagesLive
    <3>2. c[i] \in DOMAIN page
      BY DEF PagesAt, Listing, Pages
    <3> QED
      BY <3>1, <3>2 DEF Allocate
  <2> QED
    BY <2>1 DEF SameSlots
<1>3. Inside(p)' => header'[p] = write_header \/ (Inside(p) /\ header'[p] = header[p])
  BY <1>1 DEF Inside
<1> QED
  BY <1>1, <1>2, <1>3, QuietProducer

\* A page is deallocated, because another producer has put one in front.
LEMMA CasHeaderFailsOrders ==
    ASSUME NoPage \notin Headers, NEW n, NEW c, PagesAt(n, c), NEW o, NEW e, OrderAt(n, c, o, e), NEW p \in PageProducers,
           CasHeader(p), write_header # header[p]
    PROVE  OrderAt(n, c, o, e)'
<1>1. /\ pagePc[p] = "cas_header" /\ (\A i \in 1 .. n : c[i] # fresh[p])
      /\ UNCHANGED <<pageSlot, pageItem, pageIssued, pagePushed, pagePopped, pageRpc>>
      /\ \A q \in PageProducers \ {p} : pagePc'[q] = pagePc[q] /\ header'[q] = header[q]
      /\ pagePc'[p] = "load_writei" /\ header'[p] = write_header'
  BY CasHeaderParts
<1>2. page' = [page EXCEPT ![fresh[p]] = NoPage] /\ write_header' = write_header
  BY DEF CasHeader
<1>3. SameSlots(n, c)
  <2>1. ASSUME NEW i \in 1 .. n PROVE page'[c[i]] = page[c[i]]
    BY <1>1, <1>2 DEF PagesAt, Listing, Pages
  <2> QED
    BY <2>1 DEF SameSlots
<1> QED
  BY <1>1, <1>2, <1>3, QuietProducer

\* The steps of the consumer before it moves an item out.
LEMMA QuietConsumer ==
    ASSUME NEW n, NEW c, PagesAt(n, c), NEW o, NEW e, OrderAt(n, c, o, e), PopLoad \/ PopOldest \/ PagePopCheck
    PROVE  OrderAt(n, c, o, e)'
<1> USE DEF pageProducerVars
<1>1. /\ UNCHANGED <<page, write_header, pagePc, header, pageSlot, pageItem, pageIssued, pagePushed, pagePopped>>
      /\ pageRpc # "store" /\ pageRpc' # "store"
  BY DEF PopLoad, PopOldest, PagePopCheck
<1>2. SameSlots(n, c)
  BY <1>1 DEF SameSlots
<1>3. ItemsPushed' /\ ItemsStored'
  BY <1>1 DEF OrderAt, ItemsPushed, ItemsStored
<1>4. PICK p : p \notin PageProducers
  BY NoSetContainsEverything
<1>5. Spread(n, c, o, e)' /\ OutKept(e[n], o)'
  BY <1>1, <1>2, SpreadKept DEF OrderAt, OutKept
<1>6. InFront(n, c, o, e)'
  BY <1>1 DEF OrderAt, InFront, Inside
<1> QED
  BY <1>3, <1>5, <1>6 DEF OrderAt

\* A new page is put in front: it has nothing yet.
LEMMA CasHeaderOrders ==
    ASSUME NoPage \notin Headers, NEW n, NEW c, PagesAt(n, c), NEW o, NEW e, OrderAt(n, c, o, e), NEW p \in PageProducers,
           CasHeader(p), write_header = header[p], NEW d, d = [j \in 1 .. n + 1 |-> IF j = n + 1 THEN fresh[p] ELSE c[j]],
           NEW f, f = [j \in 0 .. n + 1 |-> IF j = n + 1 THEN e[n] ELSE e[j]]
    PROVE  OrderAt(n + 1, d, o, f)'
<1>1. /\ pagePc[p] = "cas_header" /\ page' = page
      /\ UNCHANGED <<pageSlot, pageItem, pageIssued, pagePushed, pagePopped, pageRpc>>
      /\ \A q \in PageProducers \ {p} : pagePc'[q] = pagePc[q] /\ header'[q] = header[q]
      /\ pagePc'[p] = "load_writei" /\ header'[p] = fresh[p] /\ \A i \in 1 .. n : c[i] # fresh[p]
  <2>1. page' = page /\ write_header' = fresh[p]
    BY DEF CasHeader
  <2> QED
    BY <2>1, CasHeaderParts
<1>2. /\ n \in Nat /\ n + 1 \in Nat /\ n + 1 > 0 /\ d[n + 1] = fresh[p]
      /\ \A i \in 1 .. n : d[i] = c[i] /\ i # n + 1
      /\ \A j \in 1 .. n + 1 : j = n + 1 \/ j \in 1 .. n
  BY DEF PagesAt, Listing
<1>3. /\ f[n + 1] = e[n] /\ \A j \in 0 .. n : f[j] = e[j]
      /\ e \in [0 .. n -> Nat] /\ f \in [0 .. n + 1 -> Nat]
  BY <1>2 DEF OrderAt, Spread
<1>4. PageSpread(page'[d[n + 1]], MovedOf(n + 1)', e[n], e[n], o)
  <2>1. page[fresh[p]].readi = 0 /\ page[fresh[p]].readendi = 0
    BY <1>1 DEF PagesAt, PagesFresh, FreshPage
  <2>2. MovedOf(n + 1)' = 0
    BY <1>1, <1>2 DEF MovedOf, PagesAt, PagesConsumer
  <2>3. e[n] \in Nat
    BY <1>2, <1>3
  <2>4. Lap(page[fresh[p]].readi, page[fresh[p]].readendi, page[fresh[p]].capacity) = 0
    BY <2>1 DEF Lap
  <2> QED
    BY <2>1, <2>2, <2>3, <2>4, <1>1, <1>2 DEF PageSpread
<1>5. ASSUME NEW i \in 1 .. n + 1 PROVE PageSpread(page'[d[i]], MovedOf(i)', f[i - 1], f[i], o)
  <2>1. CASE i = n + 1
    <3>1. f[i] = e[n] /\ f[i - 1] = e[n] /\ d[i] = d[n + 1]
      BY <2>1, <1>2, <1>3
    <3> QED
      BY <2>1, <3>1, <1>4
  <2>2. CASE i \in 1 .. n
    <3>1. PageSpread(page[c[i]], MovedOf(i), e[i - 1], e[i], o) /\ d[i] = c[i] /\ f[i] = e[i] /\ f[i - 1] = e[i - 1]
      BY <2>2, <1>2, <1>3 DEF OrderAt, Spread
    <3>2. MovedOf(i)' = MovedOf(i)
      BY <1>1 DEF MovedOf
    <3> QED
      BY <3>1, <3>2, <1>1
  <2> QED
    BY <2>1, <2>2, <1>2
<1>6. Spread(n + 1, d, o, f)'
  <2>1. \A i, j \in 0 .. n + 1 : i <= j => f[i] <= f[j]
    <3>1. ASSUME NEW i \in 0 .. n + 1, NEW j \in 0 .. n + 1, i <= j PROVE f[i] <= f[j]
      <4> DEFINE a(k) == IF k = n + 1 THEN n ELSE k
      <4>1. a(i) \in 0 .. n /\ a(j) \in 0 .. n /\ a(i) <= a(j) /\ f[i] = e[a(i)] /\ f[j] = e[a(j)]
        BY <3>1, <1>2, <1>3
      <4> HIDE DEF a
      <4> QED
        BY <4>1 DEF OrderAt, Spread
    <3> QED
      BY <3>1
  <2>2. pagePopped' = [x \in 1 .. f[0] |-> o[x]] /\ o \in [1 .. f[n + 1] -> PageItem]
    BY <1>1, <1>2, <1>3 DEF OrderAt, Spread
  <2> QED
    BY <2>1, <2>2, <1>3, <1>5 DEF Spread
<1>7. OutKept(f[n + 1], o)'
  <2>1. OutKept(e[n], o)'
    BY <1>1 DEF OrderAt, OutKept
  <2> QED
    BY <2>1, <1>3
<1>8. ItemsPushed' /\ ItemsStored'
  <2>1. \A q \in PageProducers : pagePc'[q] # "idle" => pagePc[q] # "idle" /\ pageItem'[q] = pageItem[q]
    BY <1>1
  <2>2. ItemsPushed'
    BY <2>1, <1>1, ItemsKept DEF OrderAt
  <2>3. SameSlots(n, c)
    BY <1>1 DEF SameSlots
  <2>4. \A q \in PageProducers : pagePc'[q] = "checkin" =>
          pagePc[q] = "checkin" /\ header'[q] = header[q] /\ pageSlot'[q] = pageSlot[q] /\ pageItem'[q] = pageItem[q]
    BY <1>1
  <2>5. ItemsStored'
    BY <2>3, <2>4, StoredKept DEF OrderAt
  <2> QED
    BY <2>2, <2>5
<1>9. ASSUME NEW q \in PageProducers, NEW i \in 1 .. n + 1, Inside(q)', header'[q] = d[i]
      PROVE  \A y \in f[i] + 1 .. f[n + 1] : \A k \in 1 .. pageItem'[q].after : pagePushed'[k] # o[y]
  <2>1. CASE i = n + 1
    BY <2>1, <1>2, <1>3
  <2>2. CASE i \in 1 .. n
    <3>1. q # p /\ Inside(q) /\ header[q] = c[i] /\ f[i] = e[i]
      BY <2>2, <1>1, <1>2, <1>3, <1>9 DEF Inside
    <3> QED
      BY <2>2, <3>1, <1>1, <1>3 DEF OrderAt, InFront
  <2> QED
    BY <2>1, <2>2, <1>2
<1>10. InFront(n + 1, d, o, f)'
  BY <1>9 DEF InFront
<1> QED
  BY <1>6, <1>7, <1>8, <1>10 DEF OrderAt

\* A step in one page of the list, which keeps the items that it has.
LEMMA SpreadOne ==
    ASSUME NEW n, NEW c, NEW o, NEW e, Spread(n, c, o, e), NEW i \in 1 .. n, pagePopped' = pagePopped,
           PageSpread(page'[c[i]], MovedOf(i)', e[i - 1], e[i], o),
           \A j \in 1 .. n : j # i => page'[c[j]] = page[c[j]] /\ MovedOf(j)' = MovedOf(j)
    PROVE  Spread(n, c, o, e)'
<1>1. ASSUME NEW j \in 1 .. n PROVE PageSpread(page'[c[j]], MovedOf(j)', e[j - 1], e[j], o)
  <2>1. CASE j = i
    BY <2>1
  <2>2. CASE j # i
    BY <2>2 DEF Spread
  <2> QED
    BY <2>1, <2>2
<1> QED
  BY <1>1 DEF Spread

\* What a page says of its items, and that a page of the list does.
LEMMA SpreadParts ==
    ASSUME NEW n, NEW c, Listing(n, c), NEW o, NEW e, Spread(n, c, o, e), NEW i \in 1 .. n
    PROVE  /\ e[i - 1] \in Nat /\ e[i] \in Nat /\ e[i - 1] <= e[i] /\ e[i] <= e[n] /\ e[0] <= e[i] /\ e[0] \in Nat
           /\ e[n] \in Nat /\ n \in Nat /\ SoundPage(page[c[i]])
           /\ PageSpread(page[c[i]], MovedOf(i), e[i - 1], e[i], o) /\ MovedOf(i) \in {0, 1}
<1>1. n \in Nat /\ SoundPage(page[c[i]])
  BY DEF Listing
<1>2. 0 \in 0 .. n /\ i - 1 \in 0 .. n /\ i \in 0 .. n /\ n \in 0 .. n /\ i - 1 <= i /\ i <= n /\ 0 <= i
  BY <1>1
<1>3. e[i - 1] \in Nat /\ e[i] \in Nat /\ e[i - 1] <= e[i] /\ e[i] <= e[n] /\ e[0] <= e[i] /\ e[n] \in Nat /\ e[0] \in Nat
  BY <1>2 DEF Spread
<1>4. PageSpread(page[c[i]], MovedOf(i), e[i - 1], e[i], o) /\ MovedOf(i) \in {0, 1}
  BY DEF Spread, MovedOf
<1> QED
  BY <1>1, <1>3, <1>4

\* A slot that is not published may be written to.
LEMMA WrittenSpread ==
    ASSUME NEW Q, SoundPage(Q), NEW moved \in {0, 1}, NEW a \in Nat, NEW b \in Nat, NEW o, PageSpread(Q, moved, a, b, o),
           NEW s \in 0 .. Q.capacity - 1, Lap(Q.readi, Q.readendi, Q.capacity) <= Lap(Q.readi, s, Q.capacity),
           NEW P, P.capacity = Q.capacity, P.readi = Q.readi, P.readendi = Q.readendi,
           \A r \in 0 .. Q.capacity - 1 : r # s => P.storage[r] = Q.storage[r]
    PROVE  PageSpread(P, moved, a, b, o)
<1>1. /\ Q.capacity \in Nat /\ Q.readi \in 0 .. Q.capacity - 1
      /\ Lap(Q.readi, Q.readendi, Q.capacity) \in 0 .. Q.capacity - 1
  BY PageParts
<1>2. b + moved = a + Lap(Q.readi, Q.readendi, Q.capacity)
  BY DEF PageSpread
<1>3. ASSUME NEW j \in 1 .. b - a PROVE P.storage[SlotAt(P, moved + j - 1)] = o[a + j]
  <2>1. moved + j - 1 \in 0 .. Q.capacity - 1 /\ moved + j - 1 < Lap(Q.readi, Q.readendi, Q.capacity)
    BY <1>1, <1>2
  <2>2. /\ SlotAt(Q, moved + j - 1) \in 0 .. Q.capacity - 1
        /\ Lap(Q.readi, SlotAt(Q, moved + j - 1), Q.capacity) = moved + j - 1
    BY <2>1, SlotLap
  <2>3. Lap(Q.readi, s, Q.capacity) \in Nat
    BY <1>1, LapType
  <2>4. SlotAt(Q, moved + j - 1) # s
    BY <2>1, <2>2, <2>3, <1>1
  <2>5. SlotAt(P, moved + j - 1) = SlotAt(Q, moved + j - 1)
    BY DEF SlotAt
  <2>6. Q.storage[SlotAt(Q, moved + j - 1)] = o[a + j]
    BY DEF PageSpread
  <2> QED
    BY <2>2, <2>4, <2>5, <2>6
<1> QED
  BY <1>2, <1>3 DEF PageSpread

\* The item is constructed: it is where it will be read.
LEMMA PageConstructOrders ==
    ASSUME NEW n, NEW c, PagesAt(n, c), NEW o, NEW e, OrderAt(n, c, o, e), NEW p \in PageProducers, PageConstruct(p)
    PROVE  OrderAt(n, c, o, e)'
<1> DEFINE Q == page[header[p]]
<1>1. /\ pagePc[p] = "construct" /\ Inside(p) /\ Claimed(p) /\ InPage(p, n, c) /\ pagePc' = [pagePc EXCEPT ![p] = "checkin"]
      /\ UNCHANGED <<header, pageSlot, pageItem, pageRpc, pageIssued, pagePushed, pagePopped>>
  BY DEF PageConstruct, Inside, Claimed, PagesAt, consumerVars
<1>2. header[p] # Empty /\ pageSlot[p] < Q.capacity /\ pageItem[p] \in PageItem
  BY <1>1 DEF InPage
<1>3. PICK i \in 1 .. n : header[p] = c[i]
  BY <1>1, <1>2, PageOf DEF PagesAt
<1>4. SoundPage(Q) /\ Q.capacity \in Nat /\ pageSlot[p] \in 0 .. Q.capacity - 1 /\ Between(Q, pageSlot[p])
  <2>1. SoundPage(Q)
    BY <1>3 DEF PagesAt, Listing
  <2>2. Q.capacity \in Nat /\ pageSlot[p] \in Nat
    BY <2>1, PageParts DEF PagesAt, PagesTyped
  <2> QED
    BY <2>1, <2>2, <1>1, <1>2 DEF PagesAt, PagesClaimed
<1>5. PICK P : P = [Q EXCEPT !.storage[pageSlot[p]] = pageItem[p]]
  OBVIOUS
<1>6. /\ P.capacity = Q.capacity /\ P.readi = Q.readi /\ P.readendi = Q.readendi /\ P.storage[pageSlot[p]] = pageItem[p]
      /\ \A r \in 0 .. Q.capacity - 1 : r # pageSlot[p] => P.storage[r] = Q.storage[r]
  <2>1. PICK s, x : s = pageSlot[p] /\ x = pageItem[p]
    OBVIOUS
  <2>2. SoundPage(Q) /\ s \in 0 .. Q.capacity - 1 /\ x \in PageItem \cup {NoPage} /\ P = [Q EXCEPT !.storage[s] = x]
    BY <2>1, <1>2, <1>4, <1>5
  <2> HIDE DEF Q
  <2>3. P.capacity = Q.capacity /\ P.readi = Q.readi /\ P.readendi = Q.readendi
    BY <2>2, StorageWritten
  <2>4. P.storage[s] = x
    <3>1. Q \in Headers /\ Q.storage \in [0 .. Q.capacity - 1 -> PageItem \cup {NoPage}]
      BY <2>2 DEF SoundPage
    <3>2. P.storage = [Q.storage EXCEPT ![s] = x]
      BY <3>1, <2>2 DEF Headers
    <3> QED
      BY <3>1, <3>2, <2>2
  <2>5. \A r \in 0 .. Q.capacity - 1 : r # s => P.storage[r] = Q.storage[r]
    BY <2>2, StorageWritten
  <2> QED
    BY <2>1, <2>3, <2>4, <2>5
<1>7. page'[c[i]] = P /\ \A j \in 1 .. n : j # i => page'[c[j]] = page[c[j]]
  <2>1. page' = [page EXCEPT ![c[i]] = P]
    BY <1>3, <1>5 DEF PageConstruct
  <2> QED
    BY <2>1 DEF PagesAt, Listing, Pages
<1>8. Spread(n, c, o, e)'
  <2>1. /\ e[i - 1] \in Nat /\ e[i] \in Nat /\ MovedOf(i) \in {0, 1} /\ PageSpread(Q, MovedOf(i), e[i - 1], e[i], o)
    BY <1>3, SpreadParts DEF PagesAt, OrderAt
  <2>2. PageSpread(P, MovedOf(i), e[i - 1], e[i], o)
    <3>1. Lap(Q.readi, Q.readendi, Q.capacity) <= Lap(Q.readi, pageSlot[p], Q.capacity)
      BY <1>4 DEF Between
    <3> HIDE DEF Q
    <3> QED
      BY <2>1, <3>1, <1>4, <1>6, WrittenSpread
  <2>3. \A j \in 1 .. n : MovedOf(j)' = MovedOf(j)
    BY <1>1 DEF MovedOf
  <2> QED
    BY <2>2, <2>3, <1>1, <1>7, SpreadOne DEF OrderAt
<1>9. \A q \in PageProducers : q # p => pagePc'[q] = pagePc[q]
  BY <1>1 DEF PagesAt, PagesTyped
<1>10. ItemsPushed' /\ OutKept(e[n], o)'
  <2>1. \A q \in PageProducers : pagePc'[q] # "idle" => pagePc[q] # "idle" /\ pageItem'[q] = pageItem[q]
    BY <1>1, <1>9
  <2> QED
    BY <2>1, <1>1, ItemsKept DEF OrderAt, OutKept
<1>11. ItemsStored'
  <2>1. ASSUME NEW q \in PageProducers, pagePc'[q] = "checkin" PROVE page'[header[q]].storage[pageSlot[q]] = pageItem[q]
    <3>1. CASE q = p
      BY <3>1, <1>3, <1>6, <1>7
    <3>2. CASE q # p
      <4>1. pagePc[q] = "checkin" /\ Claimed(q) /\ page[header[q]].storage[pageSlot[q]] = pageItem[q]
        BY <3>2, <2>1, <1>9 DEF OrderAt, ItemsStored, Claimed
      <4>2. PICK j \in 1 .. n : header[q] = c[j]
        BY <4>1 DEF PagesAt, InPage, Inside
      <4>3. CASE j # i
        BY <4>1, <4>2, <4>3, <1>7
      <4>4. CASE j = i
        <5>1. pageSlot[q] # pageSlot[p]
          BY <3>2, <4>1, <4>2, <4>4, <1>1, <1>3 DEF PagesAt, PagesClaimed
        <5>2. pageSlot[q] \in 0 .. Q.capacity - 1
          BY <4>1, <4>2, <4>4, <1>3, <1>4 DEF PagesAt, PagesTyped, InPage
        <5> QED
          BY <4>1, <4>2, <4>4, <5>1, <5>2, <1>3, <1>6, <1>7
      <4> QED
        BY <4>3, <4>4
    <3> QED
      BY <3>1, <3>2
  <2> QED
    BY <2>1, <1>1 DEF ItemsStored
<1>12. InFront(n, c, o, e)'
  <2>1. \A q \in PageProducers : Inside(q)' => Inside(q)
    BY <1>1, <1>9 DEF Inside
  <2> QED
    BY <2>1, <1>1 DEF OrderAt, InFront
<1> QED
  BY <1>8, <1>10, <1>11, <1>12 DEF OrderAt

\* The consumer moves out the item that is next.
LEMMA PagePopMoveOrders ==
    ASSUME NEW n, NEW c, PagesAt(n, c), NEW o, NEW e, OrderAt(n, c, o, e), PagePopMove,
           NEW f, f = [i \in 0 .. n |-> IF i = 0 THEN e[0] + 1 ELSE e[i]]
    PROVE  OrderAt(n, c, o, f)'
<1> USE DEF pageProducerVars
<1> DEFINE Q == page[c[1]]
<1>1. /\ pageRpc = "move" /\ n > 0 /\ n \in Nat /\ read_header = c[1] /\ Q.readi # Q.readendi /\ pageRpc' = "store" /\ 1 \in 1 .. n
      /\ page' = [page EXCEPT ![c[1]].storage[Q.readi] = NoPage] /\ pagePopped' = Append(pagePopped, Q.storage[Q.readi])
      /\ UNCHANGED <<pagePc, header, pageSlot, pageItem, pageIssued, pagePushed>>
  <2>1. n > 0 /\ n \in Nat /\ read_header = c[1] /\ Q.readi # Q.readendi /\ 1 \in 1 .. n
    BY DEF PagePopMove, PagesAt, PagesConsumer, Listing
  <2> QED
    BY <2>1 DEF PagePopMove
<1>2. /\ e[0] \in Nat /\ e[1] \in Nat /\ e[1] <= e[n] /\ e[n] \in Nat /\ SoundPage(Q) /\ PageSpread(Q, MovedOf(1), e[0], e[1], o)
  <2>1. 1 - 1 = 0
    OBVIOUS
  <2> QED
    BY <2>1, <1>1, SpreadParts DEF PagesAt, OrderAt
<1>3. MovedOf(1) = 0 /\ MovedOf(1)' = 1 /\ \A j \in 1 .. n : j # 1 => MovedOf(j)' = 0 /\ MovedOf(j) = 0
  BY <1>1 DEF MovedOf
<1>4. /\ Q.capacity \in Nat /\ Q.readi \in 0 .. Q.capacity - 1
      /\ Lap(Q.readi, Q.readendi, Q.capacity) \in 0 .. Q.capacity - 1 /\ Lap(Q.readi, Q.readendi, Q.capacity) > 0
  <2>1. /\ Q.capacity \in Nat /\ Q.readi \in 0 .. Q.capacity - 1 /\ Q.readendi \in 0 .. Q.capacity - 1
        /\ Lap(Q.readi, Q.readendi, Q.capacity) \in 0 .. Q.capacity - 1
    BY <1>2, PageParts
  <2>2. Lap(Q.readi, Q.readendi, Q.capacity) # 0
    BY <2>1, <1>1, LapType
  <2> QED
    BY <2>1, <2>2
<1>5. e[1] = e[0] + Lap(Q.readi, Q.readendi, Q.capacity) /\ e[0] + 1 <= e[1]
  BY <1>2, <1>3, <1>4 DEF PageSpread
<1>6. PICK P : P = [Q EXCEPT !.storage[Q.readi] = NoPage]
  OBVIOUS
<1>7. /\ P.capacity = Q.capacity /\ P.readi = Q.readi /\ P.readendi = Q.readendi
      /\ \A r \in 0 .. Q.capacity - 1 : r # Q.readi => P.storage[r] = Q.storage[r]
  <2> HIDE DEF Q
  <2> QED
    BY <1>2, <1>4, <1>6, StorageWritten
<1>8. page'[c[1]] = P /\ \A j \in 1 .. n : j # 1 => page'[c[j]] = page[c[j]]
  <2>1. page' = [page EXCEPT ![c[1]] = P]
    BY <1>1, <1>6
  <2> QED
    BY <2>1, <1>1 DEF PagesAt, Listing, Pages
<1>9. Q.storage[Q.readi] = o[e[0] + 1]
  <2>1. SlotAt(Q, MovedOf(1) + 1 - 1) = Q.readi /\ 1 \in 1 .. e[1] - e[0]
    BY <1>2, <1>3, <1>4, <1>5 DEF SlotAt
  <2> QED
    BY <2>1, <1>2 DEF PageSpread
<1>10. PageSpread(P, 1, e[0] + 1, e[1], o)
  <2>1. e[1] + 1 = e[0] + 1 + Lap(P.readi, P.readendi, P.capacity)
    BY <1>2, <1>4, <1>5, <1>7
  <2>2. ASSUME NEW j \in 1 .. e[1] - (e[0] + 1) PROVE P.storage[SlotAt(P, 1 + j - 1)] = o[e[0] + 1 + j]
    <3>1. j + 1 \in 1 .. e[1] - e[0] /\ 0 + (j + 1) - 1 = j /\ 1 + j - 1 = j /\ e[0] + (j + 1) = e[0] + 1 + j
      BY <1>2
    <3>2. Q.storage[SlotAt(Q, j)] = o[e[0] + 1 + j]
      BY <3>1, <1>2, <1>3 DEF PageSpread
    <3>3. j \in 0 .. Q.capacity - 1 /\ j # 0
      BY <1>2, <1>4, <1>5
    <3>4. SlotAt(Q, j) \in 0 .. Q.capacity - 1 /\ Lap(Q.readi, SlotAt(Q, j), Q.capacity) = j
      BY <3>3, <1>2, SlotLap
    <3>5. SlotAt(Q, j) # Q.readi
      BY <3>3, <3>4, <1>4, LapType
    <3>6. SlotAt(P, j) = SlotAt(Q, j)
      BY <1>7 DEF SlotAt
    <3> QED
      BY <3>1, <3>2, <3>4, <3>5, <3>6, <1>7
  <2> QED
    BY <2>1, <2>2 DEF PageSpread
<1>11. /\ f[0] = e[0] + 1 /\ (\A i \in 1 .. n : f[i] = e[i]) /\ f \in [0 .. n -> Nat]
       /\ e \in [0 .. n -> Nat] /\ o \in [1 .. e[n] -> PageItem] /\ f[n] = e[n]
  <2>1. e \in [0 .. n -> Nat] /\ o \in [1 .. e[n] -> PageItem]
    BY DEF OrderAt, Spread
  <2> QED
    BY <2>1, <1>1
<1>12. Spread(n, c, o, f)'
  <2>1. ASSUME NEW i \in 0 .. n, NEW j \in 0 .. n, i <= j PROVE f[i] <= f[j]
    <3>1. \A k \in 1 .. n : e[0] + 1 <= e[k]
      <4>1. ASSUME NEW k \in 1 .. n PROVE e[1] <= e[k]
        <5>1. 1 \in 0 .. n /\ k \in 0 .. n /\ 1 <= k
          BY <1>1
        <5> QED
          BY <5>1 DEF OrderAt, Spread
      <4>2. \A k \in 1 .. n : e[k] \in Nat
        BY <1>11
      <4> QED
        BY <4>1, <4>2, <1>2, <1>5
    <3>2. CASE i = 0 /\ j = 0
      BY <3>2, <1>2, <1>11
    <3>3. CASE i = 0 /\ j # 0
      BY <3>1, <3>3, <1>11
    <3>4. CASE i # 0
      <4>1. i \in 1 .. n /\ j \in 1 .. n
        BY <2>1, <3>4, <1>1
      <4> QED
        BY <2>1, <4>1, <1>11 DEF OrderAt, Spread
    <3> QED
      BY <3>2, <3>3, <3>4
  <2>2. pagePopped' = [x \in 1 .. f[0] |-> o[x]]
    <3>1. pagePopped = [x \in 1 .. e[0] |-> o[x]] /\ pagePopped' = Append(pagePopped, o[e[0] + 1])
      BY <1>1, <1>9 DEF OrderAt, Spread
    <3> QED
      BY ONLY <3>1, <1>2, <1>11
  <2>3. ASSUME NEW i \in 1 .. n PROVE PageSpread(page'[c[i]], MovedOf(i)', f[i - 1], f[i], o)
    <3>1. CASE i = 1
      <4>1. f[i - 1] = e[0] + 1 /\ f[i] = e[1] /\ MovedOf(i)' = 1 /\ page'[c[i]] = P
        BY <3>1, <1>1, <1>3, <1>8, <1>11
      <4> QED
        BY <4>1, <1>10
    <3>2. CASE i # 1
      <4>1. i - 1 \in 1 .. n
        BY <3>2, <1>1
      <4>2. PageSpread(page[c[i]], MovedOf(i), e[i - 1], e[i], o)
        BY DEF OrderAt, Spread
      <4>3. f[i - 1] = e[i - 1] /\ f[i] = e[i] /\ MovedOf(i)' = MovedOf(i) /\ page'[c[i]] = page[c[i]]
        BY <3>2, <4>1, <1>3, <1>8, <1>11
      <4> QED
        BY <4>2, <4>3
    <3> QED
      BY <3>1, <3>2
  <2> QED
    BY <2>1, <2>2, <2>3, <1>11 DEF Spread
<1>13. OutKept(f[n], o)'
  <2>1. OutKept(e[n], o)'
    BY <1>1 DEF OrderAt, OutKept
  <2> QED
    BY <2>1, <1>11
<1>14. ItemsPushed'
  BY <1>1 DEF OrderAt, ItemsPushed
<1>15. ItemsStored'
  <2>1. ASSUME NEW q \in PageProducers, pagePc[q] = "checkin" PROVE page'[header[q]].storage[pageSlot[q]] = pageItem[q]
    <3>1. Claimed(q) /\ page[header[q]].storage[pageSlot[q]] = pageItem[q] /\ Between(page[header[q]], pageSlot[q])
      BY <2>1 DEF OrderAt, ItemsStored, Claimed, PagesAt, PagesClaimed
    <3>2. PICK j \in 1 .. n : header[q] = c[j]
      BY <2>1 DEF PagesAt, InPage, Inside
    <3>3. CASE j # 1
      BY <3>1, <3>2, <3>3, <1>8
    <3>4. CASE j = 1
      <4>1. pageSlot[q] \in 0 .. Q.capacity - 1
        BY <2>1, <3>2, <3>4, <1>4 DEF PagesAt, PagesTyped, InPage
      <4>2. Lap(Q.readi, pageSlot[q], Q.capacity) \in Nat /\ (Lap(Q.readi, pageSlot[q], Q.capacity) = 0 <=> Q.readi = pageSlot[q])
        BY <4>1, <1>4, LapType
      <4>3. Lap(Q.readi, Q.readendi, Q.capacity) <= Lap(Q.readi, pageSlot[q], Q.capacity)
        BY <3>1, <3>2, <3>4 DEF Between
      <4>4. pageSlot[q] # Q.readi
        BY <4>2, <4>3, <1>4
      <4> QED
        BY <3>1, <3>2, <3>4, <4>1, <4>4, <1>7, <1>8
    <3> QED
      BY <3>3, <3>4
  <2> QED
    BY <2>1, <1>1 DEF ItemsStored
<1>16. InFront(n, c, o, f)'
  <2>1. ASSUME NEW q \in PageProducers, NEW i \in 1 .. n, Inside(q)', header'[q] = c[i]
        PROVE  \A y \in f[i] + 1 .. f[n] : \A k \in 1 .. pageItem'[q].after : pagePushed'[k] # o[y]
    <3>1. Inside(q) /\ header[q] = c[i] /\ f[i] = e[i]
      BY <2>1, <1>1, <1>11 DEF Inside
    <3>2. \A y \in e[i] + 1 .. e[n] : \A k \in 1 .. pageItem[q].after : pagePushed[k] # o[y]
      BY <3>1 DEF OrderAt, InFront
    <3> QED
      BY <3>1, <3>2, <1>1, <1>11
  <2> QED
    BY <2>1 DEF InFront
<1> QED
  BY <1>12, <1>13, <1>14, <1>15, <1>16 DEF OrderAt

\* It advances readi_ past it.
LEMMA PagePopStoreOrders ==
    ASSUME NEW n, NEW c, PagesAt(n, c), NEW o, NEW e, OrderAt(n, c, o, e), PagePopStore
    PROVE  OrderAt(n, c, o, e)'
<1> USE DEF pageProducerVars
<1> DEFINE Q == page[c[1]]
           v == page_wrap_reset(Q.readi + 1, Q.capacity)
<1>1. /\ pageRpc = "store" /\ n > 0 /\ n \in Nat /\ read_header = c[1] /\ Q.readi # Q.readendi /\ pageRpc' = "idle" /\ 1 \in 1 .. n
      /\ page' = [page EXCEPT ![c[1]].readi = v]
      /\ UNCHANGED <<pagePc, header, pageSlot, pageItem, pageIssued, pagePushed, pagePopped>>
  <2>1. n > 0 /\ n \in Nat /\ read_header = c[1] /\ Q.readi # Q.readendi /\ 1 \in 1 .. n
    BY DEF PagePopStore, PagesAt, PagesConsumer, Listing
  <2> QED
    BY <2>1 DEF PagePopStore
<1>2. /\ e[0] \in Nat /\ e[1] \in Nat /\ SoundPage(Q) /\ PageSpread(Q, MovedOf(1), e[0], e[1], o)
  <2>1. 1 - 1 = 0
    OBVIOUS
  <2> QED
    BY <2>1, <1>1, SpreadParts DEF PagesAt, OrderAt
<1>3. MovedOf(1) = 1 /\ MovedOf(1)' = 0 /\ \A j \in 1 .. n : j # 1 => MovedOf(j)' = MovedOf(j)
  BY <1>1 DEF MovedOf
<1>4. PICK P : P = [Q EXCEPT !.readi = v]
  OBVIOUS
<1>5. /\ P.capacity = Q.capacity /\ P.readi = v /\ P.readendi = Q.readendi /\ P.storage = Q.storage
      /\ Lap(v, Q.readendi, Q.capacity) = Lap(Q.readi, Q.readendi, Q.capacity) - 1
  <2>1. SoundPage(Q) /\ Q.readi # Q.readendi /\ v = page_wrap_reset(Q.readi + 1, Q.capacity)
    BY <1>1, <1>2
  <2> HIDE DEF Q, v
  <2> QED
    BY <2>1, <1>4, RingPops
<1>6. page'[c[1]] = P /\ \A j \in 1 .. n : j # 1 => page'[c[j]] = page[c[j]]
  <2>1. page' = [page EXCEPT ![c[1]] = P]
    BY <1>1, <1>4
  <2> QED
    BY <2>1, <1>1 DEF PagesAt, Listing, Pages
<1>7. /\ Q.capacity \in Nat /\ Q.readi \in 0 .. Q.capacity - 1
      /\ Lap(Q.readi, Q.readendi, Q.capacity) \in 0 .. Q.capacity - 1
  BY <1>2, PageParts
<1>8. PageSpread(P, 0, e[0], e[1], o)
  <2>1. e[1] + 1 = e[0] + Lap(Q.readi, Q.readendi, Q.capacity)
    BY <1>2, <1>3 DEF PageSpread
  <2>2. ASSUME NEW j \in 1 .. e[1] - e[0] PROVE P.storage[SlotAt(P, 0 + j - 1)] = o[e[0] + j]
    <3>1. Q.storage[SlotAt(Q, j)] = o[e[0] + j]
      <4>1. 1 + j - 1 = j
        BY <1>2
      <4> QED
        BY <4>1, <1>2, <1>3 DEF PageSpread
    <3>2. j \in 1 .. Q.capacity - 1
      BY <2>1, <1>2, <1>7
    <3>3. SlotAt(P, 0 + j - 1) = SlotAt(Q, j)
      BY <3>2, <1>5, <1>7 DEF SlotAt, page_wrap_reset
    <3> QED
      BY <3>1, <3>3, <1>5
  <2>3. e[1] + 0 = e[0] + Lap(P.readi, P.readendi, P.capacity)
    BY <2>1, <1>2, <1>5, <1>7
  <2> QED
    BY <2>2, <2>3 DEF PageSpread
<1>9. Spread(n, c, o, e)'
  <2>1. e[1 - 1] = e[0]
    OBVIOUS
  <2>2. PageSpread(page'[c[1]], MovedOf(1)', e[1 - 1], e[1], o)
    BY <2>1, <1>3, <1>6, <1>8
  <2>3. \A j \in 1 .. n : j # 1 => page'[c[j]] = page[c[j]] /\ MovedOf(j)' = MovedOf(j)
    BY <1>3, <1>6
  <2>4. pagePopped' = pagePopped
    BY <1>1
  <2> QED
    BY <2>2, <2>3, <2>4, <1>1, SpreadOne DEF OrderAt
<1>10. ItemsPushed' /\ OutKept(e[n], o)' /\ InFront(n, c, o, e)'
  <2>1. ItemsPushed'
    BY <1>1 DEF OrderAt, ItemsPushed
  <2>2. OutKept(e[n], o)'
    BY <1>1 DEF OrderAt, OutKept
  <2>3. InFront(n, c, o, e)'
    BY <1>1 DEF OrderAt, InFront, Inside
  <2> QED
    BY <2>1, <2>2, <2>3
<1>11. ItemsStored'
  <2>1. ASSUME NEW q \in PageProducers, pagePc[q] = "checkin" PROVE page'[header[q]].storage[pageSlot[q]] = pageItem[q]
    <3>1. page[header[q]].storage[pageSlot[q]] = pageItem[q]
      BY <2>1 DEF OrderAt, ItemsStored
    <3>2. PICK j \in 1 .. n : header[q] = c[j]
      BY <2>1 DEF PagesAt, InPage, Inside
    <3> QED
      BY <3>1, <3>2, <1>5, <1>6
  <2> QED
    BY <2>1, <1>1 DEF ItemsStored
<1> QED
  BY <1>9, <1>10, <1>11 DEF OrderAt

\* A page is freed that has nothing.
LEMMA PopFreeOrders ==
    ASSUME NoPage \notin Headers, NEW n, NEW c, PagesAt(n, c), NEW o, NEW e, OrderAt(n, c, o, e), PopFree,
           NEW d, d = [i \in 1 .. n - 1 |-> c[i + 1]], NEW f, f = [i \in 0 .. n - 1 |-> e[i + 1]], PagesAt(n - 1, d)'
    PROVE  OrderAt(n - 1, d, o, f)'
<1> USE DEF pageProducerVars
<1>1. /\ pageRpc = "free" /\ n > 1 /\ n \in Nat /\ read_header = c[1] /\ next_header = c[2]
      /\ page[c[1]].readi = page[c[1]].writei /\ pageRpc' = "check" /\ 1 \in 1 .. n /\ 2 \in 1 .. n
      /\ page' = [page EXCEPT ![c[2]].previous = Empty, ![c[1]] = NoPage]
      /\ UNCHANGED <<pagePc, header, pageSlot, pageItem, pageIssued, pagePushed, pagePopped>>
  <2>1. n > 1 /\ n \in Nat /\ read_header = c[1] /\ next_header = c[2] /\ page[c[1]].readi = page[c[1]].writei
    BY DEF PopFree, PagesAt, PagesConsumer, Listing
  <2> QED
    BY <2>1 DEF PopFree
<1>2. \A i \in 1 .. n : MovedOf(i) = 0 /\ MovedOf(i)' = 0
  BY <1>1 DEF MovedOf
<1>3. e[1] = e[0] /\ e[0] \in Nat
  <2>1. /\ e[0] \in Nat /\ e[1] \in Nat /\ SoundPage(page[c[1]]) /\ PageSpread(page[c[1]], MovedOf(1), e[0], e[1], o)
    <3>1. 1 - 1 = 0
      OBVIOUS
    <3> QED
      BY <3>1, <1>1, SpreadParts DEF PagesAt, OrderAt
  <2>2. Lap(page[c[1]].readi, page[c[1]].readendi, page[c[1]].capacity) = 0
    <3>1. /\ page[c[1]].capacity \in Nat /\ page[c[1]].readi \in 0 .. page[c[1]].capacity - 1
          /\ Lap(page[c[1]].readi, page[c[1]].readendi, page[c[1]].capacity) \in 0 .. page[c[1]].capacity - 1
          /\ Lap(page[c[1]].readi, page[c[1]].readendi, page[c[1]].capacity)
               <= Lap(page[c[1]].readi, page[c[1]].writei, page[c[1]].capacity)
      BY <2>1, PageParts
    <3>2. Lap(page[c[1]].readi, page[c[1]].writei, page[c[1]].capacity) = 0
      BY <3>1, <1>1, LapType
    <3> QED
      BY <3>1, <3>2
  <2>3. e[1] + MovedOf(1) = e[0] + Lap(page[c[1]].readi, page[c[1]].readendi, page[c[1]].capacity)
    BY <2>1 DEF PageSpread
  <2> QED
    BY <2>1, <2>2, <2>3, <1>1, <1>2
<1>4. /\ n - 1 \in Nat /\ n - 1 > 0
      /\ \A i \in 0 .. n - 1 : f[i] = e[i + 1] /\ i + 1 \in 1 .. n /\ i + 1 \in 0 .. n
      /\ \A i \in 1 .. n - 1 : d[i] = c[i + 1] /\ i + 1 \in 1 .. n /\ i + 1 # 1 /\ i - 1 \in 0 .. n - 1 /\ i \in 0 .. n - 1
      /\ e \in [0 .. n -> Nat] /\ o \in [1 .. e[n] -> PageItem]
  BY <1>1 DEF OrderAt, Spread
<1>5. f \in [0 .. n - 1 -> Nat] /\ f[0] = e[0] /\ f[n - 1] = e[n]
  BY <1>1, <1>3, <1>4
<1>6. ASSUME NEW i \in 1 .. n, i # 1
      PROVE  /\ page'[c[i]].readi = page[c[i]].readi /\ page'[c[i]].readendi = page[c[i]].readendi
             /\ page'[c[i]].capacity = page[c[i]].capacity /\ page'[c[i]].storage = page[c[i]].storage
  <2>1. c[i] \in DOMAIN page /\ c[i] # c[1] /\ page[c[i]] \in Headers
    <3>1. c[i] \in DOMAIN page
      BY DEF PagesAt, Listing, Pages
    <3>2. c[i] # c[1]
      BY <1>1, <1>6 DEF PagesAt, Listing
    <3>3. SoundPage(page[c[i]])
      BY DEF PagesAt, Listing
    <3> QED
      BY <3>1, <3>2, <3>3 DEF SoundPage
  <2>2. c[1] \in DOMAIN page /\ c[2] \in DOMAIN page
    BY <1>1 DEF PagesAt, Listing, Pages
  <2>3. PICK P : P = [page[c[2]] EXCEPT !.previous = Empty]
    OBVIOUS
  <2>4. page' = [[page EXCEPT ![c[2]] = P] EXCEPT ![c[1]] = NoPage]
    BY <2>3, <1>1
  <2>5. CASE c[i] = c[2]
    <3>1. page'[c[i]] = P
      BY <2>1, <2>2, <2>4, <2>5
    <3> QED
      BY <3>1, <2>1, <2>3, <2>5 DEF Headers
  <2>6. CASE c[i] # c[2]
    BY <2>1, <2>2, <2>4, <2>6
  <2> QED
    BY <2>5, <2>6
<1>7. ASSUME NEW i \in 1 .. n - 1 PROVE PageSpread(page'[d[i]], MovedOf(i)', f[i - 1], f[i], o)
  <2>1. /\ d[i] = c[i + 1] /\ i + 1 \in 1 .. n /\ i + 1 # 1 /\ f[i] = e[i + 1] /\ f[i - 1] = e[i] /\ i \in 1 .. n
        /\ i + 1 - 1 = i /\ i - 1 + 1 = i
    BY <1>1, <1>4
  <2>2. PageSpread(page[c[i + 1]], 0, e[i], e[i + 1], o)
    <3>1. PageSpread(page[c[i + 1]], MovedOf(i + 1), e[i + 1 - 1], e[i + 1], o)
      BY <2>1 DEF OrderAt, Spread
    <3> QED
      BY <3>1, <2>1, <1>2
  <2>3. PageSpread(page'[c[i + 1]], 0, e[i], e[i + 1], o)
    BY <2>1, <2>2, <1>6 DEF PageSpread, SlotAt
  <2> QED
    BY <2>1, <2>3, <1>2
<1>8. Spread(n - 1, d, o, f)'
  <2>1. ASSUME NEW i \in 0 .. n - 1, NEW j \in 0 .. n - 1, i <= j PROVE f[i] <= f[j]
    <3>1. f[i] = e[i + 1] /\ f[j] = e[j + 1] /\ i + 1 \in 0 .. n /\ j + 1 \in 0 .. n /\ i + 1 <= j + 1
      BY <2>1, <1>4
    <3> QED
      BY <3>1 DEF OrderAt, Spread
  <2>2. pagePopped' = [x \in 1 .. f[0] |-> o[x]] /\ o \in [1 .. f[n - 1] -> PageItem]
    BY <1>1, <1>4, <1>5 DEF OrderAt, Spread
  <2> QED
    BY <2>1, <2>2, <1>5, <1>7 DEF Spread
<1>9. OutKept(f[n - 1], o)'
  <2>1. OutKept(e[n], o)'
    BY <1>1 DEF OrderAt, OutKept
  <2> QED
    BY <2>1, <1>5
<1>10. ItemsPushed'
  BY <1>1 DEF OrderAt, ItemsPushed
<1>11. ASSUME NEW q \in PageProducers, Inside(q), header[q] # Empty
       PROVE  \E i \in 1 .. n - 1 : header[q] = d[i]
  <2>1. InPage(q, n - 1, d)' /\ Inside(q)'
    BY <1>1, <1>11 DEF PagesAt, Inside
  <2> QED
    BY <2>1, <1>1, <1>11 DEF InPage
<1>12. ItemsStored'
  <2>1. ASSUME NEW q \in PageProducers, pagePc[q] = "checkin" PROVE page'[header[q]].storage[pageSlot[q]] = pageItem[q]
    <3>1. page[header[q]].storage[pageSlot[q]] = pageItem[q]
      BY <2>1 DEF OrderAt, ItemsStored
    <3>2. PICK i \in 1 .. n - 1 : header[q] = d[i]
      BY <2>1, <1>11 DEF PagesAt, InPage, Inside
    <3>3. header[q] = c[i + 1] /\ i + 1 \in 1 .. n /\ i + 1 # 1
      BY <3>2, <1>4
    <3> QED
      BY <3>1, <3>3, <1>6
  <2> QED
    BY <2>1, <1>1 DEF ItemsStored
<1>13. InFront(n - 1, d, o, f)'
  <2>1. ASSUME NEW q \in PageProducers, NEW i \in 1 .. n - 1, Inside(q)', header'[q] = d[i]
        PROVE  \A y \in f[i] + 1 .. f[n - 1] : \A k \in 1 .. pageItem'[q].after : pagePushed'[k] # o[y]
    <3>1. Inside(q) /\ header[q] = c[i + 1] /\ f[i] = e[i + 1] /\ i + 1 \in 1 .. n
      BY <2>1, <1>1, <1>4 DEF Inside
    <3>2. \A y \in e[i + 1] + 1 .. e[n] : \A k \in 1 .. pageItem[q].after : pagePushed[k] # o[y]
      BY <3>1 DEF OrderAt, InFront
    <3> QED
      BY <3>1, <3>2, <1>1, <1>5
  <2> QED
    BY <2>1 DEF InFront
<1> QED
  BY <1>8, <1>9, <1>10, <1>12, <1>13 DEF OrderAt

\* x is put into o behind the first a items, which makes page m and the newer ones end one later.
Put(o, a, x, l) == [y \in 1 .. l + 1 |-> IF y <= a THEN o[y] ELSE IF y = a + 1 THEN x ELSE o[y - 1]]
Later(e, m, n) == [i \in 0 .. n |-> IF i < m THEN e[i] ELSE e[i] + 1]

\* What Put does to the numbers of the items in front of it and behind it.
LEMMA PutIs ==
    ASSUME NEW l \in Nat, NEW a \in 0 .. l, NEW o, NEW x
    PROVE  /\ \A y \in 1 .. a : Put(o, a, x, l)[y] = o[y]
           /\ Put(o, a, x, l)[a + 1] = x
           /\ \A y \in a + 1 .. l : Put(o, a, x, l)[y + 1] = o[y]
  BY DEF Put

\* Everything in it is x or was there.
LEMMA PutFrom ==
    ASSUME NEW l \in Nat, NEW a \in 0 .. l, NEW o, NEW x, NEW y \in 1 .. l + 1
    PROVE  \/ y <= a /\ y \in 1 .. l /\ Put(o, a, x, l)[y] = o[y]
           \/ y = a + 1 /\ Put(o, a, x, l)[y] = x
           \/ y > a + 1 /\ y - 1 \in 1 .. l /\ y - 1 > a /\ Put(o, a, x, l)[y] = o[y - 1]
  BY DEF Put

\* An item is published: what comes out has it behind the rest of its page.
LEMMA OutPublished ==
    ASSUME NEW l \in Nat, NEW a \in 0 .. l, NEW o \in [1 .. l -> PageItem], OutKept(l, o), NEW x \in PageItem,
           pagePushed \in Seq(PageItem), pagePushed' = Append(pagePushed, x), x.after <= l,
           \A k \in 1 .. l : pagePushed[k].number # x.number,
           \A y \in a + 1 .. l : \A k \in 1 .. x.after : pagePushed[k] # o[y]
    PROVE  OutKept(l + 1, Put(o, a, x, l))'
<1> DEFINE w == Put(o, a, x, l)
<1>1. /\ l = Len(pagePushed) /\ l + 1 = Len(pagePushed') /\ pagePushed'[l + 1] = x
      /\ \A k \in 1 .. l : pagePushed'[k] = pagePushed[k] /\ k \in 1 .. l + 1
      /\ \A k \in 1 .. l + 1 : k = l + 1 \/ k \in 1 .. l
  BY DEF OutKept
<1>2. ASSUME NEW y \in 1 .. l + 1
      PROVE  \/ y <= a /\ y \in 1 .. l /\ w[y] = o[y]
             \/ y = a + 1 /\ w[y] = x
             \/ y > a + 1 /\ y - 1 \in 1 .. l /\ y - 1 > a /\ w[y] = o[y - 1]
  BY PutFrom
<1>3. /\ \A y \in 1 .. a : w[y] = o[y] /\ y \in 1 .. l + 1
      /\ w[a + 1] = x /\ a + 1 \in 1 .. l + 1
      /\ \A y \in a + 1 .. l : w[y + 1] = o[y] /\ y + 1 \in 1 .. l + 1
  BY PutIs
<1> HIDE DEF w
<1>4. ASSUME NEW y \in 1 .. l + 1 PROVE \E k \in 1 .. l + 1 : w[y] = pagePushed'[k]
  <2>1. CASE w[y] = x
    BY <2>1, <1>1
  <2>2. CASE \E z \in 1 .. l : w[y] = o[z]
    BY <2>2, <1>1 DEF OutKept
  <2> QED
    BY <2>1, <2>2, <1>2
<1>5. ASSUME NEW k \in 1 .. l + 1 PROVE \E y \in 1 .. l + 1 : w[y] = pagePushed'[k]
  <2>1. CASE k = l + 1
    BY <2>1, <1>1, <1>3
  <2>2. CASE k \in 1 .. l
    <3>1. PICK z \in 1 .. l : o[z] = pagePushed[k]
      BY <2>2 DEF OutKept
    <3>2. CASE z <= a
      <4>1. z \in 1 .. a
        BY <3>2
      <4> QED
        BY <4>1, <3>1, <2>2, <1>1, <1>3
    <3>3. CASE ~ (z <= a)
      <4>1. z \in a + 1 .. l
        BY <3>3
      <4> QED
        BY <4>1, <3>1, <2>2, <1>1, <1>3
    <3> QED
      BY <3>2, <3>3
  <2> QED
    BY <2>1, <2>2, <1>1
<1>6. ASSUME NEW z \in 1 .. l PROVE o[z].after \in Nat /\ o[z].after <= l /\ o[z] \in PageItem
  <2>1. o[z] \in PageItem
    OBVIOUS
  <2> QED
    BY <2>1 DEF OutKept, PageItem
<1>7. x.after \in Nat
  BY DEF PageItem
<1>8. ASSUME NEW y \in 1 .. l + 1 PROVE w[y].after <= l + 1
  <2>1. CASE w[y] = x
    BY <2>1, <1>7
  <2>2. CASE \E z \in 1 .. l : w[y] = o[z]
    BY <2>2, <1>6
  <2> QED
    BY <2>1, <2>2, <1>2
<1>9. \A u, v \in 1 .. l : u < v => \A k \in 1 .. o[u].after : pagePushed[k] # o[v]
  BY DEF OutKept
<1>10. ASSUME NEW y \in 1 .. l + 1, NEW z \in 1 .. l + 1, y < z, NEW k \in 1 .. w[y].after PROVE pagePushed'[k] # w[z]
  <2>1. k \in 1 .. l
    <3>1. CASE w[y] = x
      BY <3>1, <1>7, <1>10
    <3>2. CASE \E u \in 1 .. l : w[y] = o[u]
      BY <3>2, <1>6, <1>10
    <3> QED
      BY <3>1, <3>2, <1>2
  <2>2. pagePushed'[k] = pagePushed[k]
    BY <2>1, <1>1
  <2>3. CASE w[z] = x
    BY <2>1, <2>2, <2>3
  <2>4. CASE w[z] # x
    <3>1. PICK v \in 1 .. l : w[z] = o[v] /\ (z <= a => v = z) /\ (z > a => v = z - 1 /\ v > a /\ z > a + 1)
      BY <2>4, <1>2
    <3>2. CASE w[y] = x /\ y = a + 1
      <4>1. v \in a + 1 .. l
        BY <3>1, <3>2, <1>10
      <4> QED
        BY <4>1, <3>1, <3>2, <2>2, <1>10
    <3>3. CASE ~ (w[y] = x /\ y = a + 1)
      <4>1. PICK u \in 1 .. l : w[y] = o[u] /\ u < v
        <5>1. CASE y <= a /\ w[y] = o[y] /\ y \in 1 .. l
          BY <5>1, <3>1, <1>10
        <5>2. CASE y > a + 1 /\ y - 1 \in 1 .. l /\ w[y] = o[y - 1]
          BY <5>2, <3>1, <1>10
        <5> QED
          BY <5>1, <5>2, <3>3, <1>2
      <4>2. k \in 1 .. o[u].after
        BY <4>1, <1>10
      <4>3. pagePushed[k] # o[v]
        BY <4>1, <4>2, <1>9
      <4> QED
        BY <4>3, <3>1, <2>2
    <3> QED
      BY <3>2, <3>3
  <2> QED
    BY <2>3, <2>4
<1>11. OutKept(l + 1, w)'
  BY <1>1, <1>4, <1>5, <1>8, <1>10 DEF OutKept
<1> QED
  BY <1>11 DEF w

\* The pages in front of it and behind it have what they had.
LEMMA PutSpread ==
    ASSUME NEW Q, NEW moved \in {0, 1}, NEW a \in Nat, NEW b \in Nat, NEW o, PageSpread(Q, moved, a, b, o),
           Lap(Q.readi, Q.readendi, Q.capacity) \in Nat,
           NEW l \in Nat, NEW s \in 0 .. l, NEW x, b <= l
    PROVE  /\ b <= s => PageSpread(Q, moved, a, b, Put(o, s, x, l))
           /\ s <= a => PageSpread(Q, moved, a + 1, b + 1, Put(o, s, x, l))
<1> DEFINE w == Put(o, s, x, l)
<1>1. /\ \A y \in 1 .. s : w[y] = o[y]
      /\ \A y \in s + 1 .. l : w[y + 1] = o[y]
  BY PutIs
<1> HIDE DEF w
<1>2. b + moved = a + Lap(Q.readi, Q.readendi, Q.capacity) /\ b + 1 + moved = a + 1 + Lap(Q.readi, Q.readendi, Q.capacity)
  <2>1. b + moved = a + Lap(Q.readi, Q.readendi, Q.capacity)
    BY DEF PageSpread
  <2>2. PICK L \in Nat : L = Lap(Q.readi, Q.readendi, Q.capacity)
    OBVIOUS
  <2>3. moved \in Nat /\ b + moved = a + L
    BY <2>1, <2>2
  <2>4. b + 1 + moved = a + 1 + L
    BY <2>3
  <2> QED
    BY <2>1, <2>2, <2>4
<1>3. ASSUME b <= s PROVE PageSpread(Q, moved, a, b, w)
  <2>1. ASSUME NEW j \in 1 .. b - a PROVE Q.storage[SlotAt(Q, moved + j - 1)] = w[a + j]
    <3>1. a + j \in 1 .. s
      BY <1>3
    <3>2. Q.storage[SlotAt(Q, moved + j - 1)] = o[a + j]
      BY DEF PageSpread
    <3> QED
      BY <3>1, <3>2, <1>1
  <2> QED
    BY <2>1, <1>2 DEF PageSpread
<1>4. ASSUME s <= a PROVE PageSpread(Q, moved, a + 1, b + 1, w)
  <2>1. ASSUME NEW j \in 1 .. (b + 1) - (a + 1) PROVE Q.storage[SlotAt(Q, moved + j - 1)] = w[a + 1 + j]
    <3>1. a + j \in s + 1 .. l /\ a + 1 + j = a + j + 1 /\ j \in 1 .. b - a
      BY <1>4
    <3>2. Q.storage[SlotAt(Q, moved + j - 1)] = o[a + j]
      BY <3>1 DEF PageSpread
    <3> QED
      BY <3>1, <3>2, <1>1
  <2> QED
    BY <2>1, <1>2 DEF PageSpread
<1> QED
  BY <1>3, <1>4 DEF w

\* And its own has one more.
LEMMA PublishedSpread ==
    ASSUME NEW Q, SoundPage(Q), NEW moved \in {0, 1}, NEW a \in Nat, NEW b \in Nat, a <= b, NEW o, PageSpread(Q, moved, a, b, o),
           NEW l \in Nat, b <= l, NEW P, P.capacity = Q.capacity, P.readi = Q.readi, P.storage = Q.storage,
           Lap(P.readi, P.readendi, P.capacity) = Lap(Q.readi, Q.readendi, Q.capacity) + 1
    PROVE  PageSpread(P, moved, a, b + 1, Put(o, b, Q.storage[Q.readendi], l))
<1> DEFINE w == Put(o, b, Q.storage[Q.readendi], l)
<1>1. (\A y \in 1 .. b : w[y] = o[y]) /\ w[b + 1] = Q.storage[Q.readendi]
  BY PutIs
<1> HIDE DEF w
<1>2. /\ Q.capacity \in Nat /\ Q.readi \in 0 .. Q.capacity - 1 /\ Q.readendi \in 0 .. Q.capacity - 1
      /\ Lap(Q.readi, Q.readendi, Q.capacity) \in 0 .. Q.capacity - 1
  BY PageParts
<1>3. b + moved = a + Lap(Q.readi, Q.readendi, Q.capacity)
  BY DEF PageSpread
<1>4. \A j : SlotAt(P, j) = SlotAt(Q, j)
  BY DEF SlotAt
<1>5. ASSUME NEW j \in 1 .. (b + 1) - a PROVE P.storage[SlotAt(P, moved + j - 1)] = w[a + j]
  <2>1. CASE j \in 1 .. b - a
    <3>1. a + j \in 1 .. b
      BY <2>1
    <3>2. Q.storage[SlotAt(Q, moved + j - 1)] = o[a + j]
      BY <2>1 DEF PageSpread
    <3> QED
      BY <3>1, <3>2, <1>1, <1>4
  <2>2. CASE j = b + 1 - a
    <3>1. a + j = b + 1 /\ moved + j - 1 = Lap(Q.readi, Q.readendi, Q.capacity)
      BY <2>2, <1>2, <1>3
    <3>2. SlotAt(Q, Lap(Q.readi, Q.readendi, Q.capacity)) = Q.readendi
      BY <1>2 DEF SlotAt, Lap
    <3> QED
      BY <3>1, <3>2, <1>1, <1>4
  <2> QED
    BY <2>1, <2>2
<1>6. b + 1 + moved = a + Lap(P.readi, P.readendi, P.capacity)
  BY <1>2, <1>3
<1>7. PageSpread(P, moved, a, b + 1, w)
  BY <1>5, <1>6 DEF PageSpread
<1> QED
  BY <1>7 DEF w

\* An item is published: behind the rest of its page, and in front of the newer pages.
LEMMA PageCheckinOrders ==
    ASSUME NEW n, NEW c, PagesAt(n, c), NEW o, NEW e, OrderAt(n, c, o, e), NEW p \in PageProducers, PageCheckin(p)
    PROVE  \E w, f : OrderAt(n, c, w, f)'
<1> DEFINE Q == page[header[p]]
<1>1. /\ pagePc[p] = "checkin" /\ Inside(p) /\ Claimed(p) /\ InPage(p, n, c) /\ Q.readendi = pageSlot[p]
      /\ pagePc' = [pagePc EXCEPT ![p] = "idle"] /\ header' = [header EXCEPT ![p] = NoPage]
      /\ pageSlot' = [pageSlot EXCEPT ![p] = 0] /\ pageItem' = [pageItem EXCEPT ![p] = NoPage]
      /\ pagePushed' = Append(pagePushed, pageItem[p]) /\ pagePushed \in Seq(PageItem)
      /\ UNCHANGED <<pageRpc, pageIssued, pagePopped>>
  BY DEF PageCheckin, Returns, Inside, Claimed, PagesAt, PagesTyped, consumerVars
<1>2. /\ header[p] # Empty /\ pageItem[p] \in PageItem /\ pageNext[p] = page_wrap_reset(Q.readendi + 1, Q.capacity)
  BY <1>1 DEF InPage
<1>3. PICK i \in 1 .. n : header[p] = c[i]
  BY <1>1, <1>2, PageOf DEF PagesAt
<1>4. SoundPage(Q) /\ Between(Q, Q.readendi) /\ Q.storage[Q.readendi] = pageItem[p]
  <2>1. SoundPage(Q)
    BY <1>3 DEF PagesAt, Listing
  <2>2. Between(Q, Q.readendi)
    BY <1>1 DEF PagesAt, PagesClaimed
  <2>3. Q.storage[Q.readendi] = pageItem[p]
    BY <1>1 DEF OrderAt, ItemsStored
  <2> QED
    BY <2>1, <2>2, <2>3
<1>5. PICK P : P = [Q EXCEPT !.readendi = pageNext[p]]
  OBVIOUS
<1>6. /\ P.capacity = Q.capacity /\ P.readi = Q.readi /\ P.storage = Q.storage
      /\ Lap(P.readi, P.readendi, P.capacity) = Lap(Q.readi, Q.readendi, Q.capacity) + 1
  <2> HIDE DEF Q
  <2> QED
    BY <1>2, <1>4, <1>5, RingPublishes
<1>7. page'[c[i]] = P /\ \A j \in 1 .. n : j # i => page'[c[j]] = page[c[j]]
  <2>1. page' = [page EXCEPT ![c[i]] = P]
    BY <1>3, <1>5 DEF PageCheckin
  <2> QED
    BY <2>1 DEF PagesAt, Listing, Pages
<1>8. /\ \A q \in PageProducers \ {p} :
           pagePc'[q] = pagePc[q] /\ header'[q] = header[q] /\ pageSlot'[q] = pageSlot[q] /\ pageItem'[q] = pageItem[q]
      /\ pagePc'[p] = "idle"
  BY <1>1 DEF PagesAt, PagesTyped
<1>9. PICK x : x = pageItem[p]
  OBVIOUS
<1>10. PICK l : l = e[n]
  OBVIOUS
<1>11. /\ n \in Nat /\ l \in Nat /\ e \in [0 .. n -> Nat] /\ o \in [1 .. l -> PageItem] /\ e[i] \in 0 .. l /\ l = Len(pagePushed)
       /\ \A j \in 0 .. n : e[j] \in Nat /\ e[j] <= l /\ (j <= i => e[j] <= e[i]) /\ (i <= j => e[i] <= e[j])
  <2>1. n \in Nat /\ e \in [0 .. n -> Nat] /\ o \in [1 .. l -> PageItem] /\ l = Len(pagePushed)
    BY <1>10 DEF PagesAt, Listing, OrderAt, Spread, OutKept
  <2>2. i \in 0 .. n /\ n \in 0 .. n
    BY <2>1
  <2>3. \A j \in 0 .. n : e[j] <= e[n] /\ (j <= i => e[j] <= e[i]) /\ (i <= j => e[i] <= e[j])
    BY <2>2 DEF OrderAt, Spread
  <2> QED
    BY <2>1, <2>2, <2>3, <1>10
<1>12. PICK w : w = Put(o, e[i], x, l)
  OBVIOUS
<1>13. PICK f : f = Later(e, i, n)
  OBVIOUS
<1>14. /\ f \in [0 .. n -> Nat] /\ (\A j \in 0 .. n : f[j] = IF j < i THEN e[j] ELSE e[j] + 1) /\ f[0] = e[0] /\ f[n] = l + 1
  <2>1. \A j \in 0 .. n : f[j] = IF j < i THEN e[j] ELSE e[j] + 1
    BY <1>13 DEF Later
  <2>2. \A j \in 0 .. n : (IF j < i THEN e[j] ELSE e[j] + 1) \in Nat
    BY <1>11
  <2>3. f \in [0 .. n -> Nat]
    BY <2>2, <1>13 DEF Later
  <2>4. 0 \in 0 .. n /\ 0 < i /\ n \in 0 .. n /\ ~ (n < i)
    BY <1>11
  <2> QED
    BY <2>1, <2>3, <2>4, <1>10
<1>15. /\ \A y \in 1 .. e[i] : w[y] = o[y]
       /\ w[e[i] + 1] = x
       /\ \A y \in e[i] + 1 .. l : w[y + 1] = o[y]
       /\ w \in [1 .. l + 1 -> PageItem]
  <2>1. w \in [1 .. l + 1 -> PageItem]
    <3>1. ASSUME NEW y \in 1 .. l + 1
          PROVE  (IF y <= e[i] THEN o[y] ELSE IF y = e[i] + 1 THEN x ELSE o[y - 1]) \in PageItem
      <4>1. e[i] \in Nat /\ e[i] <= l /\ l \in Nat /\ x \in PageItem
        BY <1>2, <1>9, <1>11
      <4>2. CASE y <= e[i]
        BY <4>1, <4>2, <1>11
      <4>3. CASE y = e[i] + 1
        BY <4>1, <4>3
      <4>4. CASE y > e[i] + 1
        <5>1. y - 1 \in 1 .. l /\ ~ (y <= e[i]) /\ y # e[i] + 1
          BY <4>1, <4>4
        <5>2. o[y - 1] \in PageItem
          BY <5>1, <1>11
        <5> QED
          BY <5>1, <5>2
      <4> QED
        BY <4>1, <4>2, <4>3, <4>4
    <3> QED
      BY <3>1, <1>12 DEF Put
  <2>2. /\ \A y \in 1 .. e[i] : w[y] = o[y]
        /\ w[e[i] + 1] = x
        /\ \A y \in e[i] + 1 .. l : w[y + 1] = o[y]
    BY <1>11, <1>12, PutIs
  <2> QED
    BY <2>1, <2>2
<1>16. ASSUME NEW j \in 1 .. n PROVE PageSpread(page'[c[j]], MovedOf(j)', f[j - 1], f[j], w)
  <2>1. /\ e[j - 1] \in Nat /\ e[j] \in Nat /\ e[j - 1] <= e[j] /\ e[j] <= l /\ MovedOf(j) \in {0, 1} /\ SoundPage(page[c[j]])
        /\ PageSpread(page[c[j]], MovedOf(j), e[j - 1], e[j], o)
    BY <1>10, SpreadParts DEF PagesAt, OrderAt
  <2>2. MovedOf(j)' = MovedOf(j)
    BY <1>1 DEF MovedOf
  <2>3. Lap(page[c[j]].readi, page[c[j]].readendi, page[c[j]].capacity) \in Nat
    BY <2>1, PageParts
  <2>4. CASE j < i
    <3>1. f[j - 1] = e[j - 1] /\ f[j] = e[j] /\ e[j] <= e[i]
      BY <2>4, <1>11, <1>14
    <3>2. PageSpread(page[c[j]], MovedOf(j), e[j - 1], e[j], w)
      BY <2>1, <2>3, <3>1, <1>11, <1>12, PutSpread
    <3> QED
      BY <3>1, <3>2, <2>2, <2>4, <1>7
  <2>5. CASE j > i
    <3>1. f[j - 1] = e[j - 1] + 1 /\ f[j] = e[j] + 1 /\ e[i] <= e[j - 1]
      <4>1. i <= j - 1 /\ j - 1 \in 0 .. n /\ j \in 0 .. n
        BY <2>5, <1>11
      <4> QED
        BY <4>1, <1>11, <1>14
    <3>2. PageSpread(page[c[j]], MovedOf(j), e[j - 1] + 1, e[j] + 1, w)
      BY <2>1, <2>3, <3>1, <1>11, <1>12, PutSpread
    <3> QED
      BY <3>1, <3>2, <2>2, <2>5, <1>7
  <2>6. CASE j = i
    <3>1. f[j - 1] = e[j - 1] /\ f[j] = e[j] + 1
      BY <2>6, <1>11, <1>14
    <3>2. page[c[j]] = Q
      BY <2>6, <1>3
    <3>3. PageSpread(P, MovedOf(j), e[j - 1], e[j] + 1, Put(o, e[j], Q.storage[Q.readendi], l))
      <4>1. SoundPage(Q) /\ PageSpread(Q, MovedOf(j), e[j - 1], e[j], o)
        BY <2>1, <3>2
      <4> HIDE DEF Q
      <4> QED
        BY <4>1, <2>1, <1>6, <1>11, PublishedSpread
    <3> QED
      BY <3>1, <3>3, <2>2, <2>6, <1>4, <1>7, <1>9, <1>12
  <2> QED
    BY <2>4, <2>5, <2>6, <1>11
<1>17. Spread(n, c, w, f)'
  <2>1. ASSUME NEW j \in 0 .. n, NEW k \in 0 .. n, j <= k PROVE f[j] <= f[k]
    <3>1. e[j] <= e[k]
      BY <2>1 DEF OrderAt, Spread
    <3>2. /\ f[j] = (IF j < i THEN e[j] ELSE e[j] + 1) /\ f[k] = (IF k < i THEN e[k] ELSE e[k] + 1)
          /\ e[j] \in Nat /\ e[k] \in Nat
      BY <1>11, <1>14
    <3> QED
      BY <2>1, <3>1, <3>2
  <2>2. pagePopped' = [y \in 1 .. f[0] |-> w[y]]
    <3>1. pagePopped' = [y \in 1 .. e[0] |-> o[y]]
      BY <1>1 DEF OrderAt, Spread
    <3>2. \A y \in 1 .. e[0] : y \in 1 .. e[i]
      <4>1. e[0] <= e[i] /\ e[0] \in Nat /\ e[i] \in Nat
        BY <1>11
      <4> QED
        BY <4>1
    <3> QED
      BY <3>1, <3>2, <1>14, <1>15
  <2> QED
    BY <2>1, <2>2, <1>14, <1>15, <1>16 DEF Spread
<1>18. /\ x \in PageItem /\ x.after <= l /\ (\A k \in 1 .. l : pagePushed[k].number # x.number)
       /\ \A y \in e[i] + 1 .. l : \A k \in 1 .. x.after : pagePushed[k] # o[y]
  <2>1. x.after <= l /\ (\A k \in 1 .. l : pagePushed[k].number # x.number)
    BY <1>1, <1>9, <1>11 DEF OrderAt, ItemsPushed
  <2>2. \A y \in e[i] + 1 .. l : \A k \in 1 .. x.after : pagePushed[k] # o[y]
    BY <1>1, <1>3, <1>9, <1>10 DEF OrderAt, InFront
  <2> QED
    BY <2>1, <2>2, <1>2, <1>9
<1>19. OutKept(f[n], w)'
  <2>1. OutKept(l, o)
    BY <1>10 DEF OrderAt
  <2>2. OutKept(l + 1, Put(o, e[i], x, l))'
    BY <2>1, <1>1, <1>9, <1>11, <1>18, OutPublished
  <2> QED
    BY <2>2, <1>12, <1>14
<1>20. /\ Len(pagePushed') = l + 1 /\ pagePushed'[l + 1] = x /\ \A k \in 1 .. l : pagePushed'[k] = pagePushed[k]
       /\ \A k \in 1 .. l + 1 : k = l + 1 \/ k \in 1 .. l
  BY <1>1, <1>9, <1>11
<1>21. ItemsPushed'
  <2>1. ASSUME NEW k \in 1 .. Len(pagePushed') PROVE pagePushed'[k].number <= pageIssued'
    <3>1. x.number <= pageIssued /\ \A r \in 1 .. l : pagePushed[r].number <= pageIssued
      BY <1>1, <1>9, <1>11 DEF OrderAt, ItemsPushed
    <3> QED
      BY <3>1, <1>1, <1>20
  <2>2. ASSUME NEW q \in PageProducers, pagePc'[q] # "idle"
        PROVE  /\ pageItem'[q].number <= pageIssued' /\ pageItem'[q].after <= Len(pagePushed')
               /\ \A k \in 1 .. Len(pagePushed') : pagePushed'[k].number # pageItem'[q].number
               /\ \A r \in PageProducers \ {q} : pagePc'[r] # "idle" => pageItem'[r].number # pageItem'[q].number
    <3>1. q # p /\ pagePc[q] # "idle" /\ pageItem'[q] = pageItem[q]
      BY <2>2, <1>8
    <3>2. /\ pageItem[q].number <= pageIssued /\ pageItem[q].after <= l
          /\ \A k \in 1 .. l : pagePushed[k].number # pageItem[q].number
          /\ \A r \in PageProducers \ {q} : pagePc[r] # "idle" => pageItem[r].number # pageItem[q].number
      BY <3>1, <1>11 DEF OrderAt, ItemsPushed
    <3>3. pageItem[q].after \in Nat
      BY <3>1 DEF PagesAt, InPage, PageItem
    <3>4. x.number # pageItem[q].number
      BY <3>1, <3>2, <1>1, <1>9
    <3>5. pageItem[q].after <= l + 1
      BY <3>2, <3>3, <1>11
    <3>6. \A r \in PageProducers \ {q} : pagePc'[r] # "idle" => pageItem'[r].number # pageItem[q].number
      BY <3>2, <1>8
    <3> QED
      BY <3>1, <3>2, <3>4, <3>5, <3>6, <1>1, <1>20
  <2> QED
    BY <2>1, <2>2 DEF ItemsPushed
<1>22. ItemsStored'
  <2>1. ASSUME NEW q \in PageProducers, pagePc'[q] = "checkin" PROVE page'[header'[q]].storage[pageSlot'[q]] = pageItem'[q]
    <3>1. q # p /\ pagePc[q] = "checkin"
      BY <2>1, <1>8
    <3>2. page[header[q]].storage[pageSlot[q]] = pageItem[q]
      BY <3>1 DEF OrderAt, ItemsStored
    <3>3. PICK j \in 1 .. n : header[q] = c[j]
      BY <3>1 DEF PagesAt, InPage, Inside
    <3>4. page'[header[q]].storage = page[header[q]].storage
      BY <3>3, <1>3, <1>6, <1>7
    <3> QED
      BY <3>1, <3>2, <3>4, <1>8
  <2> QED
    BY <2>1 DEF ItemsStored
<1>23. InFront(n, c, w, f)'
  <2>1. ASSUME NEW q \in PageProducers, NEW j \in 1 .. n, Inside(q)', header'[q] = c[j],
               NEW y \in f[j] + 1 .. f[n], NEW k \in 1 .. pageItem'[q].after
        PROVE  pagePushed'[k] # w[y]
    <3>1. q # p /\ Inside(q) /\ header[q] = c[j] /\ pageItem'[q] = pageItem[q] /\ pagePc[q] # "idle"
      BY <2>1, <1>8 DEF Inside
    <3>2. pageItem[q].after \in Nat /\ pageItem[q].after <= l /\ \A r \in 1 .. l : pagePushed[r].number # x.number
      BY <3>1, <1>11, <1>18 DEF PagesAt, InPage, PageItem, OrderAt, ItemsPushed
    <3>3. k \in 1 .. l /\ pagePushed'[k] = pagePushed[k] /\ k \in 1 .. pageItem[q].after
      BY <3>1, <3>2, <1>11, <1>20
    <3>4. \A z \in e[j] + 1 .. l : pagePushed[k] # o[z]
      BY <3>1, <3>3, <1>10 DEF OrderAt, InFront
    <3>5. y \in 1 .. l + 1 /\ f[j] \in Nat /\ e[j] \in Nat /\ f[j] = (IF j < i THEN e[j] ELSE e[j] + 1)
      BY <1>11, <1>14
    <3>6. CASE y <= e[i]
      <4>1. y \in e[j] + 1 .. l /\ y \in 1 .. e[i]
        BY <3>5, <3>6, <1>11
      <4> QED
        BY <4>1, <3>3, <3>4, <1>15
    <3>7. CASE y = e[i] + 1
      BY <3>2, <3>3, <3>7, <1>15
    <3>8. CASE y > e[i] + 1
      <4>1. y - 1 \in e[i] + 1 .. l /\ y - 1 + 1 = y /\ y - 1 \in e[j] + 1 .. l
        <5>1. j < i => e[j] <= e[i]
          BY <1>11
        <5> QED
          BY <5>1, <3>5, <3>8, <1>11
      <4> QED
        BY <4>1, <3>3, <3>4, <1>15
    <3>9. e[i] \in Nat /\ y \in Nat
      BY <3>5, <1>11
    <3> QED
      BY <3>6, <3>7, <3>8, <3>9
  <2> QED
    BY <2>1 DEF InFront
<1>24. OrderAt(n, c, w, f)'
  BY <1>17, <1>19, <1>21, <1>22, <1>23 DEF OrderAt
<1> QED
  BY <1>24

\* Every step keeps the order, for the list that it leaves.
LEMMA OrderStep ==
    ASSUME NoPage \notin Headers, NEW n, NEW c, PagesAt(n, c), NEW o, NEW e, OrderAt(n, c, o, e), PagePromptNext, alive'
    PROVE  \E m, d, w, f : PagesAt(m, d)' /\ OrderAt(m, d, w, f)'
<1>1. NoStalePage' /\ NoStalePageClaim' /\ PageNext
  BY DEF PagePromptNext
<1>2. ~ Destruct
  BY DEF Destruct
<1>3. CASE PopFree
  <2>1. PICK d : d = [i \in 1 .. n - 1 |-> c[i + 1]]
    OBVIOUS
  <2>2. PICK f : f = [i \in 0 .. n - 1 |-> e[i + 1]]
    OBVIOUS
  <2>3. PagesAt(n - 1, d)'
    BY <1>1, <1>3, <2>1, PopFreeKeeps
  <2>4. OrderAt(n - 1, d, o, f)'
    BY <1>3, <2>1, <2>2, <2>3, PopFreeOrders
  <2> QED
    BY <2>3, <2>4
<1>4. CASE PopLoad \/ PopOldest \/ PagePopCheck
  <2>1. PagesAt(n, c)'
    BY <1>1, <1>4, PopLoadKeeps, PopOldestKeeps, PagePopCheckKeeps
  <2>2. OrderAt(n, c, o, e)'
    BY <1>4, QuietConsumer
  <2> QED
    BY <2>1, <2>2
<1>5. CASE PagePopMove
  <2>1. PICK f : f = [i \in 0 .. n |-> IF i = 0 THEN e[0] + 1 ELSE e[i]]
    OBVIOUS
  <2>2. PagesAt(n, c)' /\ OrderAt(n, c, o, f)'
    BY <1>1, <1>5, <2>1, PagePopMoveKeeps, PagePopMoveOrders
  <2> QED
    BY <2>2
<1>6. CASE PagePopStore
  <2>1. PagesAt(n, c)' /\ OrderAt(n, c, o, e)'
    BY <1>1, <1>6, PagePopStoreKeeps, PagePopStoreOrders
  <2> QED
    BY <2>1
<1>7. ASSUME NEW p \in PageProducers, PageProducer(p) PROVE \E m, d, w, f : PagesAt(m, d)' /\ OrderAt(m, d, w, f)'
  <2>1. CASE CasHeader(p) /\ write_header = header[p]
    <3>1. PICK d : d = [j \in 1 .. n + 1 |-> IF j = n + 1 THEN fresh[p] ELSE c[j]]
      OBVIOUS
    <3>2. PICK f : f = [j \in 0 .. n + 1 |-> IF j = n + 1 THEN e[n] ELSE e[j]]
      OBVIOUS
    <3>3. PagesAt(n + 1, d)'
      BY <1>1, <2>1, <3>1, CasHeaderKeeps
    <3>4. OrderAt(n + 1, d, o, f)'
      BY <2>1, <3>1, <3>2, CasHeaderOrders
    <3> QED
      BY <3>3, <3>4
  <2>2. CASE CasHeader(p) /\ write_header # header[p]
    <3>1. PagesAt(n, c)' /\ OrderAt(n, c, o, e)'
      BY <1>1, <2>2, CasHeaderFailsKeeps, CasHeaderFailsOrders
    <3> QED
      BY <3>1
  <2>3. CASE LoadHeader(p)
    <3>1. PagesAt(n, c)' /\ OrderAt(n, c, o, e)'
      BY <1>1, <2>3, LoadHeaderKeeps, LoadHeaderOrders
    <3> QED
      BY <3>1
  <2>4. CASE PageLoadWritei(p) \/ PageLoadReadi(p) \/ PageCasWriteiFails(p) \/ AllocateFails(p)
    <3>1. PagesAt(n, c)'
      BY <1>1, <2>4, SearchKeeps, AllocateFailsKeeps
    <3>2. OrderAt(n, c, o, e)'
      BY <2>4, SearchOrders
    <3> QED
      BY <3>1, <3>2
  <2>5. CASE PageCasWritei(p) \/ Allocate(p) \/ PageConstruct(p)
    <3>1. PagesAt(n, c)'
      BY <1>1, <2>5, PageCasWriteiKeeps, AllocateKeeps, PageConstructKeeps
    <3>2. OrderAt(n, c, o, e)'
      BY <2>5, PageCasWriteiOrders, AllocateOrders, PageConstructOrders
    <3> QED
      BY <3>1, <3>2
  <2>6. CASE PageCheckin(p)
    <3>1. PagesAt(n, c)'
      BY <1>1, <2>6, PageCheckinKeeps
    <3>2. \E w, f : OrderAt(n, c, w, f)'
      BY <2>6, PageCheckinOrders
    <3> QED
      BY <3>1, <3>2
  <2> QED
    BY <1>7, <2>1, <2>2, <2>3, <2>4, <2>5, <2>6 DEF PageProducer
<1> QED
  BY <1>1, <1>2, <1>3, <1>4, <1>5, <1>6, <1>7 DEF PageNext, PageConsumer

\* At first nothing is pushed.
LEMMA OrderAtFirst ==
    ASSUME NoPage \notin Headers, PageInit, NEW n, NEW c, PagesAt(n, c)
    PROVE  \E o, e : OrderAt(n, c, o, e)
<1> USE DEF PageInit
<1>1. PICK o : o = [x \in 1 .. 0 |-> NoPage]
  OBVIOUS
<1>2. PICK e : e = [i \in 0 .. n |-> 0]
  OBVIOUS
<1>3. n \in Nat /\ e \in [0 .. n -> Nat] /\ (\A i \in 0 .. n : e[i] = 0) /\ n \in 0 .. n /\ 0 \in 0 .. n
  BY <1>2 DEF PagesAt, Listing
<1>4. ASSUME NEW i \in 1 .. n PROVE PageSpread(page[c[i]], MovedOf(i), e[i - 1], e[i], o)
  <2>1. c[i] \in Pages /\ page[c[i]] # NoPage
    <3>1. c[i] \in Live
      BY PagesLive
    <3> QED
      BY <3>1 DEF Live
  <2>2. page[c[i]].readi = 0 /\ page[c[i]].readendi = 0
    <3>1. c[i] \in 0 .. MaxPages
      BY <2>1 DEF Pages
    <3> QED
      BY <2>1, <3>1 DEF Header
  <2>3. Lap(page[c[i]].readi, page[c[i]].readendi, page[c[i]].capacity) = 0 /\ MovedOf(i) = 0
    BY <2>2 DEF Lap, MovedOf
  <2>4. i \in 0 .. n /\ i - 1 \in 0 .. n
    BY <1>3
  <2>5. e[i] = 0 /\ e[i - 1] = 0
    BY <1>3, <2>4
  <2> QED
    BY <2>3, <2>5 DEF PageSpread
<1>5. Spread(n, c, o, e)
  <2>1. o \in [1 .. e[n] -> PageItem] /\ pagePopped = [x \in 1 .. e[0] |-> o[x]]
    BY <1>1, <1>3
  <2> QED
    BY <1>3, <1>4, <2>1 DEF Spread
<1>6. OutKept(e[n], o)
  BY <1>3 DEF OutKept
<1>7. ItemsPushed /\ ItemsStored /\ InFront(n, c, o, e)
  BY DEF ItemsPushed, ItemsStored, InFront, Inside
<1> QED
  BY <1>5, <1>6, <1>7 DEF OrderAt

\* Of a slot less than two laps from the first one.
LEMMA SlotModulo ==
    ASSUME NEW m \in Nat, m > 0, NEW a \in 0 .. m + m - 1
    PROVE  a % m = IF a < m THEN a ELSE a - m
<1>1. CASE a < m
  BY <1>1
<1>2. CASE ~ (a < m)
  BY <1>2
<1> QED
  BY <1>1, <1>2

\* The elements of a sequence after the a-th and up to the b-th.
PartOf(o, a, b) == [x \in 1 .. b - a |-> o[a + x]]
InParts(o, a, b, d, l) ==
    a \in Nat /\ b \in Nat /\ d \in Nat /\ l \in Nat /\ a <= b /\ b <= d /\ d <= l /\ o \in [1 .. l -> PageItem]

\* What try_pop has not moved out of a page.
LEMMA UnreadIs ==
    ASSUME NEW n, NEW c, PagesAt(n, c), NEW o, NEW e, OrderAt(n, c, o, e), NEW i \in 1 .. n
    PROVE  Unread(c[i]) = PartOf(o, e[i - 1], e[i])
<1>1. PICK P : P = page[c[i]]
  OBVIOUS
<1>2. PICK moved : moved = MovedOf(i)
  OBVIOUS
<1>3. PICK L : L = Lap(P.readi, P.readendi, P.capacity)
  OBVIOUS
<1>4. SoundPage(P) /\ PageSpread(P, moved, e[i - 1], e[i], o) /\ moved \in {0, 1} /\ e[i - 1] \in Nat /\ e[i] \in Nat
      /\ e[i - 1] <= e[i]
  BY <1>1, <1>2, SpreadParts DEF PagesAt, OrderAt
<1>5. P.capacity \in Nat /\ P.readi \in 0 .. P.capacity - 1 /\ P.readendi \in 0 .. P.capacity - 1 /\ L \in 0 .. P.capacity - 1
  BY <1>3, <1>4, PageParts
<1>6. moved = IF pageRpc = "store" /\ read_header = c[i] THEN 1 ELSE 0
  <2>1. pageRpc = "store" => read_header = c[1] /\ 1 \in 1 .. n
    BY DEF PagesAt, PagesConsumer, Listing
  <2>2. \A j \in 1 .. n : c[i] = c[j] => i = j
    BY DEF PagesAt, Listing
  <2> QED
    BY <2>1, <2>2, <1>2 DEF MovedOf
<1>7. L = IF P.readi <= P.readendi THEN P.readendi - P.readi ELSE P.capacity - P.readi + P.readendi
  BY <1>3 DEF Lap
<1>8. L - moved = e[i] - e[i - 1]
  <2>1. e[i] + moved = e[i - 1] + L
    BY <1>3, <1>4 DEF PageSpread
  <2> QED
    BY <2>1, <1>4, <1>5
<1>9. Unread(c[i]) = [x \in 1 .. L - moved |-> P.storage[(P.readi + moved + x - 1) % P.capacity]]
  BY <1>1, <1>6, <1>7 DEF Unread
<1>10. ASSUME NEW x \in 1 .. e[i] - e[i - 1]
       PROVE  P.storage[(P.readi + moved + x - 1) % P.capacity] = o[e[i - 1] + x]
  <2>1. P.storage[SlotAt(P, moved + x - 1)] = o[e[i - 1] + x]
    BY <1>4 DEF PageSpread
  <2>2. moved + x - 1 \in 0 .. P.capacity - 1
    BY <1>4, <1>5, <1>8
  <2>3. PICK y : y = P.readi + (moved + x - 1)
    OBVIOUS
  <2>4. y \in 0 .. P.capacity + P.capacity - 1 /\ P.capacity > 0 /\ P.readi + moved + x - 1 = y
    BY <2>2, <2>3, <1>4, <1>5
  <2>5. y % P.capacity = IF y < P.capacity THEN y ELSE y - P.capacity
    BY <2>4, <1>5, SlotModulo
  <2>6. SlotAt(P, moved + x - 1) = IF y < P.capacity THEN y ELSE y - P.capacity
    <3>1. PICK z : z = moved + x - 1
      OBVIOUS
    <3>2. y = P.readi + z
      BY <2>3, <3>1
    <3>3. SlotAt(P, z) = IF y < P.capacity THEN y ELSE y - P.capacity
      BY <3>1, <3>2, <2>2, <1>5 DEF SlotAt
    <3> QED
      BY <3>1, <3>3
  <2> QED
    BY <2>1, <2>4, <2>5, <2>6
<1> QED
  BY <1>8, <1>9, <1>10 DEF PartOf

\* Two parts of a sequence.
LEMMA PartsJoin ==
    ASSUME NEW o, NEW a, NEW b, NEW d, NEW l, InParts(o, a, b, d, l)
    PROVE  PartOf(o, a, b) \o PartOf(o, b, d) = PartOf(o, a, d)
<1> DEFINE S == PageItem
<1> USE DEF InParts
<1>1. PICK s : s = [x \in 1 .. b - a |-> o[a + x]]
  OBVIOUS
<1>2. PICK t : t = [x \in 1 .. d - b |-> o[b + x]]
  OBVIOUS
<1>3. PICK u : u = [x \in 1 .. d - a |-> o[a + x]]
  OBVIOUS
<1>4. b - a \in Nat /\ d - b \in Nat /\ d - a \in Nat /\ (b - a) + (d - b) = d - a
  OBVIOUS
<1>5. /\ \A x \in 1 .. b - a : a + x \in 1 .. l
      /\ \A x \in 1 .. d - b : b + x \in 1 .. l
      /\ \A x \in 1 .. d - a : a + x \in 1 .. l
  OBVIOUS
<1>6. s \in [1 .. b - a -> S] /\ t \in [1 .. d - b -> S] /\ u \in [1 .. d - a -> S]
  BY <1>1, <1>2, <1>3, <1>5
<1>7. /\ s \in Seq(S) /\ Len(s) = b - a
      /\ t \in Seq(S) /\ Len(t) = d - b
      /\ u \in Seq(S) /\ Len(u) = d - a
  <2>1. ASSUME NEW k \in Nat, NEW v \in [1 .. k -> S] PROVE v \in Seq(S) /\ Len(v) = k
    <3>1. v \in Seq(S)
      BY SeqDef
    <3>2. Len(v) \in Nat /\ DOMAIN v = 1 .. Len(v) /\ DOMAIN v = 1 .. k
      BY <3>1, LenProperties
    <3> QED
      BY <3>1, <3>2
  <2> QED
    BY <2>1, <1>4, <1>6
<1>8. s \o t \in Seq(S) /\ Len(s \o t) = d - a
  <2>1. s \o t \in Seq(S) /\ Len(s \o t) = Len(s) + Len(t)
    BY <1>7, ConcatProperties
  <2> QED
    BY <2>1, <1>4, <1>7
<1>9. ASSUME NEW x \in 1 .. d - a PROVE (s \o t)[x] = u[x]
  <2>1. CASE x <= b - a
    <3>1. x \in 1 .. b - a
      BY <2>1
    <3>2. (s \o t)[x] = s[x]
      BY <3>1, <2>1, <1>4, <1>7, ConcatProperties
    <3> QED
      BY <3>1, <3>2, <1>1, <1>3
  <2>2. CASE ~ (x <= b - a)
    <3>1. x - (b - a) \in 1 .. d - b /\ b + (x - (b - a)) = a + x
      BY <2>2
    <3>2. (s \o t)[x] = t[x - (b - a)]
      BY <2>2, <3>1, <1>4, <1>7, ConcatProperties
    <3> QED
      BY <3>1, <3>2, <1>2, <1>3
  <2> QED
    BY <2>1, <2>2
<1>10. s \o t = u
  BY <1>7, <1>8, <1>9, SeqEqual
<1> QED
  BY <1>1, <1>2, <1>3, <1>10 DEF PartOf

\* All that is published and not moved out.
LEMMA BacklogIs ==
    ASSUME NEW n, NEW c, PagesAt(n, c), NEW o, NEW e, OrderAt(n, c, o, e)
    PROVE  Backlog = PartOf(o, e[0], e[n])
<1> DEFINE Part(k) == PartOf(o, e[0], e[k])
           g == [k \in 0 .. Oldest |-> Part(k + 1)]
           Follows(f) == f = [k \in 0 .. Oldest |-> IF k = 0 THEN Unread(Back[Oldest])
                                                    ELSE f[k - 1] \o Unread(Back[Oldest - k])]
<1>1. n \in Nat /\ n <= MaxPages /\ MaxPages \in Nat
  BY ListingLength, PageQueueAssumption DEF PagesAt, Listing, PageQueueAssumption
<1>2. /\ \A k \in 0 .. MaxPages : Back[k] = IF k < n THEN c[n - k] ELSE Empty
      /\ Oldest = (IF n = 0 THEN 0 ELSE n - 1) /\ Back[Oldest] = (IF n = 0 THEN Empty ELSE c[1])
  BY BackIs, OldestIs DEF PagesAt
<1>3. /\ e \in [0 .. n -> Nat] /\ o \in [1 .. e[n] -> PageItem]
      /\ \A i \in 0 .. n : e[0] <= e[i] /\ e[i] <= e[n] /\ (i > 0 => e[i - 1] <= e[i])
  <2>1. e \in [0 .. n -> Nat] /\ o \in [1 .. e[n] -> PageItem] /\ \A i, j \in 0 .. n : i <= j => e[i] <= e[j]
    BY DEF OrderAt, Spread
  <2>2. \A i \in 0 .. n : 0 \in 0 .. n /\ n \in 0 .. n /\ 0 <= i /\ i <= n /\ (i > 0 => i - 1 \in 0 .. n /\ i - 1 <= i)
    BY <1>1
  <2> QED
    BY <2>1, <2>2
<1>4. Backlog = (CHOOSE f : Follows(f))[Oldest]
  BY Zenon DEF Backlog
<1>5. CASE n = 0
  <2>1. page[Empty].readi = 0 /\ page[Empty].readendi = 0 /\ pageRpc # "store"
    BY <1>5 DEF PagesAt, Listing, Header, PagesConsumer
  <2>2. Unread(Empty) = PartOf(o, e[0], e[n])
    <3>1. e[n] - e[0] = 0 - 0
      BY <1>3, <1>5
    <3> QED
      BY <2>1, <3>1 DEF Unread, PartOf
  <2>3. Oldest = 0 /\ Back[Oldest] = Empty
    BY <1>5, <1>2, <1>3
  <2>4. PICK f : f = [k \in 0 .. Oldest |-> Unread(Empty)]
    OBVIOUS
  <2>5. Follows(f)
    BY <2>3, <2>4
  <2>6. \A h : Follows(h) => h[Oldest] = Unread(Empty)
    BY <2>3
  <2> HIDE DEF Follows
  <2>7. Follows(CHOOSE h : Follows(h))
    BY <2>5
  <2> QED
    BY <2>2, <2>3, <2>6, <2>7, <1>4
<1>6. CASE n > 0
  <2>1. ASSUME NEW k \in 0 .. Oldest
        PROVE  g[k] = IF k = 0 THEN Unread(Back[Oldest]) ELSE g[k - 1] \o Unread(Back[Oldest - k])
    <3>1. Oldest = n - 1 /\ k \in 0 .. n - 1 /\ k + 1 \in 1 .. n /\ g[k] = Part(k + 1)
      BY <1>1, <1>2, <1>6, <2>1
    <3>2. Unread(c[k + 1]) = PartOf(o, e[k], e[k + 1])
      <4>1. \A i \in 1 .. n : Unread(c[i]) = PartOf(o, e[i - 1], e[i])
        BY UnreadIs
      <4> QED
        BY <3>1, <4>1
    <3>3. CASE k = 0
      BY <3>1, <3>2, <3>3, <1>2, <1>6
    <3>4. CASE k # 0
      <4>1. Back[Oldest - k] = c[k + 1]
        <5>1. Oldest - k \in 0 .. MaxPages /\ Oldest - k < n /\ n - (Oldest - k) = k + 1
          BY <3>1, <3>4, <1>1
        <5> QED
          BY <5>1, <1>2
      <4>2. g[k - 1] = Part(k)
        <5>1. k - 1 \in 0 .. Oldest /\ k - 1 + 1 = k
          BY <3>1, <3>4
        <5> QED
          BY <5>1
      <4>3. /\ e[0] \in Nat /\ e[k] \in Nat /\ e[k + 1] \in Nat /\ e[n] \in Nat
            /\ e[0] <= e[k] /\ e[k] <= e[k + 1] /\ e[k + 1] <= e[n]
        <5>1. k \in 0 .. n /\ k + 1 \in 0 .. n /\ 0 \in 0 .. n /\ n \in 0 .. n /\ k + 1 > 0 /\ (k + 1) - 1 = k
          BY <3>1, <1>1
        <5> QED
          BY <5>1, <1>3
      <4>4. Part(k) \o PartOf(o, e[k], e[k + 1]) = Part(k + 1)
        <5>1. InParts(o, e[0], e[k], e[k + 1], e[n])
          BY <4>3, <1>3 DEF InParts
        <5> QED
          BY <5>1, PartsJoin
      <4> HIDE DEF g, Part
      <4> QED
        BY <3>1, <3>2, <3>4, <4>1, <4>2, <4>4
    <3> QED
      BY <3>3, <3>4
  <2>2. Follows(g)
    BY <2>1
  <2>3. ASSUME NEW f, Follows(f) PROVE \A k \in 0 .. Oldest : f[k] = g[k]
    <3> DEFINE T == {k \in 0 .. Oldest : f[k] # g[k]}
    <3>1. SUFFICES ASSUME T # {} PROVE FALSE
      OBVIOUS
    <3>2. Oldest \in Nat
      BY <1>1, <1>2, <1>6
    <3>3. PICK k \in T : \A l \in T : k <= l
      <4>1. T \subseteq Nat
        BY <3>2
      <4> HIDE DEF T
      <4> QED
        BY <4>1, <3>1, SmallestOf
    <3>4. f[k] = IF k = 0 THEN Unread(Back[Oldest]) ELSE f[k - 1] \o Unread(Back[Oldest - k])
      BY <2>3, <3>3, Zenon
    <3>5. CASE k = 0
      BY <3>3, <3>4, <3>5, <2>1
    <3>6. CASE k # 0
      <4> HIDE DEF g, Follows
      <4>1. k - 1 \in 0 .. Oldest /\ ~ (k <= k - 1)
        BY <3>2, <3>3, <3>6
      <4>2. f[k - 1] = g[k - 1]
        BY <3>3, <4>1
      <4>3. g[k] = g[k - 1] \o Unread(Back[Oldest - k])
        BY <3>3, <3>6, <2>1
      <4> QED
        BY <3>3, <3>4, <3>6, <4>2, <4>3
    <3> QED
      BY <3>5, <3>6
  <2>4. g[Oldest] = Part(n)
    <3>1. Oldest \in 0 .. Oldest /\ Oldest + 1 = n
      BY <1>1, <1>2, <1>6
    <3> QED
      BY <3>1
  <2>5. Oldest \in 0 .. Oldest
    BY <1>1, <1>2, <1>6
  <2> HIDE DEF Follows, g
  <2>6. Follows(CHOOSE h : Follows(h))
    BY <2>2
  <2> QED
    BY <2>3, <2>4, <2>5, <2>6, <1>4
<1> QED
  BY <1>1, <1>5, <1>6

\* So what came out and will come out is what was pushed, and in order.
LEMMA OrderKeptAt ==
    ASSUME NEW n, NEW c, PagesAt(n, c), NEW o, NEW e, OrderAt(n, c, o, e)
    PROVE  OrderKept
<1>1. n \in Nat /\ 0 \in 0 .. n /\ n \in 0 .. n /\ 0 <= n
  BY DEF PagesAt, Listing
<1>2. e[0] \in Nat /\ e[n] \in Nat /\ e[0] <= e[n] /\ o \in [1 .. e[n] -> PageItem] /\ pagePopped = [x \in 1 .. e[0] |-> o[x]]
  BY <1>1 DEF OrderAt, Spread
<1>3. pagePopped = PartOf(o, 0, e[0])
  <2>1. e[0] - 0 = e[0] /\ \A x \in 1 .. e[0] : 0 + x = x
    BY <1>2
  <2> QED
    BY <2>1, <1>2 DEF PartOf
<1>4. pagePopped \o Backlog = PartOf(o, 0, e[n])
  <2>1. Backlog = PartOf(o, e[0], e[n])
    BY BacklogIs
  <2>2. PartOf(o, 0, e[0]) \o PartOf(o, e[0], e[n]) = PartOf(o, 0, e[n])
    <3>1. InParts(o, 0, e[0], e[n], e[n])
      BY <1>2 DEF InParts
    <3> QED
      BY <3>1, PartsJoin
  <2> QED
    BY <2>1, <2>2, <1>3
<1>5. PICK m : m = e[n]
  OBVIOUS
<1>6. pagePopped \o Backlog = o
  <2>1. e[n] - 0 = e[n] /\ \A x \in 1 .. e[n] : 0 + x = x
    BY <1>2
  <2> QED
    BY <2>1, <1>2, <1>4 DEF PartOf
<1>7. o \in Seq(PageItem) /\ Len(o) = m
  <2>1. o \in Seq(PageItem)
    BY <1>2, SeqDef
  <2>2. Len(o) \in Nat /\ DOMAIN o = 1 .. Len(o) /\ DOMAIN o = 1 .. e[n]
    BY <2>1, <1>2, LenProperties
  <2> QED
    BY <2>1, <2>2, <1>2, <1>5
<1>8. OutKept(m, o)
  BY <1>5 DEF OrderAt
<1>9. {o[i] : i \in 1 .. m} = {pagePushed[i] : i \in 1 .. Len(pagePushed)}
  <2>1. \A x \in 1 .. m : o[x] \in {pagePushed[i] : i \in 1 .. m}
    BY <1>8 DEF OutKept
  <2>2. \A k \in 1 .. m : pagePushed[k] \in {o[i] : i \in 1 .. m}
    BY <1>8 DEF OutKept
  <2>3. m = Len(pagePushed)
    BY <1>8 DEF OutKept
  <2> QED
    BY ONLY <2>1, <2>2, <2>3
<1>10. \A i, j \in 1 .. m : i < j => \A k \in 1 .. o[i].after : pagePushed[k] # o[j]
  BY <1>8 DEF OutKept
<1>11. m = Len(pagePushed)
  BY <1>8 DEF OutKept
<1> QED
  BY <1>6, <1>7, <1>9, <1>10, <1>11 DEF OrderKept

-----------------------------------------------------------------------------

\* The pages are listed, and their items in order.
OrderInv == \E n, c : PagesAt(n, c) /\ (alive => \E o, e : OrderAt(n, c, o, e))

\* Every step keeps the list and the order, and so does a stutter.
LEMMA OrderInvStep ==
    ASSUME NoPage \notin Headers, OrderInv, [PagePromptNext]_pageVars
    PROVE  OrderInv'
<1>1. ASSUME OrderInv, PagePromptNext PROVE OrderInv'
  <2>1. PICK n, c : PagesAt(n, c) /\ (alive => \E o, e : OrderAt(n, c, o, e))
    BY <1>1 DEF OrderInv
  <2>2. CASE alive'
    <3>1. alive
      BY <1>1, <2>2 DEF PagePromptNext, PageNext, PageConsumer, PageProducer, PopLoad, PopOldest, PopFree, PagePopCheck,
                        PagePopMove, PagePopStore, Destruct, LoadHeader, PageLoadWritei, PageLoadReadi, PageCasWritei,
                        PageCasWriteiFails, Allocate, AllocateFails, CasHeader, PageConstruct, PageCheckin
    <3>2. \E m, d, w, f : PagesAt(m, d)' /\ OrderAt(m, d, w, f)'
      BY <1>1, <2>1, <2>2, <3>1, OrderStep
    <3> QED
      BY <3>2 DEF OrderInv
  <2>3. CASE ~ alive'
    <3>1. \E m, d : PagesAt(m, d)'
      BY <1>1, <2>1, PagesStep
    <3> QED
      BY <2>3, <3>1 DEF OrderInv
  <2> QED
    BY <2>2, <2>3
<1>2. ASSUME OrderInv, UNCHANGED pageVars PROVE OrderInv'
  <2>1. PICK n, c : PagesAt(n, c) /\ (alive => \E o, e : OrderAt(n, c, o, e))
    BY <1>2 DEF OrderInv
  <2>2. PagesAt(n, c)'
    BY <1>2, <2>1, PagesStutter
  <2>3. alive' = alive
    BY <1>2 DEF pageVars
  <2>4. ASSUME NEW o, NEW e, OrderAt(n, c, o, e) PROVE OrderAt(n, c, o, e)'
    <3> USE <1>2 DEF pageVars, pageProducerVars, consumerVars
    <3>1. Spread(n, c, o, e)'
      BY <2>4 DEF OrderAt, Spread, PageSpread, MovedOf, SlotAt
    <3>2. OutKept(e[n], o)'
      BY <2>4 DEF OrderAt, OutKept
    <3>3. ItemsPushed' /\ ItemsStored' /\ InFront(n, c, o, e)'
      BY <2>4 DEF OrderAt, ItemsPushed, ItemsStored, InFront, Inside
    <3> QED
      BY <3>1, <3>2, <3>3 DEF OrderAt
  <2> QED
    BY <2>1, <2>2, <2>3, <2>4 DEF OrderInv
<1> QED
  BY <1>1, <1>2

\* And they are what the properties say.
LEMMA OrderInvKeeps ==
    ASSUME NoPage \notin Headers, OrderInv
    PROVE  PagesKept
<1>1. ASSUME NEW n, NEW c, PagesAt(n, c), alive => \E o, e : OrderAt(n, c, o, e) PROVE PagesKept
  <2>1. PagesAccounted
    BY <1>1, AccountedAt
  <2>2. CASE alive
    BY <1>1, <2>1, <2>2, OrderKeptAt DEF PagesKept
  <2>3. CASE ~ alive
    BY <2>1, <2>3 DEF PagesKept, OrderKept
  <2> QED
    BY <2>2, <2>3
<1> QED
  BY <1>1 DEF OrderInv

\* As long as no producer is held up for the lifetime of its page, none is leaked or freed
\* under a thread, and try_pop hands out what was pushed, once, and nothing before an item
\* that was published when its own try_emplace was called.
THEOREM PageQueueKeeps ==
    ASSUME NoPage \notin Headers
    PROVE  PagePromptSpec => []PagesKept
<1>1. PageInit => OrderInv
  BY PagesAtFirst, OrderAtFirst DEF OrderInv
<1>2. OrderInv /\ [PagePromptNext]_pageVars => OrderInv'
  BY OrderInvStep
<1>3. OrderInv => PagesKept
  BY OrderInvKeeps
<1> QED
  BY <1>1, <1>2, <1>3, PTL DEF PagePromptSpec

-----------------------------------------------------------------------------
(* PageQueue: one producer.                                                *)

\* A producer is in the newest page.
AtNewest == \A p \in PageProducers : pagePc[p] # "idle" => header[p] = write_header

\* Nobody supersedes the page of a sole producer.
LEMMA SoleAtNewest ==
    ASSUME NEW s, PageProducers = {s}, NEW n, NEW c, PagesAt(n, c), AtNewest, PageNext
    PROVE  AtNewest'
<1>1. pagePc[s] # "idle" => header[s] = write_header
  BY DEF AtNewest
<1>2. header \in [PageProducers -> 0 .. MaxPages \cup {NoPage}] /\ s \in DOMAIN header /\ s \in DOMAIN pagePc
  BY DEF PagesAt, PagesTyped
<1>3. CASE PageConsumer
  BY <1>1, <1>3 DEF PageConsumer, AtNewest, PopLoad, PopOldest, PopFree, PagePopCheck, PagePopMove, PagePopStore,
                    pageProducerVars
<1>4. CASE Destruct
  BY <1>4 DEF AtNewest, Destruct, pageProducerVars
<1>5. CASE LoadHeader(s)
  BY <1>2, <1>5 DEF AtNewest, LoadHeader
<1>6. CASE PageLoadWritei(s) \/ PageLoadReadi(s) \/ PageCasWriteiFails(s)
  BY <1>1, <1>6 DEF AtNewest, PageLoadWritei, PageLoadReadi, PageCasWriteiFails
<1>7. CASE PageCasWritei(s) \/ Allocate(s) \/ PageConstruct(s)
  BY <1>1, <1>7 DEF AtNewest, PageCasWritei, Allocate, PageConstruct
<1>8. CASE AllocateFails(s) \/ PageCheckin(s)
  BY <1>2, <1>8 DEF AtNewest, AllocateFails, PageCheckin, Returns
<1>9. CASE CasHeader(s)
  BY <1>2, <1>9 DEF AtNewest, CasHeader
<1> QED
  BY <1>3, <1>4, <1>5, <1>6, <1>7, <1>8, <1>9 DEF PageNext, PageProducer

\* So the consumer, who frees the oldest page of two, never frees it.
LEMMA SoleNotStale ==
    ASSUME NoPage \notin Headers, NEW s, PageProducers = {s}, NEW n, NEW c, PagesAt(n, c), AtNewest, AtNewest', PageNext
    PROVE  NoStalePage'
<1>1. SUFFICES ASSUME pageRpc' = "free", Searching(s)' PROVE header'[s] # read_header'
  BY DEF NoStalePage
<1>2. header'[s] = write_header'
  BY <1>1 DEF AtNewest, Searching
<1>3. n > 1 => 1 \in 1 .. n /\ n \in 1 .. n /\ write_header = c[n] /\ c[1] # c[n]
  BY DEF PagesAt, Listing
<1>4. CASE PopOldest
  BY <1>1, <1>2, <1>3, <1>4 DEF PopOldest, PagesAt, PagesConsumer
<1>5. ~ (PopLoad \/ PopFree \/ PagePopCheck \/ PagePopMove \/ PagePopStore \/ Destruct)
  BY <1>1 DEF PopLoad, PopFree, PagePopCheck, PagePopMove, PagePopStore, Destruct, consumerVars
<1>6. CASE PageProducer(s)
  <2>1. pageRpc = "free" /\ read_header' = c[1] /\ n > 1
    <3>1. UNCHANGED <<pageRpc, read_header, next_header>>
      BY <1>6 DEF PageProducer, LoadHeader, PageLoadWritei, PageLoadReadi, PageCasWritei, PageCasWriteiFails, Allocate,
                  AllocateFails, CasHeader, PageConstruct, PageCheckin, consumerVars
    <3> QED
      BY <3>1, <1>1 DEF PagesAt, PagesConsumer
  <2>2. CASE CasHeader(s)
    <3>1. \A i \in 1 .. n : c[i] # fresh[s]
      BY <2>2 DEF CasHeader, PagesAt, PagesFresh, FreshPage
    <3>2. write_header' = fresh[s] \/ write_header' = write_header
      BY <2>2 DEF CasHeader
    <3> QED
      BY <3>1, <3>2, <2>1, <1>2, <1>3
  <2>3. CASE ~ CasHeader(s)
    <3>1. write_header' = write_header
      BY <1>6, <2>3 DEF PageProducer, LoadHeader, PageLoadWritei, PageLoadReadi, PageCasWritei, PageCasWriteiFails, Allocate,
                        AllocateFails, PageConstruct, PageCheckin
    <3> QED
      BY <3>1, <2>1, <1>2, <1>3
  <2> QED
    BY <2>2, <2>3
<1> QED
  BY <1>4, <1>5, <1>6 DEF PageNext, PageConsumer

\* Nor does the consumer get to the slot that it is about to claim, which is behind all items.
LEMMA SoleClaims ==
    ASSUME NoPage \notin Headers, NEW s, PageProducers = {s}, NEW n, NEW c, PagesAt(n, c), AtNewest, PageNext
    PROVE  NoStalePageClaim'
<1>1. SUFFICES ASSUME pagePc'[s] = "cas_writei", page'[header'[s]].writei = pageSlot'[s]
               PROVE  pageNext'[s] # page'[header'[s]].readi
  BY DEF NoStalePageClaim
<1>2. s \in DOMAIN pagePc /\ s \in DOMAIN pageNext
  BY DEF PagesAt, PagesTyped
<1>3. CASE PageLoadReadi(s)
  BY <1>1, <1>2, <1>3 DEF PageLoadReadi
<1>4. ~ (PageProducer(s) /\ ~ PageLoadReadi(s))
  BY <1>1, <1>2 DEF PageProducer, LoadHeader, PageLoadWritei, PageCasWritei, PageCasWriteiFails, Allocate, AllocateFails,
                    CasHeader, PageConstruct, PageCheckin, Returns
<1>5. CASE PageConsumer \/ Destruct
  <2>1. UNCHANGED <<pagePc, header, pageSlot, pageNext>> /\ pagePc[s] = "cas_writei"
    BY <1>1, <1>5 DEF PageConsumer, Destruct, PopLoad, PopOldest, PopFree, PagePopCheck, PagePopMove, PagePopStore,
                      pageProducerVars
  <2>2. PICK i \in 1 .. n : header[s] = c[i]
    BY <2>1 DEF PagesAt, InPage, Inside
  <2>3. header[s] = write_header /\ header[s] = c[n] /\ n \in Nat /\ n > 0 /\ n \in 1 .. n /\ i = n
    BY <2>1, <2>2 DEF AtNewest, PagesAt, Listing
  <2>4. PICK Q : Q = page[c[n]]
    OBVIOUS
  <2>5. SoundPage(Q) /\ pageNext[s] = page_wrap_reset(pageSlot[s] + 1, Q.capacity) /\ pageSlot[s] \in Nat
        /\ c[n] \in Pages /\ c[n] \in DOMAIN page /\ (Q.writei = pageSlot[s] => pageNext[s] # Q.readi)
    BY <2>1, <2>3, <2>4 DEF PagesAt, Listing, InPage, PagesTyped, NoStalePageClaim, Pages
  <2>6. Q \in Headers
    BY <2>5 DEF SoundPage
  <2>7. CASE PopLoad \/ PopOldest \/ PagePopCheck
    BY <1>1, <2>1, <2>3, <2>4, <2>5, <2>7 DEF PopLoad, PopOldest, PagePopCheck
  <2>8. CASE PopFree
    <3>1. n > 1 /\ read_header = c[1] /\ next_header = c[2] /\ c[1] # c[n]
      BY <2>3, <2>8 DEF PopFree, PagesAt, PagesConsumer, Listing
    <3>2. page'[c[n]].writei = Q.writei /\ page'[c[n]].readi = Q.readi
      BY <2>4, <2>5, <2>6, <2>8, <3>1 DEF PopFree, Headers
    <3> QED
      BY <3>2, <1>1, <2>1, <2>3, <2>5
  <2>9. CASE PagePopMove
    <3>1. page'[c[n]].writei = Q.writei /\ page'[c[n]].readi = Q.readi
      BY <2>4, <2>5, <2>6, <2>9 DEF PagePopMove, Headers
    <3> QED
      BY <3>1, <1>1, <2>1, <2>3, <2>5
  <2>10. CASE PagePopStore
    <3>1. read_header = c[1] /\ page[c[1]].readi # page[c[1]].readendi
      BY <2>10 DEF PagePopStore, PagesAt, PagesConsumer
    <3>2. CASE c[1] # c[n]
      <4>1. page'[c[n]] = Q
        BY <2>4, <2>5, <2>10, <3>1, <3>2 DEF PagePopStore
      <4> QED
        BY <4>1, <1>1, <2>1, <2>3, <2>5
    <3>3. CASE c[1] = c[n]
      <4>1. page'[c[n]].writei = Q.writei /\ page'[c[n]].readi = page_wrap_reset(Q.readi + 1, Q.capacity)
        BY <2>4, <2>5, <2>6, <2>10, <3>1, <3>3 DEF PagePopStore, Headers
      <4>2. /\ Q.readi \in Nat /\ Q.readendi \in Nat /\ Q.writei \in Nat /\ Q.capacity \in Nat
            /\ Q.readi < Q.capacity /\ Q.readendi < Q.capacity /\ Q.writei < Q.capacity
            /\ Lap(Q.readi, Q.readendi, Q.capacity) <= Lap(Q.readi, Q.writei, Q.capacity)
            /\ Q.readi # Q.readendi
        BY <2>4, <2>5, <2>6, <3>1, <3>3 DEF SoundPage, Headers
      <4>3. Q.readi # Q.writei
        BY <4>2 DEF Lap
      <4>4. page_wrap_reset(Q.readi + 1, Q.capacity) # page_wrap_reset(Q.writei + 1, Q.capacity)
        BY <4>2, <4>3 DEF page_wrap_reset
      <4> QED
        BY <4>1, <4>4, <1>1, <2>1, <2>3, <2>5
    <3> QED
      BY <3>2, <3>3
  <2>11. ~ Destruct
    BY <2>1 DEF Destruct
  <2> QED
    BY <1>5, <2>7, <2>8, <2>9, <2>10, <2>11 DEF PageConsumer
<1> QED
  BY <1>3, <1>4, <1>5 DEF PageNext

\* With one producer this is so whatever is held up, and for how long.
THEOREM SolePageProducerKeeps ==
    ASSUME NoPage \notin Headers, NEW s, PageProducers = {s}
    PROVE  PageSpec => []PagesKept
<1>1. PageInit => OrderInv /\ AtNewest
  <2>1. PageInit => OrderInv
    BY PagesAtFirst, OrderAtFirst DEF OrderInv
  <2>2. PageInit => AtNewest
    BY DEF PageInit, AtNewest
  <2> QED
    BY <2>1, <2>2
<1>2. OrderInv /\ AtNewest /\ [PageNext]_pageVars => OrderInv' /\ AtNewest'
  <2>1. ASSUME OrderInv, AtNewest, PageNext PROVE OrderInv' /\ AtNewest'
    <3>1. PICK n, c : PagesAt(n, c)
      BY <2>1 DEF OrderInv
    <3>2. AtNewest'
      BY <2>1, <3>1, SoleAtNewest
    <3>3. NoStalePage' /\ NoStalePageClaim'
      BY <2>1, <3>1, <3>2, SoleNotStale, SoleClaims
    <3> QED
      BY <2>1, <3>2, <3>3, OrderInvStep DEF PagePromptNext
  <2>2. ASSUME OrderInv, AtNewest, UNCHANGED pageVars PROVE OrderInv' /\ AtNewest'
    <3>1. OrderInv'
      BY <2>2, OrderInvStep
    <3>2. AtNewest'
      BY <2>2 DEF AtNewest, pageVars, pageProducerVars
    <3> QED
      BY <3>1, <3>2
  <2> QED
    BY <2>1, <2>2
<1>3. OrderInv => PagesKept
  BY OrderInvKeeps
<1> QED
  BY <1>1, <1>2, <1>3, PTL DEF PageSpec

-----------------------------------------------------------------------------
(* SimpleQueue.                                                            *)

USE CapacityAssumption, MaxItemsAssumption, NilAssumption

(* The arithmetic of the ring.                                             *)

\* The index arithmetic of the queue (utility::wrap_reset) never leaves the storage.
LEMMA WrapInSlots ==
    ASSUME NEW a \in Slots
    PROVE  wrap_reset(a + 1) \in Slots
BY DEF Slots, wrap_reset

\* Two indices of the ring are less than a whole lap apart.
LEMMA DistanceType ==
    ASSUME NEW a \in Slots, NEW b \in Slots
    PROVE  /\ Distance(a, b) \in Nat
           /\ Distance(a, b) < Capacity
           /\ Distance(a, b) = 0 <=> a = b
BY DEF Slots, Distance

\* Advancing the far index by one slot makes the distance one longer, unless it
\* meets the near one.
LEMMA DistanceAdvance ==
    ASSUME NEW a \in Slots, NEW b \in Slots, wrap_reset(b + 1) # a
    PROVE  Distance(a, wrap_reset(b + 1)) = Distance(a, b) + 1
BY DEF Slots, Distance, wrap_reset

\* Advancing the near index by one slot makes the distance one shorter, unless
\* the indices met already.
LEMMA DistanceRetreat ==
    ASSUME NEW a \in Slots, NEW b \in Slots, a # b
    PROVE  Distance(wrap_reset(a + 1), b) = Distance(a, b) - 1
BY DEF Slots, Distance, wrap_reset

\* Distance from a fixed index tells slots apart.
LEMMA DistanceInjective ==
    ASSUME NEW a \in Slots, NEW b \in Slots, NEW c \in Slots,
           Distance(a, b) = Distance(a, c)
    PROVE  b = c
BY DEF Slots, Distance

-----------------------------------------------------------------------------
(* The indices, the storage and the locals keep their types, with any      *)
(* number of producers and whatever they do to each other.                 *)

\* Every step keeps the type invariant.
LEMMA TypeStep == TypeOK /\ [Next]_vars => TypeOK'
<1> SUFFICES ASSUME TypeOK, [Next]_vars PROVE TypeOK'
  OBVIOUS
<1> USE DEF TypeOK, Item
<1>1. ASSUME NEW p \in Producers, LoadWritei(p) PROVE TypeOK'
  BY <1>1 DEF LoadWritei
<1>2. ASSUME NEW p \in Producers, LoadReadi(p) PROVE TypeOK'
  BY <1>2, WrapInSlots DEF LoadReadi
<1>3. ASSUME NEW p \in Producers, CasWritei(p) PROVE TypeOK'
  BY <1>3 DEF CasWritei
<1>4. ASSUME NEW p \in Producers, CasWriteiFails(p) PROVE TypeOK'
  BY <1>4 DEF CasWriteiFails
<1>5. ASSUME NEW p \in Producers, Construct(p) PROVE TypeOK'
  BY <1>5 DEF Construct
<1>6. ASSUME NEW p \in Producers, Checkin(p) PROVE TypeOK'
  BY <1>6 DEF Checkin
<1>7. CASE PopCheck
  BY <1>7 DEF PopCheck, producerVars
<1>8. CASE PopMove
  BY <1>8 DEF PopMove, producerVars
<1>9. CASE PopStore
  BY <1>9, WrapInSlots DEF PopStore, producerVars
<1>10. CASE UNCHANGED vars
  BY <1>10 DEF vars, producerVars
<1> QED
  BY <1>1, <1>2, <1>3, <1>4, <1>5, <1>6, <1>7, <1>8, <1>9, <1>10
  DEF Next, Consumer, Producer

\* In every behaviour of the queue the indices stay inside the storage.
THEOREM TypeCorrect == Spec => []TypeOK
<1>1. Init => TypeOK
  BY DEF Init, TypeOK, Slots, Item
<1> QED
  BY <1>1, TypeStep, PTL DEF Spec

-----------------------------------------------------------------------------
(* The inductive invariant of the ring, as long as no claim is stale.      *)

RingParts == IndexInv /\ ProducerInv /\ CountInv /\ ContentInv /\ FifoOrder

\* The producer steps that touch neither the ring nor a claimed slot.
LEMMA LocalStep ==
    ASSUME RingInv, TypeOK',
           NEW p \in Producers,
           ~Publishing(p), pc'[p] \in {"idle", "load_readi", "cas_writei"},
           \A q \in Producers \ {p} : pc'[q] = pc[q] /\ slot'[q] = slot[q]
                                      /\ next'[q] = next[q] /\ item'[q] = item[q],
           pc'[p] = "cas_writei" => next'[p] = wrap_reset(slot'[p] + 1),
           UNCHANGED <<readi, readendi, writei, storage, rpc, pushed, popped>>
    PROVE  RingParts'
<1> USE DEF RingInv
<1>1. \A q \in Producers : (Publishing(q))' => q # p /\ Publishing(q)
  BY DEF Publishing, TypeOK
<1>2. \A q \in Producers : Publishing(q) => q # p /\ (Publishing(q))'
  BY DEF Publishing, TypeOK
<1>3. IndexInv' /\ CountInv' /\ FifoOrder'
  BY DEF IndexInv, CountInv, FifoOrder, Moved
<1>4. ProducerInv'
  BY <1>1, <1>2 DEF ProducerInv, TypeOK, Publishing
<1>5. ASSUME NEW s \in Slots PROVE ContentAt(s)'
  <2>1. ContentAt(s)
    BY DEF ContentInv
  <2>2. Occupied(s)' <=> Occupied(s)
    BY DEF Occupied, Moved
  <2>3. \A q \in Producers : pc'[q] = "checkin" <=> pc[q] = "checkin" /\ q # p
    BY DEF Publishing
  <2>4. pc[p] # "checkin"
    BY DEF Publishing
  <2> QED
    BY <2>1, <2>2, <2>3, <2>4 DEF ContentAt, Moved
<1> QED
  BY <1>3, <1>4, <1>5 DEF RingParts, ContentInv

\* Claiming a slot: the compare-exchange of writei_.
LEMMA ClaimStep ==
    ASSUME RingInv, TypeOK', NEW p \in Producers, CasWritei(p)
    PROVE  RingParts'
<1> USE DEF RingInv, CasWritei
<1>1. /\ writei \in Slots /\ readi \in Slots /\ readendi \in Slots
      /\ slot \in [Producers -> Slots] /\ slot[p] = writei
      /\ writei' = wrap_reset(writei + 1)
      /\ writei' # readi
  BY DEF TypeOK, ProducerInv, NoStaleClaim
<1>2. Distance(readi, writei') = Distance(readi, writei) + 1
  BY <1>1, DistanceAdvance
<1>3. /\ Distance(readi, writei) \in Nat
      /\ Distance(readi, readendi) \in Nat
      /\ \A q \in Producers : Distance(readi, slot[q]) \in Nat
  BY <1>1, DistanceType
<1>4. IndexInv'
  BY <1>2, <1>3 DEF IndexInv
<1>5. CountInv' /\ FifoOrder'
  BY DEF CountInv, FifoOrder, Moved
<1>6. \A q \in Producers : Publishing(q) => slot[q] # slot[p]
  BY <1>1, <1>3 DEF ProducerInv
<1>7. \A q \in Producers : (Publishing(q))' <=> (q = p \/ Publishing(q))
  BY DEF Publishing, TypeOK
<1>8. ~Publishing(p)
  BY DEF Publishing
<1>9. ProducerInv'
  <2>1. ASSUME NEW q \in Producers, (Publishing(q))', q # p
        PROVE  /\ (Distance(readi, readendi) <= Distance(readi, slot[q]))'
               /\ (Distance(readi, slot[q]) < Distance(readi, writei))'
               /\ next'[q] = wrap_reset(slot'[q] + 1)
    BY <2>1, <1>2, <1>3, <1>7 DEF ProducerInv, Publishing
  <2>2. /\ (Distance(readi, readendi) <= Distance(readi, slot[p]))'
        /\ (Distance(readi, slot[p]) < Distance(readi, writei))'
        /\ next'[p] = wrap_reset(slot'[p] + 1)
    BY <1>1, <1>2, <1>3 DEF IndexInv, ProducerInv
  <2>3. ASSUME NEW q \in Producers, NEW r \in Producers,
               (Publishing(q))', (Publishing(r))', q # r
        PROVE  slot'[q] # slot'[r]
    BY <2>3, <1>6, <1>7 DEF ProducerInv
  <2>4. ASSUME NEW q \in Producers, pc'[q] = "cas_writei"
        PROVE  next'[q] = wrap_reset(slot'[q] + 1)
    BY <2>4 DEF ProducerInv, TypeOK
  <2> QED
    BY <2>1, <2>2, <2>3, <2>4 DEF ProducerInv, Publishing
<1>10. ASSUME NEW s \in Slots PROVE ContentAt(s)'
  <2>1. ContentAt(s)
    BY DEF ContentInv
  <2>2. \A q \in Producers : pc'[q] = "checkin" <=> pc[q] = "checkin"
    BY DEF TypeOK
  <2> QED
    BY <2>1, <2>2 DEF ContentAt, Moved, Occupied
<1> QED
  BY <1>4, <1>5, <1>9, <1>10 DEF RingParts, ContentInv

\* Building the item in the claimed slot.
LEMMA ConstructStep ==
    ASSUME RingInv, TypeOK', NEW p \in Producers, Construct(p)
    PROVE  RingParts'
<1> USE DEF RingInv, Construct
<1>1. IndexInv' /\ CountInv' /\ FifoOrder'
  BY DEF IndexInv, CountInv, FifoOrder, Moved
<1>2. \A q \in Producers : (Publishing(q))' <=> Publishing(q)
  BY DEF Publishing, TypeOK
<1>3. ProducerInv'
  BY <1>2 DEF ProducerInv, TypeOK, Publishing
<1>4. /\ \A q \in Producers : Publishing(q) /\ q # p => slot[q] # slot[p]
      /\ Distance(readi, readendi) <= Distance(readi, slot[p])
  BY DEF ProducerInv, Publishing
<1>5. ASSUME NEW s \in Slots PROVE ContentAt(s)'
  <2>1. ContentAt(s)
    BY DEF ContentInv
  <2>2. Occupied(s)' <=> Occupied(s)
    BY DEF Occupied, Moved
  <2>3. CASE s = slot[p]
    <3>0. Distance(readi, s) \in Nat /\ Distance(readi, readendi) \in Nat
      BY DistanceType DEF TypeOK
    <3>1. ~Occupied(s)
      BY <2>3, <1>4, <3>0 DEF Occupied
    <3>2. /\ pc'[p] = "checkin"
          /\ storage'[s] = item[p]
          /\ \A q \in Producers : pc'[q] = "checkin" /\ s = slot[q] => q = p
      BY <2>3, <1>4 DEF TypeOK, Publishing
    <3> QED
      BY <2>3, <3>1, <3>2, <2>2 DEF ContentAt
  <2>4. CASE s # slot[p]
    <3>1. storage'[s] = storage[s]
      BY <2>4 DEF TypeOK
    <3>2. \A q \in Producers : s = slot[q] => (pc'[q] = "checkin" <=> pc[q] = "checkin")
      BY <2>4 DEF TypeOK
    <3> QED
      BY <2>1, <2>2, <3>1, <3>2 DEF ContentAt, Moved
  <2> QED
    BY <2>3, <2>4
<1> QED
  BY <1>1, <1>3, <1>5 DEF RingParts, ContentInv

\* Publishing the item: the compare-exchange of readendi_.
LEMMA CheckinStep ==
    ASSUME RingInv, TypeOK', NEW p \in Producers, Checkin(p)
    PROVE  RingParts'
<1> USE DEF RingInv, Checkin
<1>1. /\ writei \in Slots /\ readi \in Slots /\ readendi \in Slots
      /\ slot \in [Producers -> Slots] /\ slot[p] = readendi
      /\ readendi' = wrap_reset(readendi + 1)
      /\ item[p] \in Item
  BY DEF TypeOK, ProducerInv
<1>2. /\ Distance(readi, writei) \in Nat
      /\ Distance(readi, readendi) \in Nat
      /\ \A q \in Producers : Distance(readi, slot[q]) \in Nat
      /\ \A s \in Slots : Distance(readi, s) \in Nat
      /\ Distance(readi, writei) < Capacity
  BY <1>1, DistanceType
<1>3. /\ Distance(readi, readendi) < Distance(readi, writei)
      /\ \A q \in Producers : Publishing(q) /\ q # p => slot[q] # readendi
  BY <1>1 DEF ProducerInv, Publishing
<1>4. readendi' # readi
  BY <1>1, <1>2, <1>3 DEF Distance, wrap_reset, Slots
<1>5. Distance(readi, readendi') = Distance(readi, readendi) + 1
  BY <1>1, <1>4, DistanceAdvance
<1>6. IndexInv'
  BY <1>2, <1>3, <1>5 DEF IndexInv
<1>7. /\ pushed \in Seq(Item) /\ popped \in Seq(Item \cup {Nil})
      /\ Len(pushed) \in Nat /\ Len(popped) \in Nat
      /\ Len(pushed') = Len(pushed) + 1
      /\ pushed'[Len(pushed) + 1] = item[p]
      /\ \A i \in 1 .. Len(pushed) : pushed'[i] = pushed[i]
  BY <1>1 DEF TypeOK
<1>8. CountInv'
  BY <1>2, <1>5, <1>7, <1>4 DEF CountInv, Moved
<1>9. FifoOrder'
  BY <1>7 DEF FifoOrder
<1>10. \A q \in Producers : (Publishing(q))' <=> (Publishing(q) /\ q # p)
  BY DEF Publishing, TypeOK
<1>11. ProducerInv'
  <2>1. ASSUME NEW q \in Producers, Publishing(q), q # p
        PROVE  /\ Distance(readi, readendi') <= Distance(readi, slot[q])
               /\ Distance(readi, slot[q]) < Distance(readi, writei)
    <3>1. Distance(readi, slot[q]) # Distance(readi, readendi)
      BY <2>1, <1>1, <1>3, DistanceInjective
    <3> QED
      BY <2>1, <3>1, <1>2, <1>5 DEF ProducerInv
  <2> QED
    BY <2>1, <1>10 DEF ProducerInv, Publishing, TypeOK
<1>12. ASSUME NEW s \in Slots PROVE ContentAt(s)'
  <2>1. ContentAt(s)
    BY DEF ContentInv
  <2>2. \A q \in Producers : pc'[q] = "checkin" <=> pc[q] = "checkin" /\ q # p
    BY DEF TypeOK
  <2>3. CASE s = readendi
    <3>1. storage[s] = item[p]
      BY <2>1, <2>3, <1>1 DEF ContentAt
    <3>2. Occupied(s)'
      <4>1. rpc = "store" => Distance(readi, readendi) # 0
        BY <1>1, DistanceType DEF CountInv
      <4> QED
        BY <4>1, <2>3, <1>2, <1>5 DEF Occupied, Moved
    <3>3. Len(popped) - Moved + Distance(readi, s) + 1 = Len(pushed) + 1
      BY <2>3, <1>2, <1>7 DEF CountInv, Moved
    <3>4. \A q \in Producers : pc'[q] = "checkin" => slot[q] # s
      BY <2>2, <2>3, <1>3 DEF Publishing
    <3>5. storage'[s] = pushed'[Len(popped') - Moved' + Distance(readi', s) + 1]
      <4>1. Len(popped') - Moved' + Distance(readi', s) + 1 = Len(pushed) + 1
        BY <3>3 DEF Moved
      <4> QED
        BY <4>1, <3>1, <1>7
    <3> QED
      BY <3>2, <3>4, <3>5 DEF ContentAt
  <2>4. CASE s # readendi
    <3>1. Distance(readi, s) # Distance(readi, readendi)
      BY <2>4, <1>1, DistanceInjective
    <3>2. Occupied(s)' <=> Occupied(s)
      BY <3>1, <1>2, <1>5 DEF Occupied, Moved
    <3>3. Occupied(s) => Len(popped) - Moved + Distance(readi, s) + 1 \in 1 .. Len(pushed)
      BY <1>2, <1>7 DEF Occupied, CountInv, Moved
    <3>4. \A q \in Producers : s = slot[q] => (pc'[q] = "checkin" <=> pc[q] = "checkin")
      BY <2>2, <2>4, <1>1
    <3>5. \A q \in Producers : pc'[q] = "checkin" => item'[q] = item[q]
      BY <2>2 DEF TypeOK
    <3> QED
      BY <2>1, <3>2, <3>3, <3>4, <3>5, <1>7 DEF ContentAt, Moved
  <2> QED
    BY <2>3, <2>4
<1> QED
  BY <1>6, <1>8, <1>9, <1>11, <1>12 DEF RingParts, ContentInv

\* The slot that the consumer is about to move out of holds the oldest item that
\* is published and not popped.
LEMMA OldestItem ==
    ASSUME RingInv, rpc = "move"
    PROVE  Len(popped) < Len(pushed) /\ storage[readi] = pushed[Len(popped) + 1]
<1>1. /\ readi \in Slots /\ Distance(readi, readi) = 0
      /\ Distance(readi, readendi) \in Nat /\ Distance(readi, readendi) > 0
  BY DistanceType DEF RingInv, TypeOK, CountInv
<1>2. Moved = 0 /\ Occupied(readi)
  BY <1>1 DEF Moved, Occupied
<1>3. Len(pushed) \in Nat /\ Len(popped) \in Nat /\ Len(popped) < Len(pushed)
  BY <1>1, <1>2 DEF RingInv, TypeOK, CountInv
<1> QED
  BY <1>1, <1>2, <1>3 DEF RingInv, ContentInv, ContentAt

\* The consumer moves an item out of its slot.
LEMMA PopMoveStep ==
    ASSUME RingInv, TypeOK', PopMove
    PROVE  RingParts'
<1> USE DEF RingInv, PopMove, producerVars
<1>1. /\ readi \in Slots /\ readendi \in Slots /\ readi # readendi
      /\ \A s \in Slots : Distance(readi, s) \in Nat
      /\ Distance(readi, readi) = 0
      /\ \A s \in Slots : Distance(readi, s) = 0 => s = readi
      /\ Distance(readi, readendi) > 0
  BY DistanceType DEF TypeOK, CountInv
<1>2. Moved = 0 /\ Moved' = 1
  BY DEF Moved
<1>3. Occupied(readi)
  BY <1>1, <1>2 DEF Occupied
<1>4. /\ pushed \in Seq(Item) /\ popped \in Seq(Item \cup {Nil})
      /\ Len(pushed) \in Nat /\ Len(popped) \in Nat
      /\ Len(popped) < Len(pushed)
  BY <1>1, <1>2 DEF TypeOK, CountInv
<1>5. storage[readi] = pushed[Len(popped) + 1] /\ storage[readi] \in Item
  BY <1>4, OldestItem
<1>6. /\ Len(popped') = Len(popped) + 1
      /\ popped'[Len(popped) + 1] = pushed[Len(popped) + 1]
      /\ \A i \in 1 .. Len(popped) : popped'[i] = popped[i]
  BY <1>4, <1>5
<1>7. FifoOrder'
  BY <1>4, <1>6 DEF FifoOrder
<1>8. IndexInv' /\ ProducerInv'
  BY DEF IndexInv, ProducerInv, Publishing
<1>9. CountInv'
  BY <1>1, <1>2, <1>4, <1>6 DEF CountInv
<1>10. ASSUME NEW s \in Slots PROVE ContentAt(s)'
  <2>1. ContentAt(s)
    BY DEF ContentInv
  <2>2. CASE s = readi
    <3>1. storage'[s] = Nil /\ ~(Occupied(s)')
      BY <2>2, <1>1, <1>2 DEF Occupied, TypeOK
    <3>2. \A p \in Producers : pc[p] = "checkin" => slot[p] # s
      BY <2>2, <1>1 DEF ProducerInv, Publishing, TypeOK
    <3> QED
      BY <3>1, <3>2 DEF ContentAt
  <2>3. CASE s # readi
    <3>1. storage'[s] = storage[s]
      BY <2>3 DEF TypeOK
    <3>2. Occupied(s)' <=> Occupied(s)
      BY <2>3, <1>1, <1>2 DEF Occupied
    <3>3. Len(popped') - Moved' = Len(popped) - Moved
      BY <1>2, <1>4, <1>6
    <3> QED
      BY <2>1, <3>1, <3>2, <3>3 DEF ContentAt
  <2> QED
    BY <2>2, <2>3
<1> QED
  BY <1>7, <1>8, <1>9, <1>10 DEF RingParts, ContentInv

\* The consumer gives the slot back by advancing readi_.
LEMMA PopStoreStep ==
    ASSUME RingInv, TypeOK', PopStore
    PROVE  RingParts'
<1> USE DEF RingInv, PopStore, producerVars
<1>1. /\ readi \in Slots /\ readendi \in Slots /\ writei \in Slots
      /\ slot \in [Producers -> Slots]
      /\ readi # readendi /\ readi' = wrap_reset(readi + 1)
      /\ readi' \in Slots
  BY WrapInSlots DEF TypeOK, CountInv
<1>2. \A s \in Slots : Distance(readi, s) \in Nat /\ (Distance(readi, s) = 0 <=> s = readi)
  BY <1>1, DistanceType
<1>3. \A s \in Slots : s # readi => Distance(readi', s) = Distance(readi, s) - 1
  BY <1>1, DistanceRetreat
<1>4. Distance(readi', readi) = Capacity - 1
  BY <1>1 DEF Distance, wrap_reset, Slots
<1>5. /\ readi # writei
      /\ \A q \in Producers : Publishing(q) => slot[q] # readi
  BY <1>1, <1>2 DEF IndexInv, ProducerInv
<1>6. Moved = 1 /\ Moved' = 0
  BY DEF Moved
<1>7. IndexInv'
  BY <1>1, <1>2, <1>3, <1>5 DEF IndexInv
<1>8. \A q \in Producers : (Publishing(q))' <=> Publishing(q)
  BY DEF Publishing
<1>9. ProducerInv'
  BY <1>1, <1>2, <1>3, <1>5, <1>8 DEF ProducerInv
<1>10. CountInv'
  BY <1>1, <1>2, <1>3, <1>6 DEF CountInv, TypeOK
<1>11. FifoOrder'
  BY DEF FifoOrder
<1>12. ASSUME NEW s \in Slots PROVE ContentAt(s)'
  <2>1. ContentAt(s)
    BY DEF ContentInv
  <2>2. Occupied(s)' <=> Occupied(s)
    <3>1. CASE s = readi
      <4>1. Distance(readi', readendi) <= Capacity - 1
        BY <1>1, DistanceType
      <4> QED
        BY <3>1, <4>1, <1>1, <1>2, <1>3, <1>4, <1>6 DEF Occupied
    <3>2. CASE s # readi
      BY <3>2, <1>1, <1>2, <1>3, <1>6 DEF Occupied
    <3> QED
      BY <3>1, <3>2
  <2>3. Occupied(s) => Distance(readi', s) - Moved' = Distance(readi, s) - Moved
    BY <1>1, <1>2, <1>3, <1>6 DEF Occupied
  <2>4. Occupied(s) => Len(popped') - Moved' + Distance(readi', s) + 1
                        = Len(popped) - Moved + Distance(readi, s) + 1
    <3>1. Len(popped) \in Nat /\ popped' = popped
      BY DEF TypeOK
    <3>2. Distance(readi, s) \in Nat /\ Distance(readi', s) \in Nat
      BY <1>1, DistanceType
    <3> QED
      BY <3>1, <3>2, <2>3, <1>6
  <2> QED
    BY <2>1, <2>2, <2>4 DEF ContentAt
<1> QED
  BY <1>7, <1>9, <1>10, <1>11, <1>12 DEF RingParts, ContentInv

\* Every step whose result has no stale claim keeps the ring's invariant.
LEMMA RingStep == RingInv /\ [Next /\ NoStaleClaim']_vars => RingInv'
<1> SUFFICES ASSUME RingInv, [Next /\ NoStaleClaim']_vars PROVE RingInv'
  OBVIOUS
<1>1. TypeOK'
  BY TypeStep DEF RingInv
<1>2. NoStaleClaim'
  BY DEF RingInv, NoStaleClaim, vars, producerVars
<1>3. ASSUME NEW p \in Producers, LoadWritei(p) PROVE RingParts'
  BY <1>1, <1>3, LocalStep DEF LoadWritei, RingInv, TypeOK, Publishing
<1>4. ASSUME NEW p \in Producers, LoadReadi(p) PROVE RingParts'
  BY <1>1, <1>4, LocalStep DEF LoadReadi, RingInv, TypeOK, Publishing
<1>5. ASSUME NEW p \in Producers, CasWritei(p) PROVE RingParts'
  BY <1>1, <1>5, ClaimStep
<1>6. ASSUME NEW p \in Producers, CasWriteiFails(p) PROVE RingParts'
  BY <1>1, <1>6, LocalStep DEF CasWriteiFails, RingInv, TypeOK, Publishing
<1>7. ASSUME NEW p \in Producers, Construct(p) PROVE RingParts'
  BY <1>1, <1>7, ConstructStep
<1>8. ASSUME NEW p \in Producers, Checkin(p) PROVE RingParts'
  BY <1>1, <1>8, CheckinStep
<1>9. ASSUME PopCheck PROVE RingParts'
  <2> USE <1>9 DEF PopCheck, producerVars, RingInv
  <2>1. Moved' = Moved
    BY DEF Moved
  <2>2. IndexInv' /\ ProducerInv' /\ CountInv' /\ FifoOrder'
    BY <2>1 DEF IndexInv, ProducerInv, Publishing, CountInv, FifoOrder
  <2>3. ContentInv'
    BY <2>1 DEF ContentInv, ContentAt, Occupied
  <2> QED
    BY <2>2, <2>3 DEF RingParts
<1>10. ASSUME PopMove PROVE RingParts'
  BY <1>1, <1>10, PopMoveStep
<1>11. ASSUME PopStore PROVE RingParts'
  BY <1>1, <1>11, PopStoreStep
<1>12. ASSUME UNCHANGED vars PROVE RingParts'
  BY <1>12 DEF RingInv, RingParts, vars, producerVars, IndexInv, ProducerInv,
               Publishing, CountInv, FifoOrder, ContentInv, ContentAt, Occupied, Moved
<1>13. RingParts'
  BY <1>3, <1>4, <1>5, <1>6, <1>7, <1>8, <1>9, <1>10, <1>11, <1>12
  DEF Next, Consumer, Producer
<1> QED
  BY <1>1, <1>2, <1>13 DEF RingInv, RingParts

\* The invariant holds before the first call.
LEMMA RingInit == Init => RingInv
<1> SUFFICES ASSUME Init PROVE RingInv
  OBVIOUS
<1> USE DEF Init
<1>1. TypeOK
  BY DEF TypeOK, Slots, Item
<1>2. \A s \in Slots : Distance(readi, s) \in Nat
  BY <1>1, DistanceType DEF TypeOK
<1>3. Distance(readi, readendi) = 0 /\ Distance(readi, writei) = 0 /\ Moved = 0
  BY DEF Distance, Moved
<1>4. NoStaleClaim /\ IndexInv /\ ProducerInv /\ CountInv /\ FifoOrder
  BY <1>3 DEF NoStaleClaim, IndexInv, ProducerInv, Publishing, CountInv, FifoOrder
<1>5. ASSUME NEW s \in Slots PROVE ContentAt(s)
  BY <1>2, <1>3 DEF ContentAt, Occupied
<1> QED
  BY <1>1, <1>4, <1>5 DEF RingInv, ContentInv

\* The ring's invariant holds in every behaviour without a stale claim.
LEMMA UnlappedRing == UnlappedSpec => []RingInv
BY RingInit, RingStep, PTL DEF UnlappedSpec

\* With any number of producers, as long as none makes a stale claim, try_pop
\* hands out the published items in order, none lost and none twice.
THEOREM UnlappedFifoOrder == UnlappedSpec => []FifoOrder
<1>1. RingInv => FifoOrder
  BY DEF RingInv
<1> QED
  BY <1>1, UnlappedRing, PTL

\* What the ring's invariant says about the slots and about an empty queue.
LEMMA RingSafe == RingInv => SlotExclusive /\ NeverFalselyEmpty
<1> SUFFICES ASSUME RingInv PROVE SlotExclusive /\ NeverFalselyEmpty
  OBVIOUS
<1> USE DEF RingInv
<1>1. /\ readi \in Slots /\ readendi \in Slots
      /\ \A s \in Slots : Distance(readi, s) \in Nat
      /\ Distance(readi, readi) = 0
      /\ Distance(readi, readendi) = 0 <=> readi = readendi
      /\ Len(pushed) \in Nat /\ Len(popped) \in Nat
  BY DistanceType DEF TypeOK
<1>2. ASSUME NEW p \in Producers, pc[p] = "construct" PROVE storage[slot[p]] = Nil
  <2>1. slot[p] \in Slots /\ ~Occupied(slot[p])
    BY <1>1, <1>2 DEF TypeOK, ProducerInv, Publishing, Occupied
  <2>2. \A q \in Producers : pc[q] = "checkin" => slot[q] # slot[p]
    BY <1>2 DEF ProducerInv, Publishing
  <2> QED
    BY <2>1, <2>2 DEF ContentInv, ContentAt
<1>3. ASSUME rpc = "move" PROVE storage[readi] # Nil
  <2>1. Moved = 0 /\ readi # readendi
    BY <1>3 DEF Moved, CountInv
  <2>2. Occupied(readi)
    BY <1>1, <2>1 DEF Occupied
  <2>3. Len(popped) < Len(pushed)
    BY <1>1, <2>1 DEF CountInv
  <2>4. storage[readi] = pushed[Len(popped) + 1]
    BY <1>1, <2>1, <2>2 DEF ContentInv, ContentAt
  <2>5. pushed[Len(popped) + 1] \in Item
    BY <1>1, <2>3 DEF TypeOK
  <2> QED
    BY <2>4, <2>5 DEF Item
<1>4. NeverFalselyEmpty
  BY <1>1 DEF NeverFalselyEmpty, CountInv, Moved
<1> QED
  BY <1>2, <1>3, <1>4 DEF SlotExclusive

-----------------------------------------------------------------------------
(* The ring implements the bounded FIFO.                                   *)

\* The step on the bounded FIFO that a step of the ring stands for.
LEMMA FifoStep ==
    RingInv /\ [Next]_vars
        => [Fifo!Next]_<<SubSeq(pushed, Len(popped) + 1, Len(pushed)), popped>>
<1> SUFFICES ASSUME RingInv, [Next]_vars
             PROVE  [Fifo!Next]_<<SubSeq(pushed, Len(popped) + 1, Len(pushed)), popped>>
  OBVIOUS
<1> DEFINE Q == SubSeq(pushed, Len(popped) + 1, Len(pushed))
<1>1. /\ pushed \in Seq(Item) /\ popped \in Seq(Item \cup {Nil})
      /\ Len(pushed) \in Nat /\ Len(popped) \in Nat
      /\ Len(popped) <= Len(pushed)
  BY DEF RingInv, TypeOK, FifoOrder
<1>2. \A i \in Len(popped) + 1 .. Len(pushed) : pushed[i] \in Item
  BY <1>1
<1>3. /\ Q \in Seq(Item) /\ Len(Q) = Len(pushed) - Len(popped)
      /\ \A i \in 1 .. Len(Q) : Q[i] = pushed[Len(popped) + i]
  <2>1. /\ Q \in Seq(Item)
        /\ Len(Q) = IF Len(popped) + 1 <= Len(pushed) THEN Len(pushed) - (Len(popped) + 1) + 1 ELSE 0
        /\ \A i \in 1 .. Len(pushed) - (Len(popped) + 1) + 1 : Q[i] = pushed[Len(popped) + 1 + i - 1]
    BY <1>1, <1>2, SubSeqProperties
  <2> QED
    BY <1>1, <2>1
<1>4. ASSUME NEW p \in Producers, Checkin(p) PROVE Fifo!Put(item[p]) /\ item[p] \in Item
  <2>1. item[p] \in Item
    BY <1>4 DEF Checkin, RingInv, TypeOK
  <2>2. Len(Q) < Capacity - 1
    <3>1. Distance(readi, readendi) < Distance(readi, writei)
      BY <1>4 DEF Checkin, RingInv, ProducerInv, Publishing
    <3>2. /\ Distance(readi, readendi) \in Nat
          /\ Distance(readi, writei) \in Nat
          /\ Distance(readi, writei) < Capacity
      BY DistanceType DEF RingInv, TypeOK
    <3>3. Len(Q) <= Distance(readi, readendi)
      BY <1>1, <1>3, <3>2 DEF RingInv, CountInv, Moved
    <3> QED
      BY <1>1, <1>3, <3>1, <3>2, <3>3
  <2>3. Q' = Append(Q, item[p])
    <3>1. pushed' = Append(pushed, item[p]) /\ popped' = popped
      BY <1>4 DEF Checkin
    <3>2. /\ pushed' \in Seq(Item) /\ Len(pushed') = Len(pushed) + 1
          /\ pushed'[Len(pushed) + 1] = item[p]
          /\ \A i \in 1 .. Len(pushed) : pushed'[i] = pushed[i]
      BY <1>1, <2>1, <3>1
    <3>3. \A i \in Len(popped) + 1 .. Len(pushed') : pushed'[i] \in Item
      BY <1>1, <3>2
    <3>4. /\ Q' \in Seq(Item)
          /\ Len(Q') = IF Len(popped) + 1 <= Len(pushed') THEN Len(pushed') - (Len(popped) + 1) + 1 ELSE 0
          /\ \A i \in 1 .. Len(pushed') - (Len(popped) + 1) + 1 : Q'[i] = pushed'[Len(popped) + 1 + i - 1]
      BY <1>1, <3>1, <3>2, <3>3, SubSeqProperties
    <3>5. Len(Q') = Len(Q) + 1
      BY <1>1, <1>3, <3>2, <3>4
    <3>6. Append(Q, item[p]) \in Seq(Item) /\ Len(Append(Q, item[p])) = Len(Q) + 1
      BY <1>3, <2>1
    <3>7. \A i \in 1 .. Len(Q') : Q'[i] = Append(Q, item[p])[i]
      <4> TAKE i \in 1 .. Len(Q')
      <4>1. Q'[i] = pushed'[Len(popped) + i]
        BY <1>1, <3>2, <3>4
      <4>2. CASE i = Len(Q) + 1
        <5>1. Len(popped) + i = Len(pushed) + 1
          BY <4>2, <1>1, <1>3
        <5>2. Append(Q, item[p])[Len(Q) + 1] = item[p]
          <6>1. Q \in Seq(Item) /\ item[p] \in Item
            BY <1>3, <2>1
          <6> HIDE DEF Q
          <6> QED
            BY <6>1, AppendProperties
        <5> QED
          BY <4>1, <4>2, <5>1, <5>2, <3>2
      <4>3. CASE i \in 1 .. Len(Q)
        BY <4>1, <4>3, <1>1, <1>3, <2>1, <3>2
      <4>4. Len(Q) \in Nat
        BY <1>1, <1>3
      <4>5. i \in 1 .. Len(Q) + 1
        BY <3>5
      <4> HIDE DEF Q
      <4> QED
        BY <4>2, <4>3, <4>4, <4>5
    <3> QED
      BY <3>4, <3>5, <3>6, <3>7, SeqEqual
  <2>4. popped' = popped
    BY <1>4 DEF Checkin
  <2> QED
    BY <2>1, <2>2, <2>3, <2>4 DEF Fifo!Put
<1>5. ASSUME PopMove PROVE Fifo!Take
  <2>1. Len(popped) < Len(pushed) /\ storage[readi] = pushed[Len(popped) + 1]
    BY <1>5, OldestItem DEF PopMove
  <2>2. Q # <<>>
    <3>1. Len(Q) > 0
      BY <1>1, <1>3, <2>1
    <3> HIDE DEF Q
    <3> QED
      BY <3>1
  <2>3. Tail(Q) = SubSeq(pushed, Len(popped) + 1 + 1, Len(pushed))
    BY <1>1, <2>1, HeadTailOfSubSeq
  <2>4. pushed' = pushed /\ Len(popped') = Len(popped) + 1
    BY <1>1, <1>5 DEF PopMove
  <2>5. Head(Q) = pushed[Len(popped) + 1]
    BY <1>1, <1>3, <2>1
  <2>6. popped' = Append(popped, Head(Q))
    BY <1>5, <2>1, <2>5 DEF PopMove
  <2> QED
    BY <2>2, <2>3, <2>4, <2>6 DEF Fifo!Take
<1>6. ASSUME UNCHANGED <<pushed, popped>> PROVE UNCHANGED <<Q, popped>>
  BY <1>6
<1>7. \/ \E p \in Producers : Checkin(p)
      \/ PopMove
      \/ UNCHANGED <<pushed, popped>>
  BY DEF Next, Consumer, Producer, LoadWritei, LoadReadi, CasWritei, CasWriteiFails,
         Construct, PopCheck, PopStore, vars
<1> QED
  BY <1>4, <1>5, <1>6, <1>7 DEF Fifo!Next

\* With any number of producers, as long as none makes a stale claim, the ring
\* buffer implements a FIFO that holds capacity() items.
THEOREM UnlappedImplementsFifo == UnlappedSpec => ImplementsFifo
<1>1. Init => Fifo!Init
  <2> SUFFICES ASSUME Init PROVE SubSeq(pushed, Len(popped) + 1, Len(pushed)) = <<>>
    BY DEF Init, Fifo!Init
  <2>1. Len(popped) + 1 = 1 /\ Len(pushed) = 0
    BY DEF Init
  <2> QED
    BY <2>1, SubSeqEmpty
<1>2. UnlappedSpec => [][Next]_vars
  <2>1. [Next /\ NoStaleClaim']_vars => [Next]_vars
    OBVIOUS
  <2> QED
    BY <2>1, PTL DEF UnlappedSpec
<1> QED
  BY <1>1, <1>2, UnlappedRing, FifoStep, PTL DEF UnlappedSpec, ImplementsFifo, Fifo!Spec

-----------------------------------------------------------------------------
(* One producer never makes a stale claim, so a queue with one producer    *)
(* and one consumer is a correct FIFO without further assumptions.         *)

SoleInv ==
    \A p \in Producers : pc[p] \in {"load_readi", "cas_writei"} => slot[p] = writei

\* A sole producer's view of writei_ is up to date and its check of readi_ stays
\* true until its compare-exchange.
LEMMA SoleStep ==
    ASSUME \A p, q \in Producers : p = q
    PROVE  RingInv /\ SoleInv /\ [Next]_vars => NoStaleClaim' /\ SoleInv'
<1> SUFFICES ASSUME RingInv, SoleInv, [Next]_vars PROVE NoStaleClaim' /\ SoleInv'
  OBVIOUS
<1> USE DEF RingInv, SoleInv, NoStaleClaim
<1>1. ASSUME NEW p \in Producers, Producer(p) PROVE NoStaleClaim' /\ SoleInv'
  BY <1>1 DEF Producer, LoadWritei, LoadReadi, CasWritei, CasWriteiFails, Construct,
              Checkin, TypeOK
<1>2. ASSUME PopCheck \/ PopMove \/ UNCHANGED vars PROVE NoStaleClaim' /\ SoleInv'
  BY <1>2 DEF PopCheck, PopMove, vars, producerVars
<1>3. ASSUME PopStore PROVE NoStaleClaim' /\ SoleInv'
  <2>1. readi \in Slots /\ writei \in Slots /\ readendi \in Slots
    BY DEF TypeOK
  <2>2. readi # readendi
    BY <1>3 DEF PopStore, CountInv
  <2>3. readi # writei
    BY <2>1, <2>2, DistanceType DEF IndexInv
  <2>4. readi' # wrap_reset(writei + 1)
    BY <1>3, <2>1, <2>3 DEF PopStore, wrap_reset, Slots
  <2> QED
    BY <1>3, <2>4 DEF PopStore, producerVars, ProducerInv
<1> QED
  BY <1>1, <1>2, <1>3 DEF Next, Consumer

\* A queue with a single producer never makes a stale claim.
THEOREM SoleProducerUnlapped ==
    ASSUME \A p, q \in Producers : p = q
    PROVE  Spec => UnlappedSpec /\ []NoStaleClaim
<1>1. Init => RingInv /\ SoleInv
  BY RingInit DEF Init, SoleInv
<1>2. RingInv /\ SoleInv /\ [Next]_vars => RingInv' /\ SoleInv' /\ [Next /\ NoStaleClaim']_vars
  BY SoleStep, RingStep
<1>3. RingInv => NoStaleClaim
  BY DEF RingInv
<1> QED
  BY <1>1, <1>2, <1>3, PTL DEF Spec, UnlappedSpec

\* A queue with a single producer and a single consumer implements the bounded
\* FIFO, never shares a slot and never looks empty while it holds an item.
THEOREM SoleProducerCorrect ==
    ASSUME \A p, q \in Producers : p = q
    PROVE  Spec => ImplementsFifo /\ []SlotExclusive /\ []NeverFalselyEmpty
<1>1. RingInv => SlotExclusive /\ NeverFalselyEmpty
  BY RingSafe
<1> QED
  BY <1>1, SoleProducerUnlapped, UnlappedRing, UnlappedImplementsFifo, PTL
=============================================================================
