------------------------------ MODULE PageQueue ------------------------------
(***************************************************************************)
(* core::container::PageQueue (core/container/Queue.hpp), the queue that   *)
(* the scheduler, ui, viewer, renderer, mixer and physics are posted to.   *)
(* It is a list of ring buffers (pages), newest first.  A producer claims, *)
(* constructs and publishes in the newest page as in SimpleQueue; when the *)
(* page is full it allocates one twice as large and puts it in front with  *)
(* a compare-exchange of write_header.  The consumer pops from the oldest  *)
(* page, and frees it once it is drained and there is a newer one.         *)
(*                                                                         *)
(* Every access to an index, a slot or write_header is a step; memory is   *)
(* sequentially consistent.  A page is named by its address, and a freed   *)
(* address is handed out again.                                            *)
(***************************************************************************)
EXTENDS Integers, Sequences, FiniteSets

CONSTANTS
    PageProducers,  \* the threads that call try_emplace/try_push
    First,          \* the capacity of the first page, 0 for PageQueue()
    MaxPageItems,   \* bound: how many try_emplace calls are ever made
    MaxPages,       \* bound: how many pages fit in memory
    NoPage          \* no item, no page

ASSUME PageQueueAssumption ==
    /\ First \in Nat /\ MaxPageItems \in Nat /\ MaxPages \in Nat \ {0}
    /\ NoPage \notin Nat

VARIABLES
    page,                               \* the headers and their storage, by address
    write_header,                       \* the newest page
    pagePc, header, fresh,              \* of each producer: its page, the one it allocated,
    pageSlot, pageNext, pageItem,       \*   its slot, the index after it, what it pushes
    pageRpc, read_header, next_header,  \* the consumer's locals
    pageIssued,                         \* try_emplace calls so far; numbers the items
    pagePushed,                         \* the items published, in that order
    pagePopped,                         \* the items moved out by try_pop
    alive                               \* the queue is not destructed

pageProducerVars == <<pagePc, header, fresh, pageSlot, pageNext, pageItem>>
consumerVars == <<pageRpc, read_header, next_header>>
pageVars == <<page, write_header, pageProducerVars, consumerVars, pageIssued, pagePushed, pagePopped, alive>>

Empty == 0              \* the address of the static empty_header
Pages == 1 .. MaxPages  \* the addresses the allocator hands out

\* PageQueueHeader, in front of capacity slots.
Header(previous, capacity) ==
    [previous |-> previous, readi |-> 0, readendi |-> 0, writei |-> 0,
     capacity |-> capacity, storage |-> [s \in 0 .. capacity - 1 |-> NoPage]]

Live == {h \in Pages : page[h] # NoPage}
Address == CHOOSE h \in Pages \ Live : \A g \in Pages \ Live : h <= g

page_wrap_reset(value, max) == IF value < max THEN value ELSE 0

\* ReservationStrategy(capacity + 1): the next power of two.
Grown(capacity) == IF capacity = 0 THEN 1 ELSE 2 * capacity

-----------------------------------------------------------------------------

PageInit ==
    /\ page = [h \in 0 .. MaxPages |->
                 IF h = Empty THEN Header(Empty, 0)
                 ELSE IF h = 1 /\ First > 0 THEN Header(Empty, First) ELSE NoPage]
    /\ write_header = IF First > 0 THEN 1 ELSE Empty
    /\ pagePc = [p \in PageProducers |-> "idle"]
    /\ header = [p \in PageProducers |-> NoPage]
    /\ fresh = [p \in PageProducers |-> NoPage]
    /\ pageSlot = [p \in PageProducers |-> 0]
    /\ pageNext = [p \in PageProducers |-> 0]
    /\ pageItem = [p \in PageProducers |-> NoPage]
    /\ pageRpc = "idle" /\ read_header = NoPage /\ next_header = NoPage
    /\ pageIssued = 0
    /\ pagePushed = <<>>
    /\ pagePopped = <<>>
    /\ alive = TRUE

\* try_emplace returns, and its locals are gone.
Returns(p) ==
    /\ header' = [header EXCEPT ![p] = NoPage]
    /\ pageSlot' = [pageSlot EXCEPT ![p] = 0]
    /\ pageNext' = [pageNext EXCEPT ![p] = 0]
    /\ pageItem' = [pageItem EXCEPT ![p] = NoPage]
    /\ pagePc' = [pagePc EXCEPT ![p] = "idle"]

\* try_emplace is called and loads write_header.  The item carries how many items
\* were published by then.
LoadHeader(p) ==
    /\ alive /\ pagePc[p] = "idle" /\ pageIssued < MaxPageItems
    /\ pageIssued' = pageIssued + 1
    /\ pageItem' = [pageItem EXCEPT ![p] = [number |-> pageIssued', after |-> Len(pagePushed)]]
    /\ header' = [header EXCEPT ![p] = write_header]
    /\ pagePc' = [pagePc EXCEPT ![p] = "load_writei"]
    /\ UNCHANGED <<page, write_header, fresh, pageSlot, pageNext, consumerVars, pagePushed, pagePopped, alive>>

\* checkout_write_slot loads writei_.
PageLoadWritei(p) ==
    /\ pagePc[p] = "load_writei"
    /\ pageSlot' = [pageSlot EXCEPT ![p] = page[header[p]].writei]
    /\ pagePc' = [pagePc EXCEPT ![p] = "load_readi"]
    /\ UNCHANGED <<page, write_header, header, fresh, pageNext, pageItem, consumerVars, pageIssued, pagePushed,
                   pagePopped, alive>>

\* checkout_write_slot loads readi_; the page is full one slot short of it.  Of
\* the empty_header, which has no slots, and of a page with one, this is always so.
PageLoadReadi(p) ==
    /\ pagePc[p] = "load_readi"
    /\ pageNext' = [pageNext EXCEPT ![p] = page_wrap_reset(pageSlot[p] + 1, page[header[p]].capacity)]
    /\ pagePc' = [pagePc EXCEPT ![p] =
                 IF page[header[p]].readi = pageNext'[p] THEN "allocate" ELSE "cas_writei"]
    /\ UNCHANGED <<page, write_header, header, fresh, pageSlot, pageItem, consumerVars, pageIssued, pagePushed,
                   pagePopped, alive>>

\* The compare-exchange of writei_ that claims the slot.
PageCasWritei(p) ==
    /\ pagePc[p] = "cas_writei"
    /\ page[header[p]].writei = pageSlot[p]
    /\ page' = [page EXCEPT ![header[p]].writei = pageNext[p]]
    /\ pagePc' = [pagePc EXCEPT ![p] = "construct"]
    /\ UNCHANGED <<write_header, header, fresh, pageSlot, pageNext, pageItem, consumerVars, pageIssued, pagePushed,
                   pagePopped, alive>>

\* The compare-exchange fails, because writei_ moved or spuriously.
PageCasWriteiFails(p) ==
    /\ pagePc[p] = "cas_writei"
    /\ pageSlot' = [pageSlot EXCEPT ![p] = page[header[p]].writei]
    /\ pagePc' = [pagePc EXCEPT ![p] = "load_readi"]
    /\ UNCHANGED <<page, write_header, header, fresh, pageNext, pageItem, consumerVars, pageIssued, pagePushed,
                   pagePopped, alive>>

\* The page is full: a larger one is allocated, with the full one as previous_.
Allocate(p) ==
    /\ pagePc[p] = "allocate"
    /\ Live # Pages
    /\ page' = [page EXCEPT ![Address] = Header(header[p], Grown(page[header[p]].capacity))]
    /\ fresh' = [fresh EXCEPT ![p] = Address]
    /\ pagePc' = [pagePc EXCEPT ![p] = "cas_header"]
    /\ UNCHANGED <<write_header, header, pageSlot, pageNext, pageItem, consumerVars, pageIssued, pagePushed, pagePopped,
                   alive>>

\* The allocator returns no page, and try_emplace returns false.
AllocateFails(p) ==
    /\ pagePc[p] = "allocate"
    /\ Returns(p)
    /\ UNCHANGED <<page, write_header, fresh, consumerVars, pageIssued, pagePushed, pagePopped,
                   alive>>

\* The new page is put in front, unless another producer has put one there: then
\* the new page is deallocated and the other's is tried.
CasHeader(p) ==
    /\ pagePc[p] = "cas_header"
    /\ IF write_header = header[p]
       THEN /\ write_header' = fresh[p]
            /\ UNCHANGED page
       ELSE /\ page' = [page EXCEPT ![fresh[p]] = NoPage]
            /\ UNCHANGED write_header
    /\ header' = [header EXCEPT ![p] = write_header']
    /\ fresh' = [fresh EXCEPT ![p] = NoPage]
    /\ pagePc' = [pagePc EXCEPT ![p] = "load_writei"]
    /\ UNCHANGED <<pageSlot, pageNext, pageItem, consumerVars, pageIssued, pagePushed, pagePopped, alive>>

\* The item is constructed in the claimed slot.
PageConstruct(p) ==
    /\ pagePc[p] = "construct"
    /\ page' = [page EXCEPT ![header[p]].storage[pageSlot[p]] = pageItem[p]]
    /\ pagePc' = [pagePc EXCEPT ![p] = "checkin"]
    /\ UNCHANGED <<write_header, header, fresh, pageSlot, pageNext, pageItem, consumerVars, pageIssued, pagePushed,
                   pagePopped, alive>>

\* checkin_write_slot spins until readendi_ is this producer's slot, and then
\* publishes the item; try_emplace returns true.
PageCheckin(p) ==
    /\ pagePc[p] = "checkin"
    /\ page[header[p]].readendi = pageSlot[p]
    /\ page' = [page EXCEPT ![header[p]].readendi = pageNext[p]]
    /\ pagePushed' = Append(pagePushed, pageItem[p])
    /\ Returns(p)
    /\ UNCHANGED <<write_header, fresh, consumerVars, pageIssued, pagePopped, alive>>

-----------------------------------------------------------------------------

\* Back[k] is the page k steps behind write_header.
Back[k \in 0 .. MaxPages] == IF k = 0 THEN write_header ELSE page[Back[k - 1]].previous

\* How far behind write_header the oldest page is.
Oldest == CHOOSE k \in 0 .. MaxPages :
              /\ page[Back[k]].previous = Empty
              /\ \A j \in 0 .. k - 1 : page[Back[j]].previous # Empty

\* try_pop is called, loads write_header and walks to the oldest page.  Only the
\* consumer changes the previous_ of a page that is in the list.
PopLoad ==
    /\ alive /\ pageRpc = "idle"
    /\ read_header' = Back[Oldest]
    /\ next_header' = IF Oldest = 0 THEN NoPage ELSE Back[Oldest - 1]
    /\ pageRpc' = IF Oldest = 0 THEN "check" ELSE "oldest"
    /\ UNCHANGED <<page, write_header, pageProducerVars, pageIssued, pagePushed, pagePopped, alive>>

\* Mutant: a drained page stays in the list.
PopOldestKept ==
    /\ pageRpc = "oldest"
    /\ pageRpc' = "check"
    /\ UNCHANGED <<page, write_header, pageProducerVars, read_header, next_header, pageIssued, pagePushed,
                   pagePopped, alive>>

\* Mutant: a page is drained when no item in it is published.
PopOldestUnpublished ==
    /\ pageRpc = "oldest"
    /\ pageRpc' = IF page[read_header].readi = page[read_header].readendi THEN "free" ELSE "check"
    /\ UNCHANGED <<page, write_header, pageProducerVars, read_header, next_header, pageIssued, pagePushed,
                   pagePopped, alive>>

\* A page that is not the newest is drained when no slot in it is claimed.
PopOldest ==
    /\ pageRpc = "oldest"
    /\ pageRpc' = IF page[read_header].readi = page[read_header].writei THEN "free" ELSE "check"
    /\ UNCHANGED <<page, write_header, pageProducerVars, read_header, next_header, pageIssued, pagePushed,
                   pagePopped, alive>>

\* The drained page is unlinked and deallocated.
PopFree ==
    /\ pageRpc = "free"
    /\ page' = [page EXCEPT ![next_header].previous = Empty, ![read_header] = NoPage]
    /\ read_header' = next_header
    /\ pageRpc' = "check"
    /\ UNCHANGED <<write_header, pageProducerVars, next_header, pageIssued, pagePushed, pagePopped, alive>>

\* try_pop compares readi_ with readendi_, and returns false when they are equal.
PagePopCheck ==
    /\ pageRpc = "check"
    /\ IF page[read_header].readi = page[read_header].readendi
       THEN pageRpc' = "idle" /\ read_header' = NoPage /\ next_header' = NoPage
       ELSE pageRpc' = "move" /\ UNCHANGED <<read_header, next_header>>
    /\ UNCHANGED <<page, write_header, pageProducerVars, pageIssued, pagePushed, pagePopped, alive>>

\* The item is moved out of its slot and destroyed.
PagePopMove ==
    /\ pageRpc = "move"
    /\ LET s == page[read_header].readi
       IN  /\ pagePopped' = Append(pagePopped, page[read_header].storage[s])
           /\ page' = [page EXCEPT ![read_header].storage[s] = NoPage]
    /\ pageRpc' = "store"
    /\ UNCHANGED <<write_header, pageProducerVars, read_header, next_header, pageIssued, pagePushed, alive>>

\* readi_ is advanced past the slot; try_pop returns true.
PagePopStore ==
    /\ pageRpc = "store"
    /\ page' = [page EXCEPT ![read_header].readi =
                   page_wrap_reset(@ + 1, page[read_header].capacity)]
    /\ pageRpc' = "idle" /\ read_header' = NoPage /\ next_header' = NoPage
    /\ UNCHANGED <<write_header, pageProducerVars, pageIssued, pagePushed, pagePopped, alive>>

\* The addresses of the pages in the list.
Linked == {Back[k] : k \in 0 .. Oldest} \ {Empty}

\* The queue is destructed, when nobody uses it: every page is deallocated, and
\* the items in them are not destroyed.
Destruct ==
    /\ alive /\ pageRpc = "idle" /\ \A p \in PageProducers : pagePc[p] = "idle"
    /\ alive' = FALSE
    /\ page' = [h \in DOMAIN page |-> IF h \in Linked THEN NoPage ELSE page[h]]
    /\ write_header' = Empty
    /\ UNCHANGED <<pageProducerVars, consumerVars, pageIssued, pagePushed, pagePopped>>

PageProducer(p) ==
    \/ LoadHeader(p)
    \/ PageLoadWritei(p)
    \/ PageLoadReadi(p)
    \/ PageCasWritei(p)
    \/ PageCasWriteiFails(p)
    \/ Allocate(p)
    \/ AllocateFails(p)
    \/ CasHeader(p)
    \/ PageConstruct(p)
    \/ PageCheckin(p)

PageConsumer == PopLoad \/ PopOldest \/ PopFree \/ PagePopCheck \/ PagePopMove \/ PagePopStore

PageNext == PageConsumer \/ Destruct \/ \E p \in PageProducers : PageProducer(p)

PageSpec == PageInit /\ [][PageNext]_pageVars

(***************************************************************************)
(* What the code leaves to timing.  A producer holds a page in `header'    *)
(* from its load of write_header on, and nothing tells the consumer.  If   *)
(* the others fill, supersede and drain the page meanwhile, it is freed    *)
(* under the producer.  NoStalePage says that this is not about to happen, *)
(* and NoStalePageClaim is NoStaleClaim of SimpleQueue.                    *)
(***************************************************************************)
Searching(p) == pagePc[p] \in {"load_writei", "load_readi", "cas_writei", "allocate"}

NoStalePage ==
    pageRpc = "free" => \A p \in PageProducers : Searching(p) => header[p] # read_header

NoStalePageClaim ==
    \A p \in PageProducers :
        pagePc[p] = "cas_writei" /\ page[header[p]].writei = pageSlot[p]
            => pageNext[p] # page[header[p]].readi

\* What may happen while no producer is held up for that long.
PagePromptNext == PageNext /\ NoStalePage' /\ NoStalePageClaim'
PagePromptSpec == PageInit /\ [][PagePromptNext]_pageVars

-----------------------------------------------------------------------------
(* Properties.                                                             *)

(***************************************************************************)
(* Memory is accounted for: a page is allocated exactly while it is in the *)
(* list or about to be put there by the producer that allocated it, so     *)
(* none is leaked by a lost compare-exchange of write_header or freed      *)
(* twice, and no thread is inside a page that is freed.  (The address that *)
(* CasHeader compares may have been freed and handed out again; then the   *)
(* page put in front may be smaller than the one behind it, no worse.)     *)
(***************************************************************************)
PagesAccounted ==
    /\ Live = Linked \cup {fresh[p] : p \in {q \in PageProducers : fresh[q] # NoPage}}
    /\ \A p \in PageProducers : header[p] \notin {NoPage, Empty} /\ pagePc[p] # "cas_header" => header[p] \in Live
    /\ pageRpc # "idle" => read_header \in Linked \cup {Empty}

\* The published items of a page that try_pop has not moved out, oldest first.
Unread(h) ==
    LET P == page[h]
        moved == IF pageRpc = "store" /\ read_header = h THEN 1 ELSE 0
        count == IF P.readi <= P.readendi THEN P.readendi - P.readi
                                          ELSE P.capacity - P.readi + P.readendi
    IN  [i \in 1 .. count - moved |->
            P.storage[(P.readi + moved + i - 1) % P.capacity]]

\* The same of the whole list.
Backlog ==
    LET upto[k \in 0 .. Oldest] == IF k = 0 THEN Unread(Back[Oldest])
                                   ELSE upto[k - 1] \o Unread(Back[Oldest - k])
    IN  upto[Oldest]

(***************************************************************************)
(* What try_pop has handed out and what it is going to hand out is         *)
(* exactly what was published, however the items are spread over pages:    *)
(* none is lost with a freed page and none comes out twice.  An item never *)
(* comes out before one that was published when its own try_emplace was    *)
(* called, by whichever thread: what the scheduler's destructor relies on  *)
(* when it posts Terminate behind the works.                               *)
(***************************************************************************)
OrderKept ==
    LET out == pagePopped \o Backlog
    IN  alive =>
          /\ Len(out) = Len(pagePushed)
          /\ {out[i] : i \in 1 .. Len(out)} = {pagePushed[i] : i \in 1 .. Len(pagePushed)}
          /\ \A i, j \in 1 .. Len(out) :
                i < j => \A k \in 1 .. out[i].after : pagePushed[k] # out[j]

\* Both: neither pages nor items are lost, doubled or out of order (PageQueue.hpp).
PagesKept == PagesAccounted /\ OrderKept

\* Nothing is claimed that is not published, nor published that is not popped.
Drained ==
    /\ \A p \in PageProducers : pagePc[p] \notin {"construct", "checkin"}
    /\ Backlog = <<>>

(***************************************************************************)
(* As long as try_pop is called, the queue is drained again and again: a   *)
(* claimed slot is published, its item reaches the consumer also from      *)
(* behind a page whose last item was published late, and try_pop never     *)
(* gets stuck on a page that is neither readable nor freed.                *)
(***************************************************************************)
AlwaysDrainedAgain == []<>(~alive \/ Drained)

=============================================================================
