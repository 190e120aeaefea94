---------------------------- MODULE ExchangeQueue ----------------------------
(***************************************************************************)
(* The triple buffer of ExchangeQueue.hpp, of which only the latest item   *)
(* can be polled: one cell is the reader's, one the writers', and one is   *)
(* swapped with atomic exchanges.  Writers hold the spinlock of the        *)
(* multiple write policy; with one writer it is the single write policy.   *)
(*                                                                         *)
(* writebits is one plain word that the reader and a writer both change:   *)
(* a change is a load and a store with anything in between.  With          *)
(* SplitBits the store is of the word that was loaded; without it, it is   *)
(* of the word of now, as if the word were atomic.                         *)
(***************************************************************************)
EXTENDS Integers, FiniteSets

CONSTANTS
    Writers,
    MaxPushes,      \* bound: items pushed
    SplitBits

VARIABLES
    lasti, readi, writei,
    writebits,      \* the cells whose bit is set
    cells,          \* the item constructed in a cell, or Raw
    readpc, rloaded,   \* the reader, and the word it has loaded
    wpc, wloaded,   \* the writers, and the word the one with the lock has loaded
    writelock,
    published,         \* ghost: items published so far; the latest is pushed itself
    polled,         \* ghost: the latest item polled
    missed,         \* ghost: the item in the cell when the last try_pop gave nothing
    broken          \* ghost: an item was moved from, or destructed, where there is none

exchangeVars == <<lasti, readi, writei, writebits, cells, readpc, rloaded, wpc, wloaded, writelock, published, polled, missed, broken>>
readerVars == <<readi, readpc, rloaded, polled, missed>>
writerVars == <<writei, wpc, wloaded, writelock, published>>

Raw == 0
NoWriter == "none"

ASSUME ExchangeAssumption == NoWriter \notin Writers /\ MaxPushes \in Nat

ExchangeInit ==
    /\ lasti = 0 /\ readi = 1 /\ writei = 2
    /\ writebits = {} /\ cells = [i \in 0 .. 2 |-> Raw]
    /\ readpc = "idle" /\ rloaded = {} /\ wpc = [w \in Writers |-> "idle"] /\ wloaded = {}
    /\ writelock = NoWriter /\ published = 0 /\ polled = 0 /\ missed = Raw /\ broken = FALSE

-----------------------------------------------------------------------------
(* try_pop.                                                                *)

PopExchange ==
    /\ readpc = "idle" /\ readi' = lasti /\ lasti' = readi
    /\ readpc' = "test"
    /\ UNCHANGED <<writebits, cells, rloaded, polled, missed, broken, writerVars>>

PopTest ==
    /\ readpc = "test"
    /\ IF readi \in writebits
       THEN /\ readpc' = "reset" /\ polled' = cells[readi] /\ missed' = Raw
            /\ broken' = (broken \/ cells[readi] = Raw)
       ELSE readpc' = "idle" /\ missed' = cells[readi] /\ UNCHANGED <<polled, broken>>
    /\ UNCHANGED <<lasti, readi, writebits, cells, rloaded, writerVars>>

PopLoadBits ==
    /\ readpc = "reset" /\ rloaded' = writebits /\ readpc' = "store"
    /\ UNCHANGED <<lasti, readi, writebits, cells, polled, missed, broken, writerVars>>

\* The item is destructed by the time that the next exchange gives the cell away.
PopReset ==
    /\ readpc = "store"
    /\ writebits' = (IF SplitBits THEN rloaded ELSE writebits) \ {readi}
    /\ cells' = [cells EXCEPT ![readi] = Raw]
    /\ readpc' = "idle"
    /\ UNCHANGED <<lasti, readi, rloaded, polled, missed, broken, writerVars>>

-----------------------------------------------------------------------------
(* try_push.                                                               *)

Lock(w) ==
    /\ wpc[w] = "idle" /\ writelock = NoWriter /\ published < MaxPushes
    /\ writelock' = w /\ wpc' = [wpc EXCEPT ![w] = "set"]
    /\ UNCHANGED <<lasti, writei, writebits, cells, wloaded, published, broken, readerVars>>

PushLoad(w) ==
    /\ wpc[w] = "set" /\ wloaded' = writebits /\ wpc' = [wpc EXCEPT ![w] = "store"]
    /\ UNCHANGED <<lasti, writei, writebits, cells, writelock, published, broken, readerVars>>

PushSet(w) ==
    /\ wpc[w] = "store"
    /\ writebits' = (IF SplitBits THEN wloaded ELSE writebits) \cup {writei}
    /\ cells' = [cells EXCEPT ![writei] = published + 1]
    /\ wpc' = [wpc EXCEPT ![w] = "exchange"]
    /\ UNCHANGED <<lasti, writei, wloaded, writelock, published, broken, readerVars>>

PushExchange(w) ==
    /\ wpc[w] = "exchange"
    /\ writei' = lasti /\ lasti' = writei /\ published' = published + 1
    /\ wpc' = [wpc EXCEPT ![w] = "remove"]
    /\ UNCHANGED <<writebits, cells, wloaded, writelock, broken, readerVars>>

\* PushRemove that leaves an unread item in the cell.
PushRemoveNothing(w) ==
    /\ wpc[w] = "remove"
    /\ wpc' = [wpc EXCEPT ![w] = "idle"] /\ writelock' = NoWriter
    /\ UNCHANGED <<cells, broken, lasti, writei, writebits, wloaded, published, readerVars>>

\* The bit of an unread item is left set, for the next push to set again.
PushRemove(w) ==
    /\ wpc[w] = "remove"
    /\ IF writei \in writebits
       THEN cells' = [cells EXCEPT ![writei] = Raw] /\ broken' = (broken \/ cells[writei] = Raw)
       ELSE UNCHANGED <<cells, broken>>
    /\ wpc' = [wpc EXCEPT ![w] = "idle"] /\ writelock' = NoWriter
    /\ UNCHANGED <<lasti, writei, writebits, wloaded, published, readerVars>>

ExchangeNext ==
    \/ PopExchange \/ PopTest \/ PopLoadBits \/ PopReset
    \/ \E w \in Writers : Lock(w) \/ PushLoad(w) \/ PushSet(w) \/ PushExchange(w) \/ PushRemove(w)

ExchangeSpec == ExchangeInit /\ [][ExchangeNext]_exchangeVars

-----------------------------------------------------------------------------
(* Properties.                                                             *)

\* "Only the latest written data can be polled" (ExchangeQueue.hpp:21-22):
\* an exchange that gives the reader nothing had nothing to give, and between
\* two calls the latest item is polled or is at hand.
PollsLatest ==
    /\ missed = Raw
    /\ readpc = "idle" => polled = published \/ cells[lasti] = published

\* However reader and writers interleave, the three cells stay apart, no item
\* is used or destructed where there is none, none is left behind in the
\* writers' cell, and the reader polls the latest (try_pop, try_push).
LatestPolled ==
    /\ Cardinality({lasti, readi, writei}) = 3
    /\ ~broken
    /\ writelock = NoWriter => cells[writei] = Raw
    /\ PollsLatest

=============================================================================
