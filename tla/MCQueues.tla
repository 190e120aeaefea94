------------------------------ MODULE MCQueues -------------------------------
(***************************************************************************)
(* Instances of the two queues of core/container/Queue.hpp.  A behaviour   *)
(* is about one of them, its subject; the other one rests.                 *)
(***************************************************************************)
EXTENDS SimpleQueue, PageQueue

VARIABLE subject

QueuesInit == subject \in {"ring", "pages"} /\ Init /\ PageInit

QueuesNext ==
    \/ subject = "ring" /\ Next /\ NoStaleClaim' /\ UNCHANGED <<subject, pageVars>>
    \/ subject = "pages" /\ PagePromptNext /\ UNCHANGED <<subject, vars>>

\* The consumer calls try_pop again and again, and a thread inside try_emplace is
\* not suspended for ever: Fairness of SimpleQueue, and the same of PageQueue.
QueuesSpec ==
    /\ QueuesInit /\ [][QueuesNext]_<<subject, vars, pageVars>>
    /\ WF_vars(subject = "ring" /\ Consumer)
    /\ \A p \in Producers :
         WF_vars(subject = "ring" /\ Construct(p)) /\ WF_vars(subject = "ring" /\ Checkin(p))
    /\ WF_pageVars(subject = "pages" /\ PageConsumer)
    /\ \A p \in PageProducers :
         WF_pageVars(subject = "pages" /\ PageConstruct(p)) /\ WF_pageVars(subject = "pages" /\ PageCheckin(p))

(***************************************************************************)
(* What try_emplace accepts is handed out, as long as try_pop is called: a *)
(* claimed slot is published and popped, in the ring and behind a page     *)
(* whose last item was published late, and neither side gets stuck.        *)
(***************************************************************************)
QueuesServe == ClaimedIsPopped /\ AlwaysDrainedAgain

=============================================================================
