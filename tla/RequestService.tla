---------------------------- MODULE RequestService ----------------------------
(***************************************************************************)
(* What the job queue promises, whatever happens between SQS, the queue in *)
(* Redis and the scheduler: an accepted request is pending until it is     *)
(* answered, it is answered once, and it is never lost or taken up again.  *)
(***************************************************************************)
VARIABLES
  pending,  \* the accepted requests that are yet to be answered
  answered

serviceVars == <<pending, answered>>

ServiceInit == pending = {} /\ answered = {}

\* A request that is neither pending nor answered becomes pending.
Accept ==
  /\ \E id \in pending' \ (pending \cup answered) : pending' = pending \cup {id}
  /\ UNCHANGED answered

\* A pending request is done with.
Answer(id) ==
  /\ pending' = pending \ {id}
  /\ answered' = answered \cup {id}

ServiceNext == Accept \/ \E id \in pending : Answer(id)

ServiceSpec == ServiceInit /\ [][ServiceNext]_serviceVars
==============================================================================
