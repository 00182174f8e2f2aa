--------------------------- MODULE SafeSubmission ---------------------------
(***************************************************************************)
(* What the engine promises about orders, with none of its machinery.  A   *)
(* record is kept of every order; an order is live from the moment it is   *)
(* sent until it is certain that it was never placed.  The engine sends    *)
(* only while it trades, only an order it has recorded, never one that is  *)
(* live already, and nothing at all while the fate of any order is in      *)
(* doubt.  It begins to trade only with no doubt left and with a record of *)
(* every order of its own that is live.                                    *)
(***************************************************************************)
CONSTANTS Orders,  \* every order of the account
          Own      \* the ones only the engine sends

VARIABLES record,  \* [Orders -> {"absent", "open", "doubtful", "final"}]
          live,    \* orders sent and not known to be lost
          trading  \* may the engine send

svars == <<record, live, trading>>

NoDoubt == \A o \in Orders : record[o] # "doubtful"

SInit ==
  /\ record = [o \in Orders |-> "absent"]
  /\ live = {}
  /\ trading = FALSE

BeginTrading ==
  /\ ~trading /\ trading' = TRUE
  /\ NoDoubt
  /\ \A o \in Own \intersect live : record[o] # "absent"
  /\ UNCHANGED <<record, live>>

EndTrading ==
  /\ trading /\ trading' = FALSE
  /\ UNCHANGED <<record, live>>

Intend(o) ==
  /\ trading /\ NoDoubt
  /\ record[o] = "absent"
  /\ record' = [record EXCEPT ![o] = "open"]
  /\ UNCHANGED <<live, trading>>

Send(o) ==
  /\ trading /\ NoDoubt
  /\ record[o] = "open" /\ o \notin live
  /\ live' = live \union {o}
  /\ UNCHANGED <<record, trading>>

\* The answer to an order that is on record.
Settle(o) ==
  /\ trading /\ record[o] = "open"
  /\ \E r \in {"open", "doubtful", "final"} :
       record' = [record EXCEPT ![o] = r]
  /\ UNCHANGED <<live, trading>>

\* Before trading the records are brought in line with the account; what was
\* final stays final.
Reconcile(o) ==
  /\ ~trading
  /\ \E r \in {"open", "doubtful", "final"} :
       /\ record[o] = "final" => r = "final"
       /\ record' = [record EXCEPT ![o] = r]
  /\ UNCHANGED <<live, trading>>

Lose(o) ==
  /\ o \in live /\ live' = live \ {o}
  /\ UNCHANGED <<record, trading>>

PlacedByOthers(o) ==
  /\ o \notin Own
  /\ live' = live \union {o}
  /\ UNCHANGED <<record, trading>>

Forget ==
  /\ ~trading
  /\ record' = [o \in Orders |-> "absent"]
  /\ UNCHANGED <<live, trading>>

SNext ==
  \/ BeginTrading \/ EndTrading \/ Forget
  \/ \E o \in Orders : \/ Intend(o) \/ Send(o) \/ Settle(o)
                       \/ Reconcile(o) \/ Lose(o) \/ PlacedByOthers(o)

SSpec == SInit /\ [][SNext]_svars

---------------------------------------------------------------------------
\* What whoever relies on the promise needs: while orders can be sent, each
\* own order that is live is one the records know of (reconciliation.py:57,
\* execution_pipeline.py:182).
NothingForgotten == trading => \A o \in Own \intersect live : record[o] # "absent"
=============================================================================
