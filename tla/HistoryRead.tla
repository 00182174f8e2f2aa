----------------------------- MODULE HistoryRead -----------------------------
(***************************************************************************)
(* What a read of the trade history promises: however many requests it     *)
(* takes and whatever is traded meanwhile, its result is the whole history *)
(* at one moment, and there is no result before that.                      *)
(***************************************************************************)
EXTENDS Naturals

CONSTANT TradeIds   \* a set of naturals

VARIABLES
  traded,   \* ids of the trades made
  phase,    \* "idle", "reading" or "done"
  result    \* ids read, when done

vars == <<traded, phase, result>>

Init == traded = {} /\ phase = "idle" /\ result = {}

\* The exchange gives a new trade an id above all earlier ones.
Trade ==
  /\ \E i \in TradeIds : (\A j \in traded : j < i) /\ traded' = traded \union {i}
  /\ UNCHANGED <<phase, result>>

Begin == phase = "idle" /\ phase' = "reading" /\ UNCHANGED <<traded, result>>

Read ==
  /\ phase = "reading" /\ phase' = "done"
  /\ result' = traded
  /\ UNCHANGED traded

\* The read is given up, or its result is not needed any more.
Leave ==
  /\ phase # "idle" /\ phase' = "idle"
  /\ result' = {}
  /\ UNCHANGED traded

Next == Trade \/ Begin \/ Read \/ Leave

Spec == Init /\ [][Next]_vars
=============================================================================
