--------------------------- MODULE MCAccountBooks ---------------------------
(* Trades for the model checker: each side with its commission in each     *)
(* asset that makes a difference to it, and a purchase consumed by its     *)
(* commission.                                                             *)
EXTENDS AccountBooks

Deal(side, qty, price, fee, asset) ==
  [side |-> side, qty |-> qty, price |-> price, fee |-> fee, asset |-> asset]

SomeKinds == {
  Deal("BUY", 3, 1, 1, "base"), Deal("BUY", 1, 3, 1, "quote"),
  Deal("SELL", 1, 4, 1, "quote"), Deal("SELL", 1, 2, 1, "base"),
  Deal("SELL", 2, 1, 1, "other"), Deal("BUY", 1, 1, 1, "base") }
=============================================================================
