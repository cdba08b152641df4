----------------------------- MODULE MCPurchase -----------------------------
(***************************************************************************)
(* An instance of Purchase for TLC: a buyer with an account and a session,    *)
(* asked to pay sound offers and offers only some of the roles would take.    *)
(***************************************************************************)
EXTENDS Purchase, TLC

MCAssets == {"ugnot", "0ugnot", "ugnot,1ugnot"}
MCAmounts == {"5", "0"}
MCValue == [n \in {"5"} |-> 5]

Gnot(n) == [denom |-> "ugnot", amount |-> n]

MCParsedCoins == [na \in MCAmounts \X MCAssets |->
  CASE na = <<"5", "ugnot">>        -> <<Gnot(5)>>
    [] na = <<"5", "0ugnot">>       -> <<Gnot(50)>>
    [] OTHER                        -> <<>>]

MCDecoded == [p \in {"payee", "PAYEE", "nobody"} |->
  IF p = "nobody" THEN NoPayee ELSE "payee"]

SoundOffer == [scheme |-> "exact", network |-> "here", asset |-> "ugnot", amount |-> "5",
               payTo |-> "payee", memo |-> Unset, terms |-> Unset]

\* The sound offer, and those that differ from it in one key.
MCAsked ==
  {[SoundOffer EXCEPT !.network = n] : n \in {"here", "there", "no gno chain"}}
  \cup {[SoundOffer EXCEPT !.asset = d] : d \in MCAssets}
  \cup {[SoundOffer EXCEPT !.payTo = p] : p \in {"PAYEE", "nobody"}}
  \cup {[SoundOffer EXCEPT !.memo = m] : m \in {"invoice", "over the cap"}}
  \cup {[SoundOffer EXCEPT !.amount = "0"], [SoundOffer EXCEPT !.terms = "other terms"],
        [SoundOffer EXCEPT !.scheme = "other scheme"]}

MCAddressOf == [k \in {"key", "session key"} |-> IF k = "key" THEN "buyer" ELSE "session"]
MCMasterOf == [s \in {"session"} |-> "buyer"]

\* None, one the fee rounds at, one it is the ceiling of, one above it, one in another
\* coin, and one no chain has.
MCGasPrices ==
  {[amount |-> 0, gas |-> 0, native |-> FALSE]}
  \cup {[amount |-> a, gas |-> 3, native |-> TRUE] : a \in {1, 3, 4, -1}}
  \cup {[amount |-> 1, gas |-> 3, native |-> FALSE]}

=============================================================================
