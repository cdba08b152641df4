---------------------------- MODULE MCVerification ----------------------------
(***************************************************************************)
(* An instance of Verification for TLC: the offers and payments that differ   *)
(* from a sound one in one thing the rules read, over two payers, one of      *)
(* which has registered a session.                                           *)
(***************************************************************************)
EXTENDS Verification, TLC

MCAssets == {"ugnot", "0ugnot", "ugnot,5ufoo"}
MCAmounts == {"5", "0", "-5"}
MCDenominations == {"ugnot"}
MCValue == [n \in {"5"} |-> 5]

Gnot(n) == [denom |-> "ugnot", amount |-> n]

\* "5" and "0ugnot" make 50ugnot, and "5" and "ugnot,5ufoo" two coins, of which the
\* second is written in the one denomination there is.
MCParsedCoins == [na \in MCAmounts \X MCAssets |->
  CASE na = <<"5", "ugnot">>       -> <<Gnot(5)>>
    [] na = <<"5", "0ugnot">>      -> <<Gnot(50)>>
    [] na = <<"5", "ugnot,5ufoo">> -> <<Gnot(5), Gnot(5)>>
    [] OTHER                       -> <<>>]

MCDecoded == [p \in {"payee", "other payee", "PAYEE"} |-> IF p = "PAYEE" THEN "payee" ELSE p]

SoundOffer == [scheme |-> "exact", network |-> "here", asset |-> "ugnot", amount |-> "5",
               payTo |-> "payee", memo |-> Unset, terms |-> Unset]

\* Every offer that differs from the sound one in one key, or in the memo and one.
MCOffers ==
  LET Off(o) ==
        {[o EXCEPT !.scheme = "other scheme"], [o EXCEPT !.network = "there"],
         [o EXCEPT !.payTo = "other payee"], [o EXCEPT !.payTo = "PAYEE"]}
        \cup {[o EXCEPT !.asset = d] : d \in MCAssets}
        \cup {[o EXCEPT !.amount = n] : n \in MCAmounts}
        \cup {[o EXCEPT !.terms = t] : t \in {Unset, "bank-send and authorization", "other terms"}}
  IN UNION {Off([SoundOffer EXCEPT !.memo = m]) : m \in {Unset, "", "invoice"} \cup BadMemos}

MCAddressOf == [k \in {"key1", "key2", "keyS"} |->
  CASE k = "key1" -> "buyer1" [] k = "key2" -> "buyer2" [] k = "keyS" -> "session"]

MCMasterOf == [s \in {"session"} |-> "buyer1"]

SoundTx == [shape |-> "payment", from |-> "buyer1", to |-> "payee", coins |-> <<Gnot(5)>>,
            memo |-> "", session |-> NoAddress, key |-> "key1", signer |-> "key1",
            chain |-> "here", sequence |-> 0]

SoundSessionTx == [SoundTx EXCEPT !.session = "session", !.key = "keyS", !.signer = "keyS"]

\* Payments that differ from a sound one in what they send.
Sent(tx) ==
  {tx, [tx EXCEPT !.to = "other payee"], [tx EXCEPT !.memo = "invoice"]}
  \cup {[tx EXCEPT !.shape = s] : s \in {"malformed", "other signatures", "other messages"}}
  \cup {[tx EXCEPT !.coins = cs] : cs \in {<<>>, <<Gnot(50)>>, <<Gnot(5), Gnot(5)>>}}

\* Payments that differ from a sound one in how they are signed.
Signed(tx) ==
  LET At(n) == [tx EXCEPT !.sequence = n]
  IN UNION {
       {At(n), [At(n) EXCEPT !.chain = "there"], [At(n) EXCEPT !.from = "buyer2"],
        [At(n) EXCEPT !.session = NoAddress]}
       \cup {[At(n) EXCEPT !.key = k] : k \in {"key1", "key2", "keyS", NoKey}}
       \cup {[At(n) EXCEPT !.signer = k] : k \in {"key1", "key2", "keyS"}}
       \cup {[At(n) EXCEPT !.key = k, !.signer = k] : k \in {"key1", "key2", "keyS"}}
     : n \in 0 .. MaxSequence}

Presentation(accepted, tx, o) == [payload |-> [accepted |-> accepted, tx |-> tx], offer |-> o]

\* Payments sent in any way for any offer, under what their payer says it accepted,
\* and payments signed in any way for the sound offer.
MCPresented ==
  {Presentation(accepted, tx, o) :
     accepted \in {SoundOffer, [SoundOffer EXCEPT !.terms = "other terms"]},
     tx \in Sent(SoundTx), o \in MCOffers}
  \cup {Presentation(o, tx, o) : tx \in Sent(SoundTx), o \in MCOffers}
  \cup {Presentation(SoundOffer, tx, SoundOffer) : tx \in Signed(SoundTx) \cup Signed(SoundSessionTx)}

=============================================================================
